------------------------------ MODULE MCProcfs ------------------------------
(* Instances of Procfs for TLC.                                            *)
EXTENDS Procfs
=============================================================================
