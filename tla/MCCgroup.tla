------------------------------ MODULE MCCgroup ------------------------------
(* Instances of Cgroup for TLC.                                            *)
EXTENDS Cgroup
=============================================================================
