--------------------------- MODULE MCPerfCounters ---------------------------
(* Instances of PerfCounters for TLC.                                      *)
EXTENDS PerfCounters

=============================================================================
