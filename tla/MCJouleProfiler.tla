--------------------------- MODULE MCJouleProfiler ---------------------------
(* Instances of JouleProfiler for TLC: which operations may fail.          *)
EXTENDS JouleProfilerRefinement

AllFaults == FaultKinds

\* What can go wrong while the command runs, and the timeout of init().
RunFaults == {"init_timeout", "measure", "retrieve", "join", "write"}

-----------------------------------------------------------------------------
(* What the documentation says of the code, and the code does not do.      *)

OutputWriteFault == {"write"}

(***************************************************************************)
(* core/src/profiler/error.rs:60, NoSourceConfigured: "Returned when       *)
(* there's no metric sources configured".  Here N sources were added.      *)
(***************************************************************************)
NoSourceMeansNoneAdded == outcome # "NoSourceConfigured"

=============================================================================
