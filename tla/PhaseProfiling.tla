--------------------------- MODULE PhaseProfiling ---------------------------
(***************************************************************************)
(* What phase-based profiling promises the user of the library, without    *)
(* threads, channels, processes or workers: a call either refuses to       *)
(* start, or passes some boundaries and then succeeds or fails.  It        *)
(* succeeds with one phase more than the boundaries it passed and keeps    *)
(* its sources; it fails without results and the sources are lost.         *)
(***************************************************************************)
EXTENDS Naturals

CONSTANT MaxCalls   \* bound: calls of profile()

VARIABLES
    profiling,   \* a call is in progress
    calls,       \* calls so far
    boundaries,  \* boundaries passed by the call
    available,   \* the profiler has sources to profile with
    succeeded,   \* the last call that ended succeeded
    reported     \* phases of the last success

vars == <<profiling, calls, boundaries, available, succeeded, reported>>

Init ==
    /\ profiling = FALSE /\ calls = 0 /\ boundaries = 0
    /\ available = TRUE /\ succeeded = FALSE /\ reported = 0

Refuse ==
    /\ ~ profiling /\ calls < MaxCalls
    /\ calls' = calls + 1
    /\ succeeded' = FALSE
    /\ UNCHANGED <<profiling, boundaries, available, reported>>

Begin ==
    /\ ~ profiling /\ calls < MaxCalls
    /\ available
    /\ profiling' = TRUE
    /\ calls' = calls + 1
    /\ boundaries' = 0
    /\ available' = FALSE
    /\ succeeded' = FALSE
    /\ UNCHANGED reported

PassBoundary ==
    /\ profiling
    /\ boundaries' = boundaries + 1
    /\ UNCHANGED <<profiling, calls, available, succeeded, reported>>

Succeed ==
    /\ profiling
    /\ profiling' = FALSE
    /\ available' = TRUE
    /\ succeeded' = TRUE
    /\ reported' = boundaries + 1
    /\ UNCHANGED <<calls, boundaries>>

Fail ==
    /\ profiling
    /\ profiling' = FALSE
    /\ UNCHANGED <<calls, boundaries, available, succeeded, reported>>

Next == Refuse \/ Begin \/ PassBoundary \/ Succeed \/ Fail

Spec == Init /\ [][Next]_vars

=============================================================================
