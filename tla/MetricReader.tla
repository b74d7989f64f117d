---------------------------- MODULE MetricReader ----------------------------
(***************************************************************************)
(* The calls the profiler makes on one source through the MetricReader     *)
(* trait (core/src/source/reader.rs), in the order it makes them: this is  *)
(* all that the models of the sources assume of the profiler.              *)
(*                                                                         *)
(* It is not assumed on faith.  JouleProfilerRefinement states that the    *)
(* profiler, seen from any of its sources, implements ReaderSpec: it is    *)
(* checked with the profiler's runs and proved.                            *)
(***************************************************************************)
EXTENDS Naturals

VARIABLES
    stage,    \* where the source is in its life
    taken,    \* measure() calls since init()
    closed    \* retrieve() calls since init()

readerVars == <<stage, taken, closed>>

(***************************************************************************)
(* idle: with the profiler, new or given back.  ready: pre_init() is done, *)
(* the command is about to be spawned.  started: init() is done.  open: a  *)
(* phase is running.  closing: the phase was measured, retrieve() comes    *)
(* next.  joined: join() is done.  dropped: the source is gone.            *)
(***************************************************************************)
Stages ==
    {"idle", "ready", "started", "open", "closing", "joined", "dropped"}

ReaderTypeOK == stage \in Stages /\ taken \in Nat /\ closed \in Nat

ReaderInit == stage = "idle" /\ taken = 0 /\ closed = 0

-----------------------------------------------------------------------------

PreInitCall ==
    /\ stage = "idle"
    /\ stage' = "ready"
    /\ UNCHANGED <<taken, closed>>

\* When its timeout has expired, init() still ends, for nobody.
InitCall ==
    /\ stage = "ready"
    /\ stage' \in {"started", "dropped"}
    /\ UNCHANGED <<taken, closed>>

MeasureCall ==
    /\ \/ stage = "started" /\ stage' = "open"
       \/ stage = "open"    /\ stage' = "closing"
    /\ taken' = taken + 1
    /\ UNCHANGED closed

RetrieveCall ==
    /\ stage = "closing"
    /\ stage' = "open"
    /\ closed' = closed + 1
    /\ UNCHANGED taken

\* The last event of a run, or the channel closed early on a run that failed.
JoinCall ==
    /\ stage \in {"started", "open", "closing"}
    /\ stage' = "joined"
    /\ UNCHANGED <<taken, closed>>

\* Only a run that succeeded gives its sources back to the profiler.
GiveBack ==
    /\ stage = "joined"
    /\ closed > 0 /\ taken = closed + 1
    /\ stage' = "idle" /\ taken' = 0 /\ closed' = 0

\* An operation of this source failed, or the run failed for another reason.
Abandon ==
    /\ stage # "dropped"
    /\ stage' = "dropped" /\ taken' = 0 /\ closed' = 0

ReaderNext ==
    \/ PreInitCall \/ InitCall \/ MeasureCall \/ RetrieveCall \/ JoinCall
    \/ GiveBack \/ Abandon

ReaderSpec == ReaderInit /\ [][ReaderNext]_readerVars

=============================================================================
