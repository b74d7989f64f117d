----------------------- MODULE JouleProfilerRefinement -----------------------
(***************************************************************************)
(* What JouleProfiler implements: the session of PhaseProfiling for the    *)
(* user, and the protocol of MetricReader for each of its sources.         *)
(***************************************************************************)
EXTENDS JouleProfilerInduction

(***************************************************************************)
(* The session as the user sees it: the boundaries passed are the PhaseInfo *)
(* recorded, without Start and without the End of a reader that succeeded. *)
(***************************************************************************)
Boundaries ==
    IF detected = 0 THEN 0
    ELSE IF readerResult = "ok" THEN detected - 2 ELSE detected - 1

Abstract == INSTANCE PhaseProfiling WITH
    MaxCalls   <- MaxRuns,
    profiling  <- main # "idle",
    calls      <- runs,
    boundaries <- Boundaries,
    available  <- OwnedBy("profiler") # {},
    succeeded  <- outcome = "ok",
    reported   <- reported

(***************************************************************************)
(* profile(), with its reader thread, workers, channels and failures,      *)
(* implements the session of PhaseProfiling.                               *)
(***************************************************************************)
ImplementsPhaseProfiling == Abstract!Spec

(***************************************************************************)
(* The life of source s as s sees it: who holds it, and what its worker    *)
(* has called so far.                                                      *)
(***************************************************************************)
Stage(s) ==
    CASE owner[s] = "dropped" -> "dropped"
      [] owner[s] = "profiler" -> "idle"
      [] owner[s] = "orchestrator" ->
            IF main = "pre_init" THEN "idle"
            ELSE IF initialised[s] THEN "started" ELSE "ready"
      [] owner[s] = "init_task" ->
            CASE initTask[s] = "running" -> "ready"
              [] initTask[s] = "ok"      -> "started"
              [] OTHER                   -> "dropped"
      [] owner[s] = "worker" ->
            IF ~ initialised[s] THEN "joined"
            ELSE CASE measured[s] = 0 -> "started"
                   [] measured[s] = Len(phases[s]) + 1 -> "open"
                   [] OTHER -> "closing"

SeenFrom(s) == INSTANCE MetricReader WITH
    stage  <- Stage(s),
    taken  <- IF owner[s] = "worker" THEN measured[s] ELSE 0,
    closed <- IF owner[s] = "worker" THEN Len(phases[s]) ELSE 0

(***************************************************************************)
(* Whatever fails, and however events, timeouts and drops interleave, each *)
(* source is called in the order of the MetricReader protocol: the models  *)
(* of the sources rest on this.                                            *)
(***************************************************************************)
CallsSourcesInOrder ==
    /\ \A s \in Sources : SeenFrom(s)!ReaderInit
    /\ [][ \A s \in Sources :
             SeenFrom(s)!ReaderNext \/ UNCHANGED SeenFrom(s)!readerVars ]_vars

-----------------------------------------------------------------------------
(***************************************************************************)
(* What the two mappings rest on beside IInv: how far a source got in its  *)
(* life can be told from its holder, and no call has an outcome before it  *)
(* has returned.                                                           *)
(***************************************************************************)
Life(s) ==
    /\ owner[s] = "orchestrator" =>
          /\ main \in {"pre_init", "spawn", "pause", "init", "run"}
          /\ initialised[s] <=> main = "run"
    /\ owner[s] = "init_task" =>
          /\ initTask[s] \in {"running", "ok", "failed"}
          /\ initialised[s] <=> initTask[s] = "ok"
    /\ owner[s] = "worker" =>
          (initialised[s] <=> worker[s] \in {"recv", "measure", "retrieve", "join"})
    /\ s \in joinHandles /\ worker[s] = "done" => owner[s] = "worker"

MappingInv ==
    /\ IInv
    /\ main # "idle" => outcome = "none"
    /\ \A s \in Sources : Life(s)

=============================================================================
