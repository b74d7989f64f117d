----------------------- MODULE JouleProfilerInduction -----------------------
(***************************************************************************)
(* The inductive invariant of JouleProfiler.  The properties say what      *)
(* holds when profile() returns; to be preserved by every step they need   *)
(* what holds while it runs: which thread may move (Control), who holds a  *)
(* source (Ownership), what a worker has seen of the sequence of events    *)
(* (Progress), and how many events of it were submitted (Submission).      *)
(***************************************************************************)
EXTENDS JouleProfiler

(***************************************************************************)
(* The caller, the reader and the handles.  While the reader thread runs   *)
(* the caller awaits it; JoinWorker is only sent in finalize(); the        *)
(* orchestrator has a sender and a join handle for every source or none.   *)
(***************************************************************************)
Running == main \in {"spawn_reader", "await_reader", "wait_child", "join"}

Control ==
    /\ reader \notin {"none", "done"} =>
          main = "await_reader" /\ readerResult = "none"
    /\ reader = "none" => readerResult = "none" /\ cursor = 1 /\ detected = 0
    /\ main \in MainState \ {"idle", "await_reader", "wait_child", "join", "join_all"} =>
          reader = "none"
    /\ main = "await_reader" => reader # "none"
    /\ main = "wait_child" => reader = "done" /\ readerResult = "ok"
    /\ main \in {"join", "join_all"} =>
          reader = "done" /\ readerResult \in ReaderErrors \cup {"ok"}
    /\ main \in {"join", "join_all"} /\ readerResult = "ok" => child = "reaped"
    /\ reader \in {"sink", "first_measure", "resume"} => detected = 0
    /\ reader \in {"read", "measure", "new_phase", "last_measure", "last_phase"} =>
          detected >= 1
    /\ reader = "done" => readerResult # "none"
    /\ readerResult = "IoError" => detected >= 1
    /\ readerResult = "ok" => detected >= 2
    /\ reader \notin Broadcasting /\ readerResult \notin {"SendError", "panicked"} =>
          cursor = 1
    /\ joinSent # {} => main = "join"

Handles ==
    /\ Running /\ readerResult # "panicked" =>
          senders = Sources /\ joinHandles = Sources
    /\ main = "join_all" => senders = {} /\ joinHandles = Sources
    /\ ~ Running /\ main # "join_all" => senders = {} /\ joinHandles = {}
    /\ readerResult = "panicked" => senders = {} /\ joinHandles = {}
    /\ \A s \in joinHandles : worker[s] # "none"
    /\ \A s \in senders \ joinSent :
          worker[s] \in {"recv", "measure", "retrieve", "failed", "panicked"}

(***************************************************************************)
(* Who holds a source, and what state it may be in there.                  *)
(***************************************************************************)
Live == {"recv", "measure", "retrieve", "join", "convert"}

Ownership ==
    /\ \/ main = "idle" /\ \A s \in Sources : owner[s] = "profiler"
       \/ \A s \in Sources : owner[s] # "profiler"
    /\ main \in {"pre_init", "spawn", "pause", "init", "run"} =>
          \A s \in Sources : owner[s] = "orchestrator"
    /\ main = "wait_init" =>
          \A s \in Sources :
             owner[s] = "init_task" \/ initTask[s] = "panicked"

Held(s) ==
    /\ owner[s] = "profiler" =>
          ~ initialised[s] /\ worker[s] \in {"none", "done"}
    /\ owner[s] \in {"orchestrator", "init_task"} => worker[s] = "none"
    /\ initTask[s] = "running" => owner[s] = "init_task"
    /\ worker[s] \in Live => owner[s] = "worker"
    /\ owner[s] = "worker" => worker[s] \in Live \cup {"done"}
    /\ worker[s] \in {"convert", "done"} => ~ initialised[s]

(***************************************************************************)
(* The events of a run are Measure, then Measure and NewPhase in turn.     *)
(* Kind(i) is the i-th; Received(s) counts those that s has taken.         *)
(***************************************************************************)
Kind(i) == IF i = 1 \/ i % 2 = 0 THEN Measure ELSE NewPhase

Received(s) ==
    measured[s] + Len(phases[s])
      + IF worker[s] \in {"measure", "retrieve", "join", "convert", "done"}
        THEN 1 ELSE 0

Progress(s) ==
    /\ \/ measured[s] = 0 /\ Len(phases[s]) = 0
       \/ measured[s] = Len(phases[s]) + 1
       \/ measured[s] = Len(phases[s]) + 2
    /\ \A k \in 1 .. Len(phases[s]) : phases[s][k] = k + 1
    /\ worker[s] = "measure" => measured[s] # Len(phases[s]) + 2
    /\ worker[s] = "retrieve" => measured[s] = Len(phases[s]) + 2
    /\ worker[s] \notin {"recv", "measure", "retrieve"} => queue[s] = <<>>
    /\ \A j \in 1 .. Len(queue[s]) :
          IF queue[s][j] = JoinWorker
          THEN j = Len(queue[s]) /\ (s \in joinSent \/ s \notin senders)
          ELSE queue[s][j] = Kind(Received(s) + j)

\* JoinWorker was sent to s and the caller still awaits s.
Joining(s) == s \in joinSent \/ (main = "join_all" /\ s \in joinHandles)

JoinIsLast(s) ==
    Joining(s) /\ worker[s] \in {"recv", "measure", "retrieve"} =>
        queue[s] # <<>> /\ queue[s][Len(queue[s])] = JoinWorker

(***************************************************************************)
(* How many events every source was sent before the current broadcast.    *)
(***************************************************************************)
Base ==
    CASE reader \in {"none", "sink", "first_measure"} -> 0
      [] reader = "resume" -> 1
      [] reader \in {"read", "measure", "last_measure"} -> 2 * detected - 1
      [] reader \in {"new_phase", "last_phase"} -> 2 * detected
      [] reader = "done" ->
            CASE readerResult = "OutputFileCreationFailed" -> 0
              [] readerResult = "ProcessControlFailed"     -> 1
              [] OTHER                                     -> 2 * detected - 1

(***************************************************************************)
(* A worker that has not failed has received, or will, what was submitted. *)
(* A reader that stopped in a broadcast stopped because a worker failed.   *)
(***************************************************************************)
Submission ==
    /\ readerResult = "SendError" =>
          \E s \in Sources : worker[s] \in {"failed", "panicked"}
    /\ readerResult # "SendError" =>
          \A s \in joinHandles :
             worker[s] \notin {"failed", "panicked"} =>
                Received(s) + Len(queue[s]) =
                   Base + (IF s < cursor THEN 1 ELSE 0)
                        + (IF Joining(s) THEN 1 ELSE 0)

IInv ==
    /\ TypeOK
    /\ Control
    /\ Handles
    /\ Ownership
    /\ \A s \in Sources : Held(s) /\ Progress(s) /\ JoinIsLast(s)
    /\ Submission
    /\ NeverMisaligned
    /\ PhasesAligned
    /\ SendErrorSurfaced
    /\ SuccessMeansAllJoined

=============================================================================
