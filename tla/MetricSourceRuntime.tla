------------------------- MODULE MetricSourceRuntime -------------------------
(***************************************************************************)
(* The worker task of one metric source (core/src/source/runtime.rs) and   *)
(* the accumulator it fills (core/src/source/accumulator.rs).              *)
(*                                                                         *)
(* A worker receives events from its bounded control channel, one at a     *)
(* time, and calls the source: `measure` takes a snapshot, `retrieve`      *)
(* closes a phase, `join` ends the source, `to_metrics` converts what was  *)
(* accumulated.  Any of these may return an error or panic; the worker     *)
(* then ends at once, and the source it owns is dropped with it.           *)
(*                                                                         *)
(* A snapshot is abstracted to its rank in the run, a closed phase to the  *)
(* number of snapshots taken when it was closed: phase k of a source is    *)
(* the difference of snapshots k and k + 1 exactly when phases[s][k] is    *)
(* k + 1.                                                                  *)
(***************************************************************************)
EXTENDS Naturals, Sequences

CONSTANTS
    N,            \* number of metric sources registered with the profiler
    ChannelSize,  \* CONTROL_CHANNEL_SIZE, the capacity of a control channel
    Faults        \* the operations that may fail in this instance

Sources == 1 .. N   \* in registration order, the order of the code's Vec

FaultKinds ==
    { "pattern", "pre_init", "spawn", "pause", "init", "init_panic",
      "init_timeout", "reader_spawn", "sink", "resume", "read", "write",
      "reader_panic", "measure", "retrieve", "join", "convert",
      "worker_panic", "wait" }

ASSUME NAssumption == N \in Nat \ {0}
ASSUME ChannelAssumption == ChannelSize \in Nat \ {0}
ASSUME FaultsAssumption == Faults \subseteq FaultKinds

VARIABLES
    queue,        \* queue[s]: events in the control channel of s
    worker,       \* worker[s]: what the worker task of s is doing
    measured,     \* measured[s]: snapshots taken since the worker started
    phases,       \* phases[s]: the accumulator, see above
    owner,        \* owner[s]: who holds the source
    initialised,  \* initialised[s]: init() succeeded, join() has not since
    senders,      \* sources whose control_sender is alive
    joinHandles   \* sources whose worker task can still be awaited

runtimeVars == <<queue, worker, measured, phases>>
sourceVars  == <<owner, initialised>>
handleVars  == <<senders, joinHandles>>

Measure    == "Measure"
NewPhase   == "NewPhase"
JoinWorker == "JoinWorker"
SourceEvent == {Measure, NewPhase, JoinWorker}

WorkerState ==
    { "none", "recv", "measure", "retrieve", "join", "convert",
      "done", "failed", "panicked" }
Owners == {"profiler", "orchestrator", "init_task", "worker", "dropped"}

RuntimeTypeOK ==
    /\ queue \in [Sources -> Seq(SourceEvent)]
    /\ \A s \in Sources : Len(queue[s]) <= ChannelSize
    /\ worker \in [Sources -> WorkerState]
    /\ measured \in [Sources -> Nat]
    /\ phases \in [Sources -> Seq(Nat)]
    /\ owner \in [Sources -> Owners]
    /\ initialised \in [Sources -> BOOLEAN]
    /\ senders \in SUBSET Sources
    /\ joinHandles \in SUBSET Sources

\* The task of s has ended: its receiver is dropped and every send fails.
Ended(s) == worker[s] \in {"done", "failed", "panicked"}

-----------------------------------------------------------------------------

(***************************************************************************)
(* The worker returns and its receiver is dropped with whatever it still   *)
(* buffers.  Only a worker that ended well hands its source back, through  *)
(* its join handle; if nobody holds the handle any more the result is      *)
(* discarded and the source with it.                                       *)
(***************************************************************************)
EndWorker(s, state) ==
    /\ worker' = [worker EXCEPT ![s] = state]
    /\ queue' = [queue EXCEPT ![s] = <<>>]
    /\ owner' = [owner EXCEPT ![s] =
                    IF state = "done" /\ s \in joinHandles
                    THEN "worker" ELSE "dropped"]

\* An error of the source, or a panic inside it, ends the worker here and now.
WorkerFails(s, fault) ==
    /\ \/ fault \in Faults          /\ EndWorker(s, "failed")
       \/ "worker_panic" \in Faults /\ EndWorker(s, "panicked")
    /\ UNCHANGED <<measured, phases, initialised, handleVars>>

\* receiver.recv(): the next event, in the order they were sent.
RecvEvent(s) ==
    /\ worker[s] = "recv"
    /\ queue[s] # <<>>
    /\ queue' = [queue EXCEPT ![s] = Tail(@)]
    /\ worker' = [worker EXCEPT ![s] =
                    CASE Head(queue[s]) = Measure    -> "measure"
                      [] Head(queue[s]) = NewPhase   -> "retrieve"
                      [] Head(queue[s]) = JoinWorker -> "join"]
    /\ UNCHANGED <<measured, phases, sourceVars, handleVars>>

\* Seeded fault: the worker ends without joining its source.
RecvClosedSkipsJoin(s) ==
    /\ worker[s] = "recv"
    /\ queue[s] = <<>>
    /\ s \notin senders
    /\ EndWorker(s, "done")
    /\ UNCHANGED <<measured, phases, initialised, handleVars>>

\* Seeded fault: the worker waits on a channel nobody can send to.
RecvIgnoresClosed(s) ==
    /\ worker[s] = "recv"
    /\ queue[s] # <<>>
    /\ s \notin senders
    /\ UNCHANGED <<runtimeVars, sourceVars, handleVars>>

\* receiver.recv() is None: the sender is gone and the buffer is drained.
RecvClosed(s) ==
    /\ worker[s] = "recv"
    /\ queue[s] = <<>>
    /\ s \notin senders
    /\ worker' = [worker EXCEPT ![s] = "join"]
    /\ UNCHANGED <<queue, measured, phases, sourceVars, handleVars>>

MeasureSource(s) ==
    /\ worker[s] = "measure"
    /\ measured' = [measured EXCEPT ![s] = @ + 1]
    /\ worker' = [worker EXCEPT ![s] = "recv"]
    /\ UNCHANGED <<queue, phases, sourceVars, handleVars>>

MeasureFails(s) ==
    /\ worker[s] = "measure"
    /\ WorkerFails(s, "measure")

InitNewPhase(s) ==
    /\ worker[s] = "retrieve"
    /\ phases' = [phases EXCEPT ![s] = Append(@, measured[s])]
    /\ worker' = [worker EXCEPT ![s] = "recv"]
    /\ UNCHANGED <<queue, measured, sourceVars, handleVars>>

RetrieveFails(s) ==
    /\ worker[s] = "retrieve"
    /\ WorkerFails(s, "retrieve")

JoinSource(s) ==
    /\ worker[s] = "join"
    /\ initialised' = [initialised EXCEPT ![s] = FALSE]
    /\ worker' = [worker EXCEPT ![s] = "convert"]
    /\ UNCHANGED <<queue, measured, phases, owner, handleVars>>

JoinFails(s) ==
    /\ worker[s] = "join"
    /\ WorkerFails(s, "join")

\* MetricSourceRuntime::retrieve: every accumulated phase goes to to_metrics.
RetrieveResult(s) ==
    /\ worker[s] = "convert"
    /\ EndWorker(s, "done")
    /\ UNCHANGED <<measured, phases, initialised, handleVars>>

ConvertFails(s) ==
    /\ worker[s] = "convert"
    /\ phases[s] # <<>>
    /\ WorkerFails(s, "convert")

RunWorker(s) ==
    \/ RecvEvent(s) \/ RecvClosed(s)
    \/ MeasureSource(s) \/ InitNewPhase(s)
    \/ JoinSource(s) \/ RetrieveResult(s)

RunWorkerFails(s) ==
    MeasureFails(s) \/ RetrieveFails(s) \/ JoinFails(s) \/ ConvertFails(s)

=============================================================================
