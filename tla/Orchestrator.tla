---------------------------- MODULE Orchestrator ----------------------------
(***************************************************************************)
(* The orchestrator (core/src/orchestrator/mod.rs) and the merge of the    *)
(* sources' results (core/src/aggregate/sensor_result.rs): it initialises  *)
(* the sources, each in a task of its own and under a common timeout,      *)
(* starts one worker per source, fans events out to them and joins them.   *)
(*                                                                         *)
(* The operators below are the effects of the orchestrator's methods on    *)
(* its own state; JouleProfiler says which thread calls them, when, and    *)
(* what the caller makes of the result.                                    *)
(***************************************************************************)
EXTENDS MetricSourceRuntime

VARIABLES
    initTask,   \* initTask[s]: the task that runs init() of source s
    joinSent    \* sources the pending join() has sent JoinWorker to

orchestratorVars == <<initTask, joinSent>>

InitTaskState == {"none", "running", "ok", "failed", "panicked"}

OrchestratorTypeOK ==
    /\ initTask \in [Sources -> InitTaskState]
    /\ joinSent \in SUBSET Sources

OwnedBy(holder) == {s \in Sources : owner[s] = holder}

Reown(S, holder) == owner' = [s \in Sources |-> IF s \in S THEN holder ELSE owner[s]]

-----------------------------------------------------------------------------

(***************************************************************************)
(* The orchestrator is dropped, with the sources it holds, the results of  *)
(* the init tasks that ended, the results of the workers that ended, and   *)
(* every sender and join handle.  Tokio does not cancel a task when its    *)
(* handle is dropped: init tasks and workers that run are detached.        *)
(***************************************************************************)
DropOrchestrator ==
    /\ Reown({s \in Sources :
                \/ owner[s] = "orchestrator"
                \/ owner[s] = "init_task" /\ initTask[s] # "running"
                \/ owner[s] = "worker" /\ Ended(s)},
             "dropped")
    /\ senders' = {}
    /\ joinHandles' = {}
    /\ joinSent' = {}

\* init(): the sources move into one spawned task each.
SpawnInitTasks ==
    /\ initTask' = [s \in Sources |->
                      IF owner[s] = "orchestrator" THEN "running" ELSE "none"]
    /\ Reown(OwnedBy("orchestrator"), "init_task")
    /\ UNCHANGED <<runtimeVars, initialised, handleVars, joinSent>>

\* The body of an init task, whether or not anybody still awaits it.
InitTaskEnds(s, state, awaited) ==
    /\ initTask[s] = "running"
    /\ initTask' = [initTask EXCEPT ![s] = state]
    /\ initialised' = [initialised EXCEPT ![s] = (state = "ok")]
    /\ owner' = [owner EXCEPT ![s] =
                    IF awaited /\ state # "panicked" THEN @ ELSE "dropped"]
    /\ UNCHANGED <<runtimeVars, handleVars, joinSent>>

AllInitTasksEnded == \A s \in Sources : initTask[s] # "running"

\* Seeded fault: the accumulators still hold the phases of the run before.
StartWorkersAccumulating ==
    LET started == OwnedBy("orchestrator") IN
    /\ worker' = [s \in Sources |-> IF s \in started THEN "recv" ELSE "none"]
    /\ queue' = [s \in Sources |-> <<>>]
    /\ senders' = started
    /\ joinHandles' = started
    /\ Reown(started, "worker")
    /\ UNCHANGED <<measured, phases, initialised, orchestratorVars>>

\* run(): a bounded channel and a worker task for every source.
StartWorkers ==
    LET started == OwnedBy("orchestrator") IN
    /\ worker' = [s \in Sources |-> IF s \in started THEN "recv" ELSE "none"]
    /\ queue' = [s \in Sources |-> <<>>]
    /\ measured' = [s \in Sources |-> 0]
    /\ phases' = [s \in Sources |-> <<>>]
    /\ senders' = started
    /\ joinHandles' = started
    /\ Reown(started, "worker")
    /\ UNCHANGED <<initialised, orchestratorVars>>

-----------------------------------------------------------------------------

\* Seeded fault: the channel is not bounded.
CanSendUnbounded(s) == ~ Ended(s)

\* A send of either kind: it waits for room, and fails if the worker ended.
CanSend(s) == ~ Ended(s) /\ Len(queue[s]) < ChannelSize

Enqueue(s, event) == queue' = [queue EXCEPT ![s] = Append(@, event)]

\* One turn of send_event_blocking's loop over the handles.
BlockingSend(s, event) ==
    /\ s \in senders
    /\ CanSend(s)
    /\ Enqueue(s, event)
    /\ UNCHANGED <<worker, measured, phases, sourceVars, handleVars,
                   orchestratorVars>>

BlockingSendFails(s) == s \in senders /\ Ended(s)

\* join(): the sends of JoinWorker are concurrent, each ends when it has room.
SendJoin(s) ==
    /\ s \in senders \ joinSent
    /\ CanSend(s)
    /\ Enqueue(s, JoinWorker)
    /\ joinSent' = joinSent \cup {s}
    /\ UNCHANGED <<worker, measured, phases, sourceVars, handleVars, initTask>>

\* Seeded fault: the error of the send is returned as it is.
EventErrorUnresolved(s) == "SendError"

\* The error handle_event_error makes of a send that failed.
EventError(s) ==
    CASE worker[s] = "failed"   -> "MetricSourceError"
      [] worker[s] = "panicked" -> "JoinError"
      [] OTHER                  -> "SendError"

\* join_all() takes the handles: the senders go, the join handles are awaited.
TakeHandles ==
    /\ joinSent = senders
    /\ senders' = {}
    /\ joinSent' = {}
    /\ UNCHANGED <<runtimeVars, sourceVars, joinHandles, initTask>>

\* Seeded fault: the workers are not awaited.
AllJoinedAtOnce == \A s \in joinHandles : worker[s] # "panicked"

\* A panicked worker ends try_join_all early; a failed one is found at the end.
JoinError == \E s \in joinHandles : worker[s] = "panicked"
AllJoined == \A s \in joinHandles : worker[s] \in {"done", "failed"}

\* SensorResult::merge and try_add, on the phase counts of the sources.
Merge(S) ==
    LET counts == {Len(phases[s]) : s \in S} \ {0} IN
    CASE S = {}                            -> "NoSensorResults"
      [] S # {} /\ counts = {}             -> "AllSourcesEmpty"
      [] \E n \in counts : counts = {n}    -> "ok"
      [] \E m, n \in counts : m # n        -> "PhaseMismatch"

\* Seeded fault: failed workers are left out of the merge.
FinalizeSkipsFailed == Merge({s \in joinHandles : worker[s] = "done"})

\* Seeded fault: what failed workers had accumulated is merged too.
FinalizeKeepsFailed == Merge(joinHandles)

\* What finalize() returns once every worker has ended.
FinalizeResult ==
    IF \E s \in joinHandles : worker[s] = "failed"
    THEN "MetricSourceError" ELSE Merge(joinHandles)

=============================================================================
