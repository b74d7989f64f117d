---------------------------- MODULE JouleProfiler ----------------------------
(***************************************************************************)
(* JouleProfiler::profile (core/src/profiler/mod.rs): one call profiles    *)
(* one command.  Four kinds of process take part:                          *)
(*                                                                         *)
(*   - the caller's task, which runs profile() from one await to the next; *)
(*   - the reader thread, which owns the orchestrator while the command    *)
(*     runs, reads its standard output and fans an event out per boundary; *)
(*   - the worker and init tasks of the sources (MetricSourceRuntime);     *)
(*   - the profiled command, stopped with SIGSTOP until the first          *)
(*     measurement has been submitted, then free to write and to exit.     *)
(*                                                                         *)
(* A line of output is abstracted to whether it holds a phase token; the   *)
(* token itself, timestamps and line numbers are left out.                 *)
(***************************************************************************)
EXTENDS Orchestrator

CONSTANTS
    MaxLines,   \* bound: lines the command writes in one run
    MaxRuns     \* bound: calls of profile() on the same profiler

ASSUME BoundsAssumption == MaxLines \in Nat /\ MaxRuns \in Nat \ {0}

VARIABLES
    main,          \* where the caller's task is in profile()
    runs,          \* calls of profile() so far
    outcome,       \* what the last call returned
    reported,      \* number of phases in the last ProfilerResults
    reader,        \* where the reader thread is
    cursor,        \* the handle its blocking send has come to
    detected,      \* number of PhaseInfo recorded, Start and End included
    readerResult,  \* what it sent back over the oneshot channel
    child,         \* the state of the profiled process
    stdoutOpen,    \* somebody still holds the write end of its stdout
    written,       \* lines written to stdout in this run
    unread         \* lines in the pipe

\* The caller's task
mainVars == <<main, runs, outcome, reported>>

MainState ==
    { "idle", "pre_init", "spawn", "pause", "init", "wait_init", "run",
      "spawn_reader", "await_reader", "wait_child", "join", "join_all" }

\* The reader thread
readerVars == <<reader, cursor, detected, readerResult>>

ReaderState ==
    { "none", "sink", "first_measure", "resume", "read", "measure",
      "new_phase", "last_measure", "last_phase", "done" }
ReaderErrors ==
    {"OutputFileCreationFailed", "SendError", "ProcessControlFailed", "IoError"}
SourceErrors == {"MetricSourceError", "JoinError"}
Outcomes ==
    ReaderErrors \cup SourceErrors \cup
    { "none", "ok", "InvalidPattern", "NoSourceConfigured", "SpawnFailed",
      "InitializationError", "ReaderThreadSpawnFailed",
      "ReaderThreadPanicked", "NoSensorResults", "AllSourcesEmpty",
      "PhaseMismatch" }

\* The profiled command
childVars == <<child, stdoutOpen, written, unread>>

ChildState == {"none", "running", "stopped", "exited", "reaped"}

vars == <<runtimeVars, sourceVars, handleVars, orchestratorVars,
          mainVars, readerVars, childVars>>

TypeOK ==
    /\ RuntimeTypeOK
    /\ OrchestratorTypeOK
    /\ main \in MainState
    /\ runs \in 0 .. MaxRuns
    /\ outcome \in Outcomes
    /\ reported \in Nat
    /\ reader \in ReaderState
    /\ cursor \in 1 .. N
    /\ detected \in Nat
    /\ readerResult \in ReaderErrors \cup {"none", "ok", "panicked"}
    /\ child \in ChildState
    /\ stdoutOpen \in BOOLEAN
    /\ written \in 0 .. MaxLines
    /\ unread \in 0 .. written

CanFail(fault) == fault \in Faults

-----------------------------------------------------------------------------
(* The caller's task: profile() up to the start of the reader thread       *)
-----------------------------------------------------------------------------

Goto(step) ==
    /\ main' = step
    /\ UNCHANGED <<runs, outcome, reported>>

Return(result) ==
    /\ main' = "idle"
    /\ outcome' = result
    /\ UNCHANGED <<runs, reported>>

\* An early return of profile(): the orchestrator goes out of scope.
Abort(result) ==
    /\ Return(result)
    /\ DropOrchestrator

\* The regex is compiled before the sources are taken from the profiler.
InvalidPattern ==
    /\ main = "idle" /\ runs < MaxRuns
    /\ CanFail("pattern")
    /\ runs' = runs + 1
    /\ outcome' = "InvalidPattern"
    /\ UNCHANGED <<runtimeVars, sourceVars, handleVars, orchestratorVars,
                   main, reported, readerVars, childVars>>

NoSourceConfigured ==
    /\ main = "idle" /\ runs < MaxRuns
    /\ OwnedBy("profiler") = {}
    /\ runs' = runs + 1
    /\ outcome' = "NoSourceConfigured"
    /\ UNCHANGED <<runtimeVars, sourceVars, handleVars, orchestratorVars,
                   main, reported, readerVars, childVars>>

\* profile() takes the sources and builds its orchestrator around them.
StartProfile ==
    /\ main = "idle" /\ runs < MaxRuns
    /\ OwnedBy("profiler") # {}
    /\ main' = "pre_init"
    /\ runs' = runs + 1
    /\ outcome' = "none"
    /\ Reown(OwnedBy("profiler"), "orchestrator")
    /\ initTask' = [s \in Sources |-> "none"]
    /\ worker' = [s \in Sources |-> "none"]
    /\ reader' = "none" /\ cursor' = 1 /\ detected' = 0
    /\ readerResult' = "none"
    /\ child' = "none" /\ stdoutOpen' = FALSE
    /\ written' = 0 /\ unread' = 0
    /\ UNCHANGED <<queue, measured, phases, initialised, handleVars, joinSent,
                   reported>>

PreInit ==
    /\ main = "pre_init"
    /\ Goto("spawn")
    /\ UNCHANGED <<runtimeVars, sourceVars, handleVars, orchestratorVars,
                   readerVars, childVars>>

PreInitFails ==
    /\ main = "pre_init" /\ CanFail("pre_init")
    /\ Abort("MetricSourceError")
    /\ UNCHANGED <<runtimeVars, initialised, initTask, readerVars, childVars>>

\* The command runs from here on, until SIGSTOP reaches it.
SpawnCommand ==
    /\ main = "spawn"
    /\ child' = "running" /\ stdoutOpen' = TRUE
    /\ Goto("pause")
    /\ UNCHANGED <<runtimeVars, sourceVars, handleVars, orchestratorVars,
                   readerVars, written, unread>>

SpawnFails ==
    /\ main = "spawn" /\ CanFail("spawn")
    /\ Abort("SpawnFailed")
    /\ UNCHANGED <<runtimeVars, initialised, initTask, readerVars, childVars>>

PauseProcess ==
    /\ main = "pause"
    /\ child' = IF child = "running" THEN "stopped" ELSE child
    /\ Goto("init")
    /\ UNCHANGED <<runtimeVars, sourceVars, handleVars, orchestratorVars,
                   readerVars, stdoutOpen, written, unread>>

PauseFails ==
    /\ main = "pause" /\ CanFail("pause")
    /\ Abort("ProcessControlFailed")
    /\ UNCHANGED <<runtimeVars, initialised, initTask, readerVars, childVars>>

InitSources ==
    /\ main = "init"
    /\ SpawnInitTasks
    /\ Goto("wait_init")
    /\ UNCHANGED <<readerVars, childVars>>

\* An init task of this call, or of an earlier one that no longer awaits it.
InitTask(s) ==
    /\ InitTaskEnds(s, "ok", main = "wait_init")
    /\ UNCHANGED <<mainVars, readerVars, childVars>>

InitTaskFails(s) ==
    /\ \/ CanFail("init")       /\ InitTaskEnds(s, "failed", main = "wait_init")
       \/ CanFail("init_panic") /\ InitTaskEnds(s, "panicked", main = "wait_init")
    /\ UNCHANGED <<mainVars, readerVars, childVars>>

\* Seeded fault: the tasks are joined without the timeout.
InitTimeoutNever ==
    /\ main = "wait_init" /\ AllInitTasksEnded
    /\ \E s \in Sources : initTask[s] = "running"
    /\ Abort("InitializationError")
    /\ UNCHANGED <<runtimeVars, initialised, initTask, readerVars, childVars>>

InitTimeout ==
    /\ main = "wait_init" /\ CanFail("init_timeout")
    /\ ~ AllInitTasksEnded
    /\ \A s \in Sources : initTask[s] # "panicked"
    /\ Abort("InitializationError")
    /\ UNCHANGED <<runtimeVars, initialised, initTask, readerVars, childVars>>

\* try_join_all returns on the first panic, whatever the other tasks do.
InitPanicked ==
    /\ main = "wait_init"
    /\ \E s \in Sources : initTask[s] = "panicked"
    /\ Abort("JoinError")
    /\ UNCHANGED <<runtimeVars, initialised, initTask, readerVars, childVars>>

InitFailed ==
    /\ main = "wait_init" /\ AllInitTasksEnded
    /\ \A s \in Sources : initTask[s] # "panicked"
    /\ \E s \in Sources : initTask[s] = "failed"
    /\ Abort("MetricSourceError")
    /\ UNCHANGED <<runtimeVars, initialised, initTask, readerVars, childVars>>

InitDone ==
    /\ main = "wait_init" /\ AllInitTasksEnded
    /\ \A s \in Sources : initTask[s] \in {"none", "ok"}
    /\ Reown(OwnedBy("init_task"), "orchestrator")
    /\ Goto("run")
    /\ UNCHANGED <<runtimeVars, initialised, handleVars, orchestratorVars,
                   readerVars, childVars>>

RunSources ==
    /\ main = "run"
    /\ StartWorkers
    /\ Goto("spawn_reader")
    /\ UNCHANGED <<readerVars, childVars>>

SpawnReader ==
    /\ main = "spawn_reader"
    /\ reader' = "sink"
    /\ Goto("await_reader")
    /\ UNCHANGED <<runtimeVars, sourceVars, handleVars, orchestratorVars,
                   cursor, detected, readerResult, childVars>>

SpawnReaderFails ==
    /\ main = "spawn_reader" /\ CanFail("reader_spawn")
    /\ Abort("ReaderThreadSpawnFailed")
    /\ UNCHANGED <<runtimeVars, initialised, initTask, readerVars, childVars>>

-----------------------------------------------------------------------------
(* The reader thread: measure_phases_blocking, read_and_detect_phases      *)
-----------------------------------------------------------------------------

ReaderGoto(step) ==
    /\ reader' = step
    /\ UNCHANGED <<cursor, detected, readerResult>>

ReaderReturns(result) ==
    /\ reader' = "done"
    /\ readerResult' = result
    /\ UNCHANGED <<cursor, detected>>

\* Seeded fault: the command is resumed before the first measure.
CreateSinkThenResume ==
    /\ reader = "sink"
    /\ ReaderGoto("resume")
    /\ UNCHANGED <<runtimeVars, sourceVars, handleVars, orchestratorVars,
                   mainVars, childVars>>

CreateSink ==
    /\ reader = "sink"
    /\ ReaderGoto("first_measure")
    /\ UNCHANGED <<runtimeVars, sourceVars, handleVars, orchestratorVars,
                   mainVars, childVars>>

CreateSinkFails ==
    /\ reader = "sink" /\ CanFail("sink")
    /\ ReaderReturns("OutputFileCreationFailed")
    /\ UNCHANGED <<runtimeVars, sourceVars, handleVars, orchestratorVars,
                   mainVars, childVars>>

Broadcasting ==
    {"first_measure", "measure", "new_phase", "last_measure", "last_phase"}

\* The event a broadcast sends, and where the thread goes once it is sent.
BroadcastEvent ==
    IF reader \in {"new_phase", "last_phase"} THEN NewPhase ELSE Measure

AfterBroadcast ==
    CASE reader = "first_measure" -> "resume"
      [] reader = "measure"       -> "new_phase"
      [] reader = "new_phase"     -> "read"
      [] reader = "last_measure"  -> "last_phase"
      [] reader = "last_phase"    -> "done"

\* One blocking_send; after the last handle the boundary is recorded.
SendEvent ==
    /\ reader \in Broadcasting
    /\ BlockingSend(cursor, BroadcastEvent)
    /\ IF cursor < N
       THEN /\ cursor' = cursor + 1
            /\ UNCHANGED <<reader, detected, readerResult>>
       ELSE /\ cursor' = 1
            /\ reader' = AfterBroadcast
            /\ detected' = IF BroadcastEvent = NewPhase
                           THEN detected + 1 ELSE detected
            /\ readerResult' = IF reader = "last_phase"
                               THEN "ok" ELSE readerResult
    /\ UNCHANGED <<mainVars, childVars>>

\* The worker is gone: the handles after this one do not get the event.
SendEventFails ==
    /\ reader \in Broadcasting
    /\ BlockingSendFails(cursor)
    /\ ReaderReturns("SendError")
    /\ UNCHANGED <<runtimeVars, sourceVars, handleVars, orchestratorVars,
                   mainVars, childVars>>

ResumeProcess ==
    /\ reader = "resume"
    /\ child' = IF child = "stopped" THEN "running" ELSE child
    /\ reader' = "read"
    /\ detected' = detected + 1
    /\ UNCHANGED <<runtimeVars, sourceVars, handleVars, orchestratorVars,
                   mainVars, cursor, readerResult, stdoutOpen, written, unread>>

ResumeFails ==
    /\ reader = "resume" /\ CanFail("resume")
    /\ ReaderReturns("ProcessControlFailed")
    /\ UNCHANGED <<runtimeVars, sourceVars, handleVars, orchestratorVars,
                   mainVars, childVars>>

\* A line without a token, or one that is not UTF-8 and is skipped.
ReadLine ==
    /\ reader = "read" /\ unread > 0
    /\ unread' = unread - 1
    /\ UNCHANGED <<runtimeVars, sourceVars, handleVars, orchestratorVars,
                   mainVars, readerVars, child, stdoutOpen, written>>

ReadToken ==
    /\ reader = "read" /\ unread > 0
    /\ unread' = unread - 1
    /\ ReaderGoto("measure")
    /\ UNCHANGED <<runtimeVars, sourceVars, handleVars, orchestratorVars,
                   mainVars, child, stdoutOpen, written>>

\* The line was read but cannot be copied to the sink.
WriteFails ==
    /\ reader = "read" /\ unread > 0 /\ CanFail("write")
    /\ unread' = unread - 1
    /\ ReaderReturns("IoError")
    /\ UNCHANGED <<runtimeVars, sourceVars, handleVars, orchestratorVars,
                   mainVars, child, stdoutOpen, written>>

ReadFails ==
    /\ reader = "read" /\ CanFail("read")
    /\ ReaderReturns("IoError")
    /\ UNCHANGED <<runtimeVars, sourceVars, handleVars, orchestratorVars,
                   mainVars, childVars>>

EndOfFile == reader = "read" /\ unread = 0 /\ ~ stdoutOpen

\* Seeded fault: the last phase is closed without a last measure.
ReadEofSkipsMeasure ==
    /\ EndOfFile
    /\ ReaderGoto("last_phase")
    /\ UNCHANGED <<runtimeVars, sourceVars, handleVars, orchestratorVars,
                   mainVars, childVars>>

ReadEof ==
    /\ EndOfFile
    /\ ReaderGoto("last_measure")
    /\ UNCHANGED <<runtimeVars, sourceVars, handleVars, orchestratorVars,
                   mainVars, childVars>>

FlushFails ==
    /\ EndOfFile /\ CanFail("write")
    /\ ReaderReturns("IoError")
    /\ UNCHANGED <<runtimeVars, sourceVars, handleVars, orchestratorVars,
                   mainVars, childVars>>

\* A panic unwinds the thread: the orchestrator it owns goes with it.
ReaderPanics ==
    /\ reader \notin {"none", "done"} /\ CanFail("reader_panic")
    /\ ReaderReturns("panicked")
    /\ DropOrchestrator
    /\ UNCHANGED <<runtimeVars, initialised, initTask, mainVars, childVars>>

-----------------------------------------------------------------------------
(* The caller's task: from the reader's answer to the end of profile()     *)
-----------------------------------------------------------------------------

\* reader_result_rx.await: the orchestrator is back in the caller's hands.
ReceiveReaderResult ==
    /\ main = "await_reader" /\ reader = "done"
    /\ \/ readerResult = "ok"        /\ Goto("wait_child")
       \/ readerResult \in ReaderErrors /\ Goto("join")
       \/ readerResult = "panicked"  /\ Return("ReaderThreadPanicked")
    /\ UNCHANGED <<runtimeVars, sourceVars, handleVars, orchestratorVars,
                   readerVars, childVars>>

WaitForChildExit ==
    /\ main = "wait_child" /\ child = "exited"
    /\ child' = "reaped"
    /\ Goto("join")
    /\ UNCHANGED <<runtimeVars, sourceVars, handleVars, orchestratorVars,
                   readerVars, stdoutOpen, written, unread>>

WaitFails ==
    /\ main = "wait_child" /\ CanFail("wait")
    /\ Abort("IoError")
    /\ UNCHANGED <<runtimeVars, initialised, initTask, readerVars, childVars>>

FinalizeSendJoin(s) ==
    /\ main = "join"
    /\ SendJoin(s)
    /\ UNCHANGED <<mainVars, readerVars, childVars>>

\* The error of the dead worker replaces the error of the send.
FinalizeSendFails(s) ==
    /\ main = "join"
    /\ s \in senders \ joinSent
    /\ Ended(s)
    /\ Abort(EventError(s))
    /\ UNCHANGED <<runtimeVars, initialised, initTask, readerVars, childVars>>

FinalizeTakeHandles ==
    /\ main = "join"
    /\ TakeHandles
    /\ Goto("join_all")
    /\ UNCHANGED <<readerVars, childVars>>

FinalizeJoinError ==
    /\ main = "join_all" /\ JoinError
    /\ Abort("JoinError")
    /\ UNCHANGED <<runtimeVars, initialised, initTask, readerVars, childVars>>

\* After an error of the reader, an error of finalize() takes precedence.
FinalizeFails ==
    /\ main = "join_all" /\ AllJoined
    /\ \/ FinalizeResult # "ok" /\ Abort(FinalizeResult)
       \/ FinalizeResult = "ok" /\ readerResult # "ok" /\ Abort(readerResult)
    /\ UNCHANGED <<runtimeVars, initialised, initTask, readerVars, childVars>>

\* The counts that merge kept; there is one when FinalizeResult is "ok".
MergedPhases == CHOOSE n \in {Len(phases[s]) : s \in joinHandles} \ {0} : TRUE

\* Seeded fault: disjoint pairs of boundaries, chunks(2) for windows(2).
ReportedChunks == detected \div 2

\* The detected boundaries two by two, zipped with the phases of the sources;
\* if that is empty, the last phase of the sources is the only one.
ReportedPhases ==
    LET windows == IF detected > 1 THEN detected - 1 ELSE 0
        zipped  == IF windows < MergedPhases THEN windows ELSE MergedPhases
    IN  IF zipped = 0 /\ MergedPhases > 0 THEN 1 ELSE zipped

\* self.sources = sources: only this way out of profile() keeps the sources.
ReturnResults ==
    /\ main = "join_all" /\ AllJoined
    /\ FinalizeResult = "ok" /\ readerResult = "ok"
    /\ main' = "idle"
    /\ outcome' = "ok"
    /\ reported' = ReportedPhases
    /\ Reown(joinHandles, "profiler")
    /\ joinHandles' = {}
    /\ UNCHANGED <<runtimeVars, initialised, senders, orchestratorVars, runs,
                   readerVars, childVars>>

-----------------------------------------------------------------------------
(* The workers, the profiled command, and the whole system                 *)
-----------------------------------------------------------------------------

Worker(s) ==
    /\ RunWorker(s)
    /\ UNCHANGED <<orchestratorVars, mainVars, readerVars, childVars>>

WorkerFailure(s) ==
    /\ RunWorkerFails(s)
    /\ UNCHANGED <<orchestratorVars, mainVars, readerVars, childVars>>

\* A process the command left behind may go on writing after it exited.
ChildWrites ==
    /\ child \in {"running", "exited"} /\ stdoutOpen
    /\ written < MaxLines
    /\ written' = written + 1 /\ unread' = unread + 1
    /\ UNCHANGED <<runtimeVars, sourceVars, handleVars, orchestratorVars,
                   mainVars, readerVars, child, stdoutOpen>>

StdoutCloses ==
    /\ child \in {"running", "exited"} /\ stdoutOpen
    /\ stdoutOpen' = FALSE
    /\ UNCHANGED <<runtimeVars, sourceVars, handleVars, orchestratorVars,
                   mainVars, readerVars, child, written, unread>>

\* A stopped process can still be killed from outside.
ChildExits ==
    /\ child \in {"running", "stopped"}
    /\ child' = "exited"
    /\ UNCHANGED <<runtimeVars, sourceVars, handleVars, orchestratorVars,
                   mainVars, readerVars, stdoutOpen, written, unread>>

\* No call is left to make: the only state in which the system may rest.
Finished ==
    /\ main = "idle" /\ runs = MaxRuns
    /\ UNCHANGED vars

CallerStep ==
    \/ InvalidPattern \/ NoSourceConfigured \/ StartProfile
    \/ PreInit \/ PreInitFails \/ SpawnCommand \/ SpawnFails
    \/ PauseProcess \/ PauseFails \/ InitSources
    \/ InitTimeout \/ InitPanicked \/ InitFailed \/ InitDone
    \/ RunSources \/ SpawnReader \/ SpawnReaderFails

FinalizeStep ==
    \/ ReceiveReaderResult \/ WaitForChildExit \/ WaitFails
    \/ \E s \in Sources : FinalizeSendJoin(s) \/ FinalizeSendFails(s)
    \/ FinalizeTakeHandles \/ FinalizeJoinError \/ FinalizeFails
    \/ ReturnResults

ReaderStep ==
    \/ CreateSink \/ CreateSinkFails \/ SendEvent \/ SendEventFails
    \/ ResumeProcess \/ ResumeFails \/ ReadLine \/ ReadToken
    \/ WriteFails \/ ReadFails \/ ReadEof \/ FlushFails \/ ReaderPanics

SourceStep ==
    \E s \in Sources :
        InitTask(s) \/ InitTaskFails(s) \/ Worker(s) \/ WorkerFailure(s)

ChildStep == ChildWrites \/ StdoutCloses \/ ChildExits

Next ==
    CallerStep \/ FinalizeStep \/ ReaderStep \/ SourceStep \/ ChildStep
    \/ Finished

Init ==
    /\ queue = [s \in Sources |-> <<>>]
    /\ worker = [s \in Sources |-> "none"]
    /\ measured = [s \in Sources |-> 0]
    /\ phases = [s \in Sources |-> <<>>]
    /\ owner = [s \in Sources |-> "profiler"]
    /\ initialised = [s \in Sources |-> FALSE]
    /\ senders = {} /\ joinHandles = {} /\ joinSent = {}
    /\ initTask = [s \in Sources |-> "none"]
    /\ main = "idle" /\ runs = 0 /\ outcome = "none" /\ reported = 0
    /\ reader = "none" /\ cursor = 1 /\ detected = 0 /\ readerResult = "none"
    /\ child = "none" /\ stdoutOpen = FALSE /\ written = 0 /\ unread = 0

Spec == Init /\ [][Next]_vars

(***************************************************************************)
(* Fairness.  Tokio polls every task that is ready, the reader is a thread *)
(* of its own, and the operations of a running source are assumed to end;  *)
(* the timer of init() fires.  An init task may hang, and nothing is       *)
(* assumed of the profiled command: it may run, or keep its stdout, for    *)
(* ever.  No fairness is assumed of a failure, except of the timeout and   *)
(* of the sends that fail because a worker is gone.                        *)
(***************************************************************************)
CallerProgress ==
    \/ StartProfile \/ PreInit \/ SpawnCommand \/ PauseProcess \/ InitSources
    \/ InitTimeout \/ InitPanicked \/ InitFailed \/ InitDone
    \/ RunSources \/ SpawnReader
    \/ ReceiveReaderResult \/ WaitForChildExit
    \/ FinalizeTakeHandles \/ FinalizeJoinError \/ FinalizeFails
    \/ ReturnResults

ReaderProgress ==
    \/ CreateSink \/ SendEvent \/ SendEventFails \/ ResumeProcess
    \/ ReadLine \/ ReadToken \/ ReadEof

\* What tokio, the reader thread, the workers and finalize() keep doing.
FairSpec ==
    /\ Spec
    /\ WF_vars(CallerProgress) /\ WF_vars(ReaderProgress)
    /\ \A s \in Sources :
          WF_vars(Worker(s)) /\ WF_vars(FinalizeSendJoin(s) \/ FinalizeSendFails(s))

-----------------------------------------------------------------------------
(* Properties                                                              *)
-----------------------------------------------------------------------------

(***************************************************************************)
(* A profile() that succeeds reports one phase more than the tokens it     *)
(* detected, and phase k of every source is the difference of the          *)
(* snapshots k and k + 1 of that source: the same two boundaries for all,  *)
(* whatever the interleaving of sends, measurements and output.            *)
(***************************************************************************)
PhasesAligned ==
    main = "idle" /\ outcome = "ok" =>
        /\ reported = detected - 1
        /\ \A s \in Sources :
              phases[s] = [k \in 1 .. reported |-> k + 1]

(***************************************************************************)
(* No error of the reader, of a worker or of a send leaves the sources     *)
(* with different numbers of phases for merge() to add up: PhaseMismatch,  *)
(* raised by try_add, cannot be the answer of profile().                   *)
(***************************************************************************)
NeverMisaligned == outcome # "PhaseMismatch"

(***************************************************************************)
(* retrieve() is only asked of a source that has taken two snapshots since *)
(* the phase began, or one since the previous phase ended: the             *)
(* NotEnoughSamples / NotEnoughSnapshots errors of the sources cannot      *)
(* happen in a run.                                                        *)
(***************************************************************************)
RetrieveHasTwoSnapshots ==
    \A s \in Sources :
        worker[s] = "retrieve" => measured[s] = Len(phases[s]) + 2

(***************************************************************************)
(* A failed send is never the answer: "the source error is surfaced later, *)
(* when joining the workers" (send_event_blocking), also when several      *)
(* workers die and the reader stopped half way through a broadcast.        *)
(***************************************************************************)
SendErrorSurfaced ==
    main = "idle" /\ readerResult = "SendError" =>
        outcome \in SourceErrors \cup {"InvalidPattern", "NoSourceConfigured"}

(***************************************************************************)
(* Results are only returned for runs in which no worker failed: an error  *)
(* of a source after the last send is not lost either.                     *)
(***************************************************************************)
SuccessMeansAllJoined ==
    main = "idle" /\ outcome = "ok" =>
        \A s \in Sources : worker[s] = "done" /\ child = "reaped"

(***************************************************************************)
(* The profiler holds all of its sources or none of them, and a source it  *)
(* holds can be used again: join() has undone its init() and no task of an *)
(* earlier run works on it.                                                *)
(***************************************************************************)
SourcesReusable ==
    main = "idle" =>
        /\ OwnedBy("profiler") \in {{}, Sources}
        /\ \A s \in OwnedBy("profiler") :
              ~ initialised[s] /\ worker[s] \in {"none", "done"}

(***************************************************************************)
(* A source is dropped without join(), its background tasks left running,  *)
(* only if it failed itself or the run never started it: a worker that is  *)
(* abandoned because another source or the reader failed still joins its   *)
(* source once its channel closes.                                         *)
(***************************************************************************)
AbandonedSourceJoined ==
    \A s \in Sources :
        owner[s] = "dropped" /\ initialised[s] =>
            worker[s] \in {"none", "failed", "panicked"}

(***************************************************************************)
(* The command is released only after every worker that still runs has     *)
(* been sent its first Measure.  (Sent, not done: measure_blocking         *)
(* "ensures event submission, not measurement completion".)                *)
(***************************************************************************)
FirstMeasureSubmitted ==
    [][ child = "stopped" /\ child' = "running" =>
          \A s \in Sources :
              \/ Ended(s)
              \/ measured[s] = 1
              \/ worker[s] = "measure"
              \/ queue[s] = <<Measure>> ]_vars

(***************************************************************************)
(* profile() comes back, or waits for a command that runs or keeps its     *)
(* stdout open: no channel that is full, no worker that died and no source *)
(* that hangs in init() makes it wait for ever.                            *)
(***************************************************************************)
ProfileReturns ==
    []<>(\/ main = "idle"
         \/ main = "await_reader" /\ stdoutOpen
         \/ main = "wait_child" /\ child # "exited")

(***************************************************************************)
(* A worker that is left behind by a profile() that failed ends.           *)
(***************************************************************************)
AbandonedWorkersEnd ==
    \A s \in Sources :
        main = "idle" /\ worker[s] # "none" ~> Ended(s)

=============================================================================
