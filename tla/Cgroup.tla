------------------------------- MODULE Cgroup -------------------------------
(***************************************************************************)
(* The source of cgroup statistics (sources/cgroup/src).  pre_init()       *)
(* creates the cgroup when configured, init() moves the command into it    *)
(* and starts a task that polls the memory, measure() reads memory, CPU    *)
(* and I/O of the cgroup of the command and then of the root cgroup, join()*)
(* stops the task and removes the cgroup.                                  *)
(*                                                                         *)
(* Memory is the bounds of the values seen in a phase (MinMax), shared     *)
(* with the polling task under a mutex per cgroup; CPU and I/O are the     *)
(* first and last value of a phase (BeginEnd), the last becoming the first *)
(* of the next.  The fields of each kind are handled alike and             *)
(* independently: one stands for all.                                      *)
(***************************************************************************)
EXTENDS MetricReader, Integers, Sequences, FiniteSetsExt

CONSTANTS
    Levels,        \* values of a field of memory.stat
    MaxChanges,    \* bound: what happens outside the profiler in a behaviour
    MaxRuns,       \* bound: runs of the profiler with this source
    MaxMeasures    \* bound: measure() calls in a run

ASSUME LevelsAssumption == Levels # {} /\ Levels \subseteq Nat /\ IsFiniteSet(Levels)
ASSUME CgroupBoundsAssumption ==
    MaxChanges \in Nat /\ MaxRuns \in Nat /\ MaxMeasures \in Nat

VARIABLES
    config,          \* [create_cgroup, attach_pid]
    hierarchy,       \* [mounted, available, enabled]: the controllers of the
                     \* root cgroup, and those it enables for its children
    run,             \* runs so far
    changes,         \* what happened outside so far
    now,             \* the time
    cgroup,          \* [exists, populated]: the cgroup of the command
    files,           \* what the files of each cgroup say: [usage, memory, io]
    memory_counters, \* of each cgroup, the bounds of the phase, or NoBounds
    cpu_counters,    \* of each cgroup, <<begin, end>> of the phase
    io_counters,
    begin_timestamp,
    end_timestamp,
    reading,         \* reads of measure() that are done; 0: it is not running
    polling_task,    \* what the polling task does next
    polled,          \* what it has read and not stored yet, or NotRead
    poll_error,      \* the error it ended with
    cancelled,       \* its token is cancelled
    joining,         \* join() awaits it
    error,           \* the error of the operation that failed
    marks,           \* what the last two measure() calls of this run read
    reported         \* what retrieve() returned since the last measure()

kernelVars   == <<hierarchy, changes, now, cgroup, files>>
counterVars  == <<memory_counters, cpu_counters, io_counters,
                  begin_timestamp, end_timestamp, reading>>
taskVars     == <<polling_task, polled, poll_error>>
joinVars     == <<cancelled, joining>>
ghostVars    == <<marks, reported>>
vars == <<readerVars, config, run, kernelVars, counterVars, taskVars,
          joinVars, error, ghostVars>>

Scopes      == {"proc", "global"}
Controllers == {"memory", "io"}
NoBounds    == <<>>
NoEntry     == 0       \* io.stat has no line before the first I/O
NotRead     == -1
NoPhase     == <<>>
Configs     == [create_cgroup : BOOLEAN, attach_pid : BOOLEAN]
Snapshots   == [usage : Nat, memory : Levels, io : Nat]
Running     == {"started", "open", "closing"}

\* The reads of measure(), in their order.
Reads == << <<"proc", "memory">>,   <<"proc", "cpu">>,   <<"proc", "io">>,
            <<"global", "memory">>, <<"global", "cpu">>, <<"global", "io">> >>

-----------------------------------------------------------------------------
(* Counters                                                                *)
-----------------------------------------------------------------------------

MinMaxUpdate(bounds, value) ==
    IF bounds = NoBounds THEN <<value, value>>
    ELSE <<Min({bounds[1], value}), Max({bounds[2], value})>>

BeginEndUpdate(c, value) ==
    IF c = NoBounds THEN <<value, value>> ELSE <<c[1], value>>

\* An entry that is absent leaves the counter alone.
IoUpdate(c, value) == IF value = NoEntry THEN c ELSE BeginEndUpdate(c, value)

\* Seeded fault: the next phase begins with the next value read.
NewPhaseForgets(c) == NoBounds

NewPhase(c) == IF c = NoBounds THEN c ELSE <<c[2], c[2]>>

Restart(counters) == [scope \in Scopes |-> NewPhase(counters[scope])]

NoMemory == [scope \in Scopes |-> NoBounds]

\* saturating_sub.
SaturatingSub(a, b) == IF a >= b THEN a - b ELSE 0

\* BeginEnd::diff.
Diff(c) == IF c = NoBounds THEN 0 ELSE SaturatingSub(c[2], c[1])

(***************************************************************************)
(* The CPU usage of a phase: the two numbers whose ratio is reported.  The *)
(* duration begins where the phase before ended.                           *)
(***************************************************************************)
UsageRatio(phase, scope) ==
    <<Diff(phase.cpu[scope]), SaturatingSub(phase.end, phase.begin)>>

\* to_metrics: a memory or I/O counter that was never updated has no metric.
ToMetrics(phase) ==
    [scope \in Scopes |->
        [memory |-> phase.memory[scope],
         usage  |-> UsageRatio(phase, scope),
         io     |-> IF phase.io[scope] = NoBounds THEN <<>>
                    ELSE <<Diff(phase.io[scope])>>]]

-----------------------------------------------------------------------------
(* Files                                                                   *)
-----------------------------------------------------------------------------

Exists(scope) ==
    hierarchy.mounted /\ (scope = "proc" => cgroup.exists)

\* Seeded fault: a file that is missing reads as one without entries.
ReadableAlways(scope, file) == Exists(scope)

\* cpu.stat is there in every cgroup, the other files with their controller.
Readable(scope, file) ==
    /\ Exists(scope)
    /\ file = "cpu" \/ file \in (IF scope = "proc" THEN hierarchy.enabled
                                                   ELSE hierarchy.available)

\* IoPath: every error that keeps the cause it came with, a bad number too.
Errors == {"none", "NotAvailable", "NotFound", "PermissionDenied", "IoPath",
           "FailedToAttachPid", "ControllerNotAvailable",
           "ControllerNotEnabled", "Timer"}

\* Seeded fault: what the kernel has is not looked at.
ControllerErrorsNotAvailable(scope, file) ==
    {kind \in {"IoPath", "ControllerNotEnabled"} :
        kind = "ControllerNotEnabled" => Exists(scope) /\ ~ Readable(scope, file)}

(***************************************************************************)
(* What a read may fail with.  A file that is missing is explained by      *)
(* looking at the hierarchy again (into_controller_error).  IoPath is any  *)
(* other error, also of a file that is there (the cgroup is removed while  *)
(* it is read, say), and that of a missing file that is not explained, for *)
(* the lists of controllers cannot be read either.                         *)
(***************************************************************************)
ControllerErrors(scope, file) ==
    {kind \in Errors :
        \/ kind = "IoPath"
        \/ kind = "NotFound" /\ scope = "proc" /\ ~ cgroup.exists
        \/ kind = "NotAvailable" /\ ~ hierarchy.mounted
        \/ /\ kind = "ControllerNotAvailable"
           /\ Exists(scope) /\ file \in Controllers \ hierarchy.available
        \/ /\ kind = "ControllerNotEnabled" /\ scope = "proc"
           /\ Exists(scope) /\ file \in hierarchy.available \ hierarchy.enabled}

IsPair(c) == c = NoBounds \/ c \in Nat \X Nat

TypeOK ==
    /\ ReaderTypeOK
    /\ config \in Configs
    /\ hierarchy.enabled \subseteq hierarchy.available
    /\ run \in 0 .. MaxRuns /\ changes \in 0 .. MaxChanges /\ now \in 0 .. changes
    /\ cgroup \in [exists : BOOLEAN, populated : BOOLEAN]
    /\ cgroup.populated => cgroup.exists
    /\ \A scope \in Scopes :
          /\ files[scope] \in Snapshots
          /\ IsPair(cpu_counters[scope]) /\ IsPair(io_counters[scope])
          /\ memory_counters[scope] # NoBounds =>
                \E low, high \in Levels :
                    low <= high /\ memory_counters[scope] = <<low, high>>
    /\ {begin_timestamp, end_timestamp} \subseteq 0 .. now
    /\ reading \in 0 .. Len(Reads)
    /\ polling_task \in {"none", "read_proc", "store_proc", "read_global",
                         "store_global", "ended", "failed"}
    /\ polled \in Levels \cup {NotRead}
    /\ {error, poll_error} \subseteq Errors
    /\ cancelled \in BOOLEAN /\ joining \in BOOLEAN

-----------------------------------------------------------------------------
(* What happens outside of the profiler                                    *)
-----------------------------------------------------------------------------

\* Time passes; the command uses the CPU, another process does, or none.
TimePasses ==
    /\ now' = now + 1
    /\ UNCHANGED cgroup
    /\ \/ UNCHANGED files
       \/ files' = [files EXCEPT !["global"].usage = @ + 1]
       \/ /\ cgroup.populated
          /\ files' = [files EXCEPT !["proc"].usage = @ + 1, !["global"].usage = @ + 1]

MemoryChanges ==
    /\ \E scope \in Scopes : \E level \in Levels \ {files[scope].memory} :
          /\ scope = "proc" => cgroup.populated
          /\ files' = [files EXCEPT ![scope].memory = level]
    /\ UNCHANGED <<now, cgroup>>

CommandDoesIo ==
    /\ cgroup.populated
    /\ files' = [files EXCEPT !["proc"].io = @ + 1, !["global"].io = @ + 1]
    /\ UNCHANGED <<now, cgroup>>

\* The user moves processes into a cgroup the source leaves alone.
ProcessesEnter ==
    /\ cgroup.exists /\ ~ cgroup.populated /\ ~ config.attach_pid
    /\ cgroup' = [cgroup EXCEPT !.populated = TRUE]
    /\ UNCHANGED <<now, files>>

\* The last process of the cgroup is gone.
ProcessesExit ==
    /\ cgroup.populated
    /\ cgroup' = [cgroup EXCEPT !.populated = FALSE]
    /\ UNCHANGED <<now, files>>

\* Also by the cleanup of another profiler with the same cgroup_name.
CgroupRemoved ==
    /\ cgroup.exists
    /\ cgroup' = [exists |-> FALSE, populated |-> FALSE]
    /\ UNCHANGED <<now, files>>

Kernel ==
    /\ stage # "dropped" /\ hierarchy.mounted
    /\ changes < MaxChanges /\ changes' = changes + 1
    /\ \/ TimePasses \/ MemoryChanges \/ CommandDoesIo
       \/ ProcessesEnter \/ ProcessesExit \/ CgroupRemoved
    /\ UNCHANGED <<readerVars, config, hierarchy, run, counterVars, taskVars,
                   joinVars, error, ghostVars>>

-----------------------------------------------------------------------------
(* The calls of the profiler                                               *)
-----------------------------------------------------------------------------

\* An operation fails: the run, and the source with it, ends.
RunEnds(kind) ==
    /\ Abandon
    /\ error' = kind /\ reading' = 0 /\ joining' = FALSE
    /\ UNCHANGED <<config, run, memory_counters, cpu_counters, io_counters,
                   begin_timestamp, end_timestamp, taskVars, cancelled, ghostVars>>

Fails(kind) == RunEnds(kind) /\ UNCHANGED kernelVars

\* A cgroup that was there before keeps what it has counted.
PreInit ==
    /\ run < MaxRuns
    /\ PreInitCall
    /\ run' = run + 1
    /\ hierarchy.mounted
    /\ cgroup.exists \/ config.create_cgroup
    /\ cgroup' = [cgroup EXCEPT !.exists = TRUE]
    /\ files' = IF cgroup.exists THEN files
                ELSE [files EXCEPT !["proc"].usage = 0, !["proc"].io = NoEntry]
    /\ marks' = <<>> /\ reported' = NoPhase
    /\ UNCHANGED <<config, hierarchy, changes, now, counterVars, taskVars,
                   joinVars, error>>

PreInitFails ==
    /\ stage = "idle" /\ run < MaxRuns
    /\ \/ ~ hierarchy.mounted /\ Fails("NotAvailable")
       \/ /\ hierarchy.mounted /\ ~ cgroup.exists
          /\ \/ config.create_cgroup
                /\ \E kind \in {"PermissionDenied", "IoPath"} : Fails(kind)
             \/ ~ config.create_cgroup /\ Fails("NotFound")

\* attach_pid moves the command, which is stopped.
InitSource ==
    /\ InitCall
    /\ config.attach_pid => cgroup.exists
    /\ cgroup' = [cgroup EXCEPT !.populated = @ \/ config.attach_pid]
    /\ polling_task' = "read_proc" /\ polled' = NotRead /\ poll_error' = "none"
    /\ cancelled' = FALSE
    /\ begin_timestamp' = now
    /\ UNCHANGED <<config, hierarchy, run, changes, now, files, memory_counters,
                   cpu_counters, io_counters, end_timestamp, reading, joining,
                   error, ghostVars>>

AttachFails ==
    /\ stage = "ready" /\ config.attach_pid
    /\ \/ \E kind \in {"PermissionDenied", "FailedToAttachPid"} : Fails(kind)
       \/ ~ cgroup.exists /\ Fails("NotFound")

\* The timer of the polling task cannot be made: the command was moved.
TimerFails ==
    /\ stage = "ready"
    /\ config.attach_pid => cgroup.exists
    /\ cgroup' = [cgroup EXCEPT !.populated = @ \/ config.attach_pid]
    /\ RunEnds("Timer")
    /\ UNCHANGED <<hierarchy, changes, now, files>>

MeasureBegins ==
    /\ stage \in {"started", "open"} /\ taken < MaxMeasures
    /\ ~ joining /\ reading = 0
    /\ reading' = 1
    /\ end_timestamp' = now
    /\ marks' = LET last == IF Len(marks) = 2 THEN Tail(marks) ELSE marks
                IN  Append(last, [time |-> now, files |-> files])
    /\ reported' = NoPhase
    /\ UNCHANGED <<readerVars, config, run, kernelVars, memory_counters,
                   cpu_counters, io_counters, begin_timestamp, taskVars,
                   joinVars, error>>

(***************************************************************************)
(* One file is read and folded into its counter; everything else may       *)
(* happen between two files.  The last one ends measure().                 *)
(***************************************************************************)
MeasureReads ==
    /\ reading > 0
    /\ LET scope == Reads[reading][1]
           file  == Reads[reading][2]
       IN  /\ Readable(scope, file)
           /\ memory_counters' = IF file # "memory" THEN memory_counters
                 ELSE [memory_counters EXCEPT ![scope] = MinMaxUpdate(@, files[scope].memory)]
           /\ cpu_counters' = IF file # "cpu" THEN cpu_counters
                 ELSE [cpu_counters EXCEPT ![scope] = BeginEndUpdate(@, files[scope].usage)]
           /\ io_counters' = IF file # "io" THEN io_counters
                 ELSE [io_counters EXCEPT ![scope] = IoUpdate(@, files[scope].io)]
           /\ marks' = [marks EXCEPT ![Len(marks)].files[scope] =
                 CASE file = "memory" -> [@ EXCEPT !.memory = files[scope].memory]
                   [] file = "cpu"    -> [@ EXCEPT !.usage = files[scope].usage]
                   [] file = "io"     -> [@ EXCEPT !.io = files[scope].io]]
    /\ IF reading = Len(Reads)
       THEN reading' = 0 /\ MeasureCall
       ELSE reading' = reading + 1 /\ UNCHANGED readerVars
    /\ UNCHANGED <<config, run, kernelVars, begin_timestamp, end_timestamp,
                   taskVars, joinVars, error, reported>>

MeasureFails ==
    /\ reading > 0
    /\ \E kind \in ControllerErrors(Reads[reading][1], Reads[reading][2]) : Fails(kind)

\* Seeded fault: the bounds are reset before they are copied.
RetrieveResetsFirst ==
    /\ ~ joining
    /\ RetrieveCall
    /\ reported' = [memory |-> NoMemory,
                    cpu |-> cpu_counters, io |-> io_counters,
                    begin |-> begin_timestamp, end |-> end_timestamp]
    /\ memory_counters' = NoMemory
    /\ cpu_counters' = Restart(cpu_counters)
    /\ io_counters' = Restart(io_counters)
    /\ begin_timestamp' = end_timestamp
    /\ UNCHANGED <<config, run, kernelVars, end_timestamp, reading, taskVars,
                   joinVars, error, marks>>

Retrieve ==
    /\ ~ joining
    /\ RetrieveCall
    /\ reported' = [memory |-> memory_counters, cpu |-> cpu_counters,
                    io |-> io_counters,
                    begin |-> begin_timestamp, end |-> end_timestamp]
    /\ memory_counters' = NoMemory
    /\ cpu_counters' = Restart(cpu_counters)
    /\ io_counters' = Restart(io_counters)
    /\ begin_timestamp' = end_timestamp
    /\ UNCHANGED <<config, run, kernelVars, end_timestamp, reading, taskVars,
                   joinVars, error, marks>>

JoinBegins ==
    /\ stage \in Running /\ ~ joining /\ reading = 0
    /\ joining' = TRUE /\ cancelled' = TRUE
    /\ UNCHANGED <<readerVars, config, run, kernelVars, counterVars, taskVars,
                   error, ghostVars>>

(***************************************************************************)
(* cleanup: the processes are moved to the root cgroup and the directory   *)
(* is removed, unless one could not be moved or a new one came: then a     *)
(* warning is all that happens.  It is no error if the cgroup is gone.     *)
(***************************************************************************)
Cleanup ==
    \/ cgroup' = [exists |-> FALSE, populated |-> FALSE]
    \/ cgroup.populated /\ UNCHANGED cgroup

\* Seeded fault: join() does not clean up.
PollJoinedOnly ==
    /\ joining /\ polling_task = "ended"
    /\ joining' = FALSE
    /\ JoinCall
    /\ UNCHANGED <<config, run, kernelVars, counterVars, taskVars, cancelled,
                   error, ghostVars>>

PollJoined ==
    /\ joining /\ polling_task = "ended"
    /\ joining' = FALSE
    /\ JoinCall
    /\ IF config.create_cgroup THEN Cleanup ELSE UNCHANGED cgroup
    /\ UNCHANGED <<config, hierarchy, run, changes, now, files, counterVars,
                   taskVars, cancelled, error, ghostVars>>

\* An error of the polling task returns before the cgroup is removed.
PollJoinFails ==
    /\ joining /\ polling_task = "failed"
    /\ Fails(poll_error)

\* The processes of the cgroup cannot be listed: none is moved.
CleanupFails ==
    /\ joining /\ polling_task = "ended"
    /\ config.create_cgroup /\ cgroup.exists
    /\ Fails("IoPath")

Returned ==
    /\ GiveBack
    /\ UNCHANGED <<config, run, kernelVars, counterVars, taskVars, joinVars,
                   error, ghostVars>>

\* The run fails elsewhere.  Neither the task nor the cgroup is ended.
Dropped == Fails("none")

-----------------------------------------------------------------------------
(* The polling task reads memory first and then takes the mutex, for the   *)
(* cgroup of the command and then for the root cgroup.                     *)
-----------------------------------------------------------------------------

PollReads(scope, from, to) ==
    /\ polling_task = from /\ Readable(scope, "memory")
    /\ polling_task' = to /\ polled' = files[scope].memory
    /\ UNCHANGED <<readerVars, config, run, kernelVars, counterVars, poll_error,
                   joinVars, error, ghostVars>>

PollFails(scope, from) ==
    /\ polling_task = from
    /\ polling_task' = "failed"
    /\ poll_error' \in ControllerErrors(scope, "memory")
    /\ UNCHANGED <<readerVars, config, run, kernelVars, counterVars, polled,
                   joinVars, error, ghostVars>>

PollStores(scope, from, to) ==
    /\ polling_task = from
    /\ polling_task' = to /\ polled' = NotRead
    /\ memory_counters' = [memory_counters EXCEPT ![scope] = MinMaxUpdate(@, polled)]
    /\ UNCHANGED <<readerVars, config, run, kernelVars, cpu_counters, io_counters,
                   begin_timestamp, end_timestamp, reading, poll_error, joinVars,
                   error, ghostVars>>

\* Between two polls only: a poll has no await.
PollStops ==
    /\ polling_task = "read_proc" /\ cancelled
    /\ polling_task' = "ended"
    /\ UNCHANGED <<readerVars, config, run, kernelVars, counterVars, polled,
                   poll_error, joinVars, error, ghostVars>>

\* A cgroup of that name may be there from before.
Init ==
    /\ ReaderInit
    /\ config \in Configs
    /\ \E mounted \in BOOLEAN, available, enabled \in SUBSET Controllers :
          /\ enabled \subseteq available
          /\ mounted \/ available = {}
          /\ hierarchy = [mounted |-> mounted, available |-> available,
                          enabled |-> enabled]
    /\ run = 0 /\ changes = 0 /\ now = 0
    /\ \E exists \in BOOLEAN :
          /\ exists => hierarchy.mounted
          /\ cgroup = [exists |-> exists, populated |-> FALSE]
    /\ \E level \in Levels :
          files = [scope \in Scopes |->
                      [usage |-> 0, memory |-> level,
                       io |-> IF scope = "proc" THEN NoEntry ELSE 1]]
    /\ memory_counters = NoMemory
    /\ cpu_counters = [scope \in Scopes |-> NoBounds]
    /\ io_counters = [scope \in Scopes |-> NoBounds]
    /\ begin_timestamp = 0 /\ end_timestamp = 0 /\ reading = 0
    /\ polling_task = "none" /\ polled = NotRead /\ poll_error = "none"
    /\ cancelled = FALSE /\ joining = FALSE /\ error = "none"
    /\ marks = <<>> /\ reported = NoPhase

ProfilerCalls ==
    \/ PreInit \/ PreInitFails \/ InitSource \/ AttachFails \/ TimerFails
    \/ MeasureBegins \/ MeasureReads \/ MeasureFails \/ Retrieve
    \/ JoinBegins \/ PollJoined \/ PollJoinFails \/ CleanupFails
    \/ Returned \/ Dropped

\* The task of a source that is dropped goes on, but nobody reads its bounds.
PollingTask ==
    /\ stage \in Running
    /\ \/ PollReads("proc", "read_proc", "store_proc")
       \/ PollStores("proc", "store_proc", "read_global")
       \/ PollReads("global", "read_global", "store_global")
       \/ PollStores("global", "store_global", "read_proc")
       \/ PollFails("proc", "read_proc") \/ PollFails("global", "read_global")
       \/ PollStops

\* No call is left to make: the only states in which the system may rest.
Finished ==
    /\ stage = "dropped" \/ (stage = "idle" /\ run = MaxRuns)
    /\ UNCHANGED vars

Next == Kernel \/ ProfilerCalls \/ PollingTask \/ Finished

Spec == Init /\ [][Next]_vars

-----------------------------------------------------------------------------

\* The first phase of a later run begins where the run before it ended.
Delimited == reported # NoPhase /\ (closed > 1 \/ run = 1)

(***************************************************************************)
(* A phase holds what happened between the reads that delimit it, although *)
(* the command runs on while the files are read one after the other, and   *)
(* the counters are reset by different code.  CPU time is set in relation  *)
(* to the time between the two measurements.  (The time of the first phase *)
(* begins with init(), its CPU time with the first measurement.)  I/O is   *)
(* what was done since the first read if io.stat then had an entry; if     *)
(* not, nothing is reported, not even what the entry tells that was there  *)
(* at the second.  Only in a later run, whose cgroup is created anew, may  *)
(* the counter left by the removed one be the begin instead: then at most  *)
(* what was done is reported.                                              *)
(***************************************************************************)
CpuPhaseExact ==
    Delimited =>
        \A scope \in Scopes :
            LET usage == ToMetrics(reported)[scope].usage
            IN  /\ usage[1] = marks[2].files[scope].usage - marks[1].files[scope].usage
                /\ closed > 1 => usage[2] = marks[2].time - marks[1].time

IoPhaseExact ==
    Delimited =>
        \A scope \in Scopes :
            LET first == marks[1].files[scope].io
                io    == ToMetrics(reported)[scope].io
            IN  IF first # NoEntry
                THEN io = <<marks[2].files[scope].io - first>>
                ELSE IF run = 1 \/ ~ config.create_cgroup
                THEN io \in {<<>>, <<0>>}
                ELSE io = <<>> \/ io[1] <= marks[2].files[scope].io

PhaseExact == CpuPhaseExact /\ IoPhaseExact

(***************************************************************************)
(* The bounds reported for a phase hold the value read at the boundary     *)
(* that closes it: no reset comes between the two, and no poll undoes it.  *)
(***************************************************************************)
BoundaryWithinBounds ==
    reported # NoPhase =>
        \A scope \in Scopes :
            LET bounds == reported.memory[scope]
            IN  /\ bounds # NoBounds
                /\ marks[2].files[scope].memory \in bounds[1] .. bounds[2]

(***************************************************************************)
(* A controller that is not enabled never goes unnoticed: no phase is      *)
(* reported without it.  And an error that tells the user what to do is    *)
(* true: the hierarchy is not mounted, the cgroup is missing (only the     *)
(* source creates it), the kernel has not all controllers, or has one that *)
(* is not enabled.  So it must be when the error was met by the polling    *)
(* task long before join() returns it.  Every other error keeps its cause. *)
(***************************************************************************)
FailureNamesCause ==
    /\ reported # NoPhase => hierarchy.enabled = Controllers
    /\ error = "NotAvailable" => ~ hierarchy.mounted
    /\ error = "NotFound" => ~ cgroup.exists
    /\ error = "ControllerNotAvailable" =>
          hierarchy.mounted /\ hierarchy.available # Controllers
    /\ error = "ControllerNotEnabled" =>
          hierarchy.mounted /\ hierarchy.available # hierarchy.enabled

(***************************************************************************)
(* A join() that succeeds leaves no cgroup behind that the source created, *)
(* except with processes in it that could not be moved.                    *)
(***************************************************************************)
NoCgroupLeft ==
    [][stage' = "joined" /\ stage # "joined" /\ config.create_cgroup =>
          ~ cgroup'.exists \/ cgroup'.populated]_vars

=============================================================================
