------------------------------- MODULE Procfs -------------------------------
(***************************************************************************)
(* The source of process statistics (sources/procfs/src/lib.rs).  Three    *)
(* tasks share two mutexes:                                                *)
(*                                                                         *)
(*  - the worker, in measure() and retrieve();                             *)
(*  - the polling task, which does at every tick what measure() does;      *)
(*  - the discovery task, which replaces detected_processes at every tick  *)
(*    with the command and its descendants.                                *)
(*                                                                         *)
(* A measurement copies detected_processes, reads the processes one by     *)
(* one, all in parallel, adds up what it read, and only then takes the     *)
(* mutexes; anything may happen in between.  No mutex is held across an    *)
(* await, so a critical section is one step.                               *)
(*                                                                         *)
(* Memory is represented by one of its five fields and I/O by one of its   *)
(* two: they are updated alike and independently.  The statistics of the   *)
(* machine, which are read and folded like those of the processes, are     *)
(* left out, and so are descendants deeper than children.                  *)
(***************************************************************************)
EXTENDS MetricReader, Integers, Sequences, FiniteSetsExt

CONSTANTS
    Root,          \* the command
    Children,      \* processes it may start
    Sizes,         \* the memory a process may use, all its life
    MaxIo,         \* bound: bytes read by the processes of a run
    MaxRuns,       \* bound: runs of the profiler with this source
    MaxMeasures    \* bound: measure() calls in a run

Processes == Children \cup {Root}

ASSUME ProcessAssumption == Root \notin Children /\ IsFiniteSet(Children)
ASSUME SizesAssumption == Sizes # {} /\ Sizes \subseteq Nat /\ IsFiniteSet(Sizes)
ASSUME ProcfsBoundsAssumption ==
    MaxIo \in Nat /\ MaxRuns \in Nat /\ MaxMeasures \in Nat

VARIABLES
    run,                 \* runs so far
    processes,           \* the live processes: a function to [mem, io]
    detected_processes,  \* the processes to be measured
    counters,            \* of the open phase
    measurement,         \* measurement[a]: what a has read so far, or Idle
    polling_task,        \* state of the polling task
    discovery_task,      \* state of the discovery task
    discovered,          \* what the discovery task has collected
    cancelled,           \* the tasks whose token is cancelled
    joining,             \* the task that join() awaits, or "no"
    boundary,            \* what the last measure() measured
    reported,            \* what the last retrieve() returned, or Nothing
    spent,               \* bytes the processes of this run have read
    reaped               \* children that exited in this run

kernelVars    == <<processes, spent, reaped>>
pollingVars   == polling_task
discoveryVars == <<discovery_task, discovered>>
joinVars      == <<cancelled, joining>>
ghostVars     == <<boundary, reported>>
vars == <<readerVars, run, kernelVars, detected_processes, counters,
          measurement, pollingVars, discoveryVars, joinVars, ghostVars>>

Measurers == {"worker", "poll"}
TaskState == {"none", "waiting", "busy", "ended", "failed"}
Running   == {"started", "open", "closing"}

\* pids are still to be read; gone: some process was not there any more.
Idle == [active |-> FALSE, pids |-> {}, present |-> {}, gone |-> FALSE,
         mem |-> 0, io |-> 0]

\* MinMax before the first update, and all counters at their default.
NoBounds == <<>>
Unmeasured == [mem |-> 0, io |-> 0]
Nothing == [mem |-> NoBounds, begin_read |-> 0, end_read |-> 0]

-----------------------------------------------------------------------------
(* Counters                                                                *)
-----------------------------------------------------------------------------

MinMaxUpdate(bounds, value) ==
    IF bounds = NoBounds THEN <<value, value>>
    ELSE <<Min({bounds[1], value}), Max({bounds[2], value})>>

\* Seeded fault: the end is the last value read, not the highest.
CountersUpdateLast(c, snapshot) ==
    [c EXCEPT !.mem = MinMaxUpdate(@, snapshot.mem), !.end_read = snapshot.io]

CountersUpdate(c, snapshot) ==
    [c EXCEPT !.mem = MinMaxUpdate(@, snapshot.mem),
              !.end_read = Max({@, snapshot.io})]

CountersReset(c) == [c EXCEPT !.mem = NoBounds, !.begin_read = c.end_read]

TypeOK ==
    /\ ReaderTypeOK
    /\ run \in 0 .. MaxRuns
    /\ DOMAIN processes \subseteq Processes
    /\ detected_processes \subseteq Processes
    /\ \A a \in Measurers :
          /\ measurement[a].pids \cup measurement[a].present \subseteq Processes
          /\ ~ measurement[a].active => measurement[a] = Idle
    /\ polling_task \in TaskState /\ discovery_task \in TaskState
    /\ discovered \subseteq Processes
    /\ cancelled \subseteq {"poll", "discovery"}
    /\ joining \in {"no", "poll", "discovery"}
    /\ {counters.begin_read, counters.end_read} \subseteq Nat
    /\ counters.mem # NoBounds => counters.mem[1] <= counters.mem[2]

-----------------------------------------------------------------------------
(* The processes                                                           *)
-----------------------------------------------------------------------------

Reads(p) ==
    /\ p \in DOMAIN processes /\ spent < MaxIo
    /\ processes' = [processes EXCEPT ![p].io = @ + 1]
    /\ spent' = spent + 1 /\ UNCHANGED reaped

Forks(p) ==
    /\ Root \in DOMAIN processes
    /\ p \in Children \ (DOMAIN processes \cup reaped)
    /\ \E size \in Sizes :
          processes' = [q \in DOMAIN processes \cup {p} |->
                          IF q = p THEN [mem |-> size, io |-> 0]
                          ELSE processes[q]]
    /\ UNCHANGED <<spent, reaped>>

\* The I/O of a child that is waited for is added to that of its parent.
Exits(p) ==
    /\ p \in DOMAIN processes
    /\ processes' = [q \in DOMAIN processes \ {p} |->
                       IF q = Root
                       THEN [processes[q] EXCEPT !.io = @ + processes[p].io]
                       ELSE processes[q]]
    /\ reaped' = reaped \cup ({p} \ {Root})
    /\ UNCHANGED spent

Kernel ==
    /\ \E p \in Processes : Reads(p) \/ Forks(p) \/ Exits(p)
    /\ UNCHANGED <<readerVars, run, detected_processes, counters, measurement,
                   pollingVars, discoveryVars, joinVars, ghostVars>>

\* Seeded fault: only the descendants are collected.
CollectChildrenOnly ==
    IF Root \in DOMAIN processes THEN DOMAIN processes \ {Root} ELSE {}

\* collect_children: a process that is gone has no children in /proc.
CollectChildren ==
    {Root} \cup IF Root \in DOMAIN processes THEN DOMAIN processes ELSE {}

-----------------------------------------------------------------------------
(* measure_and_update_pids                                                 *)
-----------------------------------------------------------------------------

CopyPids(a) ==
    measurement' = [measurement EXCEPT ![a] =
                      [Idle EXCEPT !.active = TRUE, !.pids = detected_processes]]

\* A process that is gone, NotFound or Incomplete, counts for nothing.  One whose
\* io file may not be read counts as if it had done none; that is left out.
AddProc(m, p) ==
    IF p \in DOMAIN processes
    THEN [m EXCEPT !.pids    = @ \ {p},
                   !.present = @ \cup {p},
                   !.mem     = @ + processes[p].mem,
                   !.io      = @ + processes[p].io]
    ELSE [m EXCEPT !.pids = @ \ {p}, !.gone = TRUE]

\* read_proc in a blocking task.
ReadProc(a, p) ==
    /\ p \in measurement[a].pids
    /\ measurement' = [measurement EXCEPT ![a] = AddProc(@, p)]
    /\ UNCHANGED <<readerVars, run, kernelVars, detected_processes, counters,
                   pollingVars, discoveryVars, joinVars, ghostVars>>

\* The end of the function: the counters, and the processes still present.
StoreMeasurement(a) ==
    /\ measurement[a].active /\ measurement[a].pids = {}
    /\ counters' = CountersUpdate(counters, measurement[a])
    /\ detected_processes' = IF measurement[a].gone
                             THEN measurement[a].present
                             ELSE detected_processes
    /\ measurement' = [measurement EXCEPT ![a] = Idle]

-----------------------------------------------------------------------------
(* The calls of the profiler                                               *)
-----------------------------------------------------------------------------

WorkerIdle == ~ measurement["worker"].active /\ joining = "no"

\* Reads MemTotal, which is left out.
PreInit ==
    /\ run < MaxRuns
    /\ PreInitCall
    /\ run' = run + 1
    /\ boundary' = Unmeasured /\ reported' = Nothing
    /\ UNCHANGED <<kernelVars, detected_processes, counters, measurement,
                   pollingVars, discoveryVars, joinVars>>

\* The command, just spawned, has read nothing.
InitSource ==
    /\ InitCall
    /\ \E size \in Sizes :
          processes' = [p \in {Root} |-> [mem |-> size, io |-> 0]]
    /\ spent' = 0 /\ reaped' = {}
    /\ detected_processes' = {Root}
    /\ polling_task' = "waiting"
    /\ discovery_task' = "waiting" /\ discovered' = {}
    /\ cancelled' = {}
    /\ UNCHANGED <<run, counters, measurement, joining, ghostVars>>

MeasureBegins ==
    /\ stage \in {"started", "open"} /\ taken < MaxMeasures /\ WorkerIdle
    /\ CopyPids("worker")
    /\ UNCHANGED <<readerVars, run, kernelVars, detected_processes, counters,
                   pollingVars, discoveryVars, joinVars, ghostVars>>

Measure ==
    /\ MeasureCall
    /\ StoreMeasurement("worker")
    /\ boundary' = [mem |-> measurement["worker"].mem,
                    io  |-> measurement["worker"].io]
    /\ UNCHANGED <<run, kernelVars, pollingVars, discoveryVars, joinVars,
                   reported>>

Retrieve ==
    /\ WorkerIdle
    /\ RetrieveCall
    /\ counters' = CountersReset(counters)
    /\ reported' = counters
    /\ UNCHANGED <<run, kernelVars, detected_processes, measurement,
                   pollingVars, discoveryVars, joinVars, boundary>>

\* Seeded fault: join() awaits the polling task without cancelling it.
JoinBeginsUncancelled ==
    /\ stage \in Running /\ WorkerIdle
    /\ joining' = "poll"
    /\ UNCHANGED <<readerVars, run, kernelVars, detected_processes, counters,
                   measurement, pollingVars, discoveryVars, cancelled, ghostVars>>

\* join(): cancel the polling task, await it, then the same with discovery.
JoinBegins ==
    /\ stage \in Running /\ WorkerIdle
    /\ joining' = "poll" /\ cancelled' = cancelled \cup {"poll"}
    /\ UNCHANGED <<readerVars, run, kernelVars, detected_processes, counters,
                   measurement, pollingVars, discoveryVars, ghostVars>>

\* An error of the polling task returns before discovery is cancelled.
PollJoined ==
    /\ joining = "poll"
    /\ \/ /\ polling_task = "ended"
          /\ joining' = "discovery" /\ cancelled' = cancelled \cup {"discovery"}
          /\ UNCHANGED readerVars
       \/ /\ polling_task = "failed"
          /\ Abandon
          /\ joining' = "no" /\ UNCHANGED cancelled
    /\ UNCHANGED <<run, kernelVars, detected_processes, counters, measurement,
                   pollingVars, discoveryVars, ghostVars>>

DiscoveryJoined ==
    /\ joining = "discovery" /\ discovery_task = "ended"
    /\ JoinCall
    /\ joining' = "no"
    /\ UNCHANGED <<run, kernelVars, detected_processes, counters, measurement,
                   pollingVars, discoveryVars, cancelled, ghostVars>>

Returned ==
    /\ GiveBack
    /\ UNCHANGED <<run, kernelVars, detected_processes, counters, measurement,
                   pollingVars, discoveryVars, joinVars, ghostVars>>

\* Also a read that fails in measure().  The tasks are detached and go on.
Dropped ==
    /\ Abandon
    /\ joining' = "no"
    /\ measurement' = [measurement EXCEPT !["worker"] = Idle]
    /\ UNCHANGED <<run, kernelVars, detected_processes, counters, pollingVars,
                   discoveryVars, cancelled, ghostVars>>

-----------------------------------------------------------------------------
(* The two tasks.  select! may take a tick although the token is cancelled.*)
-----------------------------------------------------------------------------

PollTicks ==
    /\ polling_task = "waiting"
    /\ polling_task' = "busy"
    /\ CopyPids("poll")
    /\ UNCHANGED <<readerVars, run, kernelVars, detected_processes, counters,
                   discoveryVars, joinVars, ghostVars>>

PollStores ==
    /\ polling_task = "busy"
    /\ StoreMeasurement("poll")
    /\ polling_task' = "waiting"
    /\ UNCHANGED <<readerVars, run, kernelVars, discoveryVars, joinVars,
                   ghostVars>>

\* A read that fails, other than with NotFound or Incomplete.
PollFails ==
    /\ polling_task = "busy"
    /\ polling_task' = "failed"
    /\ measurement' = [measurement EXCEPT !["poll"] = Idle]
    /\ UNCHANGED <<readerVars, run, kernelVars, detected_processes, counters,
                   discoveryVars, joinVars, ghostVars>>

PollStops ==
    /\ polling_task = "waiting" /\ "poll" \in cancelled
    /\ polling_task' = "ended"
    /\ UNCHANGED <<readerVars, run, kernelVars, detected_processes, counters,
                   measurement, discoveryVars, joinVars, ghostVars>>

DiscoveryCollects ==
    /\ discovery_task = "waiting"
    /\ discovery_task' = "busy" /\ discovered' = CollectChildren
    /\ UNCHANGED <<readerVars, run, kernelVars, detected_processes, counters,
                   measurement, pollingVars, joinVars, ghostVars>>

\* Seeded fault: processes that are not known yet are not added.
DiscoveryStoresKnown ==
    /\ discovery_task = "busy"
    /\ discovery_task' = "waiting" /\ discovered' = {}
    /\ detected_processes' = detected_processes \cap discovered
    /\ UNCHANGED <<readerVars, run, kernelVars, counters, measurement,
                   pollingVars, joinVars, ghostVars>>

DiscoveryStores ==
    /\ discovery_task = "busy"
    /\ discovery_task' = "waiting" /\ discovered' = {}
    /\ detected_processes' = discovered
    /\ UNCHANGED <<readerVars, run, kernelVars, counters, measurement,
                   pollingVars, joinVars, ghostVars>>

DiscoveryStops ==
    /\ discovery_task = "waiting" /\ "discovery" \in cancelled
    /\ discovery_task' = "ended"
    /\ UNCHANGED <<readerVars, run, kernelVars, detected_processes, counters,
                   measurement, pollingVars, discovered, joinVars, ghostVars>>

Init ==
    /\ ReaderInit
    /\ run = 0
    /\ processes = <<>> /\ spent = 0 /\ reaped = {}
    /\ detected_processes = {}
    /\ counters = Nothing
    /\ measurement = [a \in Measurers |-> Idle]
    /\ polling_task = "none" /\ discovery_task = "none" /\ discovered = {}
    /\ cancelled = {} /\ joining = "no"
    /\ boundary = Unmeasured /\ reported = Nothing

ProfilerCalls ==
    \/ PreInit \/ InitSource \/ MeasureBegins \/ Measure \/ Retrieve
    \/ JoinBegins \/ PollJoined \/ DiscoveryJoined \/ Returned \/ Dropped

Tasks ==
    \/ PollTicks \/ PollStores \/ PollFails \/ PollStops
    \/ DiscoveryCollects \/ DiscoveryStores \/ DiscoveryStops

\* No call is left to make: the only states in which the system may rest.
Finished ==
    /\ stage = "dropped" \/ (stage = "idle" /\ run = MaxRuns)
    /\ UNCHANGED vars

(***************************************************************************)
(* Before and after a run there are no tasks, and the processes are seen   *)
(* by nobody.  The tasks of a source that is dropped do go on, detached,   *)
(* but nobody reads what they store: they are not followed.                *)
(***************************************************************************)
Background ==
    /\ stage \in Running
    /\ \/ Kernel
       \/ Tasks
       \/ \E a \in Measurers, p \in Processes : ReadProc(a, p)

Next == ProfilerCalls \/ Background \/ Finished

Spec == Init /\ [][Next]_vars

(***************************************************************************)
(* Fairness.  Tasks are polled, intervals pass, and reads of /proc end.    *)
(* A cancelled token stays ready at every turn of the loop, and select!    *)
(* picks at random among what is ready: it is not ignored for ever.        *)
(***************************************************************************)
FairSpec ==
    /\ Spec
    /\ \A a \in Measurers, p \in Processes : WF_vars(ReadProc(a, p))
    /\ WF_vars(PollStores) /\ SF_vars(PollStops)
    /\ WF_vars(DiscoveryCollects) /\ WF_vars(DiscoveryStores)
    /\ SF_vars(DiscoveryStops)
    /\ WF_vars(PollJoined) /\ WF_vars(DiscoveryJoined)

-----------------------------------------------------------------------------

(***************************************************************************)
(* While the source runs the command is among the processes to be          *)
(* measured for as long as it lives, however measurements that started     *)
(* earlier overwrite what was detected.                                    *)
(***************************************************************************)
RootDetected ==
    stage \in Running /\ Root \in DOMAIN processes =>
        Root \in detected_processes

(***************************************************************************)
(* What is reported of a phase lies between what was measured at the       *)
(* boundary that closes it and what the processes did.  The bounds of the  *)
(* memory hold the value of the boundary: no reset comes between the two,  *)
(* and no poll undoes it.  I/O measured at a boundary belongs to the phase *)
(* before it: a poll that read earlier and stores later does not move it   *)
(* to the next.  No I/O is invented, in a first run, as long as no child   *)
(* exits (its I/O then moves to its parent, and one measurement may read   *)
(* it in both).                                                            *)
(***************************************************************************)
MemoryBoundaryKept ==
    stage = "open" /\ closed > 0 =>
        /\ reported.mem # NoBounds
        /\ boundary.mem \in reported.mem[1] .. reported.mem[2]

IoBoundaryKept ==
    stage = "open" /\ closed > 0 => counters.begin_read >= boundary.io

IoNotInvented == run = 1 /\ reaped = {} => counters.end_read <= spent

PhaseBounded == MemoryBoundaryKept /\ IoBoundaryKept /\ IoNotInvented

(***************************************************************************)
(* A child that goes on living is detected, unless the source stops or the *)
(* command exits first: its children are then no longer its descendants.   *)
(***************************************************************************)
ChildDetected ==
    \A p \in Children :
        p \in DOMAIN processes
            ~> \/ p \in detected_processes
               \/ {p, Root} \cap DOMAIN processes # {p, Root}
               \/ stage \notin Running

(***************************************************************************)
(* join() returns, also when the polling task failed.                      *)
(***************************************************************************)
JoinEnds == joining # "no" ~> joining = "no"

=============================================================================
