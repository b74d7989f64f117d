---------------------------- MODULE CgroupProofs ----------------------------
(***************************************************************************)
(* Proofs about Cgroup, for any levels of the memory and any bounds.  The  *)
(* invariant is built in layers: types, the calls, the causes of errors,   *)
(* the bounds of the memory, and the pairs of the CPU, of I/O and of the   *)
(* timestamps.                                                             *)
(***************************************************************************)
EXTENDS Cgroup, TLAPS

-----------------------------------------------------------------------------
(* Operators                                                               *)
-----------------------------------------------------------------------------

Bounds == {b \in Levels \X Levels : b[1] <= b[2]}

Encloses(bounds, value) ==
    bounds # NoBounds /\ value \in bounds[1] .. bounds[2]

(***************************************************************************)
(* Bounds that are updated enclose the new value and what they enclosed.   *)
(***************************************************************************)
LEMMA MinMaxUpdateEncloses ==
    ASSUME NEW b \in Bounds \cup {NoBounds}, NEW v \in Levels
    PROVE  /\ MinMaxUpdate(b, v) \in Bounds
           /\ Encloses(MinMaxUpdate(b, v), v)
           /\ \A w \in Levels :
                 Encloses(b, w) => Encloses(MinMaxUpdate(b, v), w)
<1>1. Levels \subseteq Nat
  BY LevelsAssumption
<1>2. ASSUME NEW x \in Nat, NEW y \in Nat
      PROVE  /\ Min({x, y}) = IF x <= y THEN x ELSE y
             /\ Max({x, y}) = IF x >= y THEN x ELSE y
  BY DEF Min, Max
<1>3. CASE b = NoBounds
  BY <1>1, <1>3 DEF MinMaxUpdate, Bounds, NoBounds, Encloses
<1>4. CASE b # NoBounds
  <2>1. b[1] \in Levels /\ b[2] \in Levels /\ b[1] <= b[2]
    BY <1>4 DEF Bounds
  <2> DEFINE lo == IF b[1] <= v THEN b[1] ELSE v
             hi == IF b[2] >= v THEN b[2] ELSE v
  <2>2. MinMaxUpdate(b, v) = <<lo, hi>>
    BY <1>1, <1>2, <1>4, <2>1 DEF MinMaxUpdate
  <2>3. v \in Nat /\ b[1] \in Nat /\ b[2] \in Nat
    BY <1>1, <2>1
  <2>4. lo \in Levels /\ hi \in Levels
    BY <2>1
  <2>5. lo <= v /\ v <= hi /\ lo <= b[1] /\ b[2] <= hi
    BY <2>3
  <2>6. lo \in Nat /\ hi \in Nat
    BY <1>1, <2>4
  <2>7. <<lo, hi>> \in Bounds
    BY <2>3, <2>4, <2>5, <2>6 DEF Bounds
  <2>8. \A w \in Levels : w \in b[1] .. b[2] => w \in lo .. hi
    BY <2>3, <2>5, <2>6
  <2> HIDE DEF lo, hi
  <2> QED BY <2>2, <2>3, <2>5, <2>6, <2>7, <2>8 DEF NoBounds, Encloses
<1> QED BY <1>3, <1>4

(***************************************************************************)
(* The reads of measure(), and where in their order the one of a file is.  *)
(***************************************************************************)
Files == {"memory", "cpu", "io"}

Place(scope, file) ==
    (IF scope = "proc" THEN 0 ELSE 3)
      + (IF file = "memory" THEN 1 ELSE IF file = "cpu" THEN 2 ELSE 3)

ScopeOf(r) == Reads[r][1]
FileOf(r)  == Reads[r][2]

(***************************************************************************)
(* Every read of measure() is of one file of one cgroup, and of every file *)
(* there is one read.                                                      *)
(***************************************************************************)
LEMMA ReadsInOrder ==
    /\ Len(Reads) = 6
    /\ \A r \in 1 .. 6 :
          /\ ScopeOf(r) \in Scopes /\ FileOf(r) \in Files
          /\ \A scope \in Scopes, file \in Files :
                r = Place(scope, file) <=> scope = ScopeOf(r) /\ file = FileOf(r)
<1>1. Len(Reads) = 6
  BY DEF Reads
<1>2. /\ ScopeOf(1) = "proc"   /\ FileOf(1) = "memory"
      /\ ScopeOf(2) = "proc"   /\ FileOf(2) = "cpu"
      /\ ScopeOf(3) = "proc"   /\ FileOf(3) = "io"
      /\ ScopeOf(4) = "global" /\ FileOf(4) = "memory"
      /\ ScopeOf(5) = "global" /\ FileOf(5) = "cpu"
      /\ ScopeOf(6) = "global" /\ FileOf(6) = "io"
  BY DEF Reads, ScopeOf, FileOf
<1>3. \A r \in 1 .. 6 : r \in {1, 2, 3, 4, 5, 6}
  OBVIOUS
<1> QED BY <1>1, <1>2, <1>3 DEF Scopes, Files, Place

-----------------------------------------------------------------------------
(* Types                                                                   *)
-----------------------------------------------------------------------------

Hierarchies ==
    [mounted : BOOLEAN, available : SUBSET Controllers, enabled : SUBSET Controllers]

Pairs == Nat \X Nat
Marks == [time : Nat, files : [Scopes -> Snapshots]]

Reports ==
    [memory : [Scopes -> Bounds \cup {NoBounds}],
     cpu    : [Scopes -> Pairs \cup {NoBounds}],
     io     : [Scopes -> Pairs \cup {NoBounds}],
     begin  : Nat, end : Nat]

FilesType == files \in [Scopes -> Snapshots]

CountersType ==
    /\ memory_counters \in [Scopes -> Bounds \cup {NoBounds}]
    /\ cpu_counters \in [Scopes -> Pairs \cup {NoBounds}]
    /\ io_counters \in [Scopes -> Pairs \cup {NoBounds}]

TimesType ==
    /\ run \in 0 .. MaxRuns /\ changes \in 0 .. MaxChanges /\ now \in 0 .. changes
    /\ begin_timestamp \in 0 .. now /\ end_timestamp \in 0 .. now

MarksType == marks \in Seq(Marks) /\ Len(marks) \in 0 .. 2

PollerType ==
    /\ polling_task \in {"none", "read_proc", "store_proc", "read_global",
                         "store_global", "ended", "failed"}
    /\ polled \in Levels \cup {NotRead}
    /\ polling_task \in {"store_proc", "store_global"} => polled \in Levels

HierarchyType ==
    /\ config \in Configs
    /\ hierarchy \in Hierarchies /\ hierarchy.enabled \subseteq hierarchy.available
    /\ cgroup \in [exists : BOOLEAN, populated : BOOLEAN]
    /\ cgroup.populated => cgroup.exists

ErrorsType == error \in Errors /\ poll_error \in Errors

Flags == cancelled \in BOOLEAN /\ joining \in BOOLEAN

TypeInv ==
    /\ ReaderTypeOK /\ HierarchyType /\ FilesType /\ CountersType /\ TimesType
    /\ reading \in 0 .. 6 /\ MarksType
    /\ PollerType /\ ErrorsType /\ Flags
    /\ reported = NoPhase \/ reported \in Reports

(* Init has the types. *)
LEMMA InitType == Init => TypeInv
<1> SUFFICES ASSUME Init PROVE TypeInv
  OBVIOUS
<1> USE DEF Init
<1>1. ReaderTypeOK
  BY DEF ReaderInit, ReaderTypeOK, Stages
<1>2. HierarchyType
  BY DEF HierarchyType, Hierarchies, Configs
<1>3. FilesType
  BY LevelsAssumption DEF FilesType, Snapshots, NoEntry
<1>4. CountersType
  BY DEF CountersType, NoMemory
<1>5. TimesType
  BY CgroupBoundsAssumption DEF TimesType
<1>6. MarksType /\ reading \in 0 .. 6
  BY DEF MarksType
<1>7. PollerType /\ ErrorsType
  BY DEF PollerType, ErrorsType, Errors
<1>8. Flags
  BY DEF Flags
<1> QED BY <1>1, <1>2, <1>3, <1>4, <1>5, <1>6, <1>7, <1>8 DEF TypeInv

(***************************************************************************)
(* What every operation that fails does, and what it leaves alone.         *)
(***************************************************************************)
FailStep ==
    \/ PreInitFails \/ AttachFails \/ TimerFails \/ MeasureFails
    \/ PollJoinFails \/ CleanupFails \/ Dropped

(***************************************************************************)
(* An operation that fails changes nothing but the stage and the error;    *)
(* that the command was moved before it failed is all it may leave.        *)
(***************************************************************************)
LEMMA FailFrame ==
    ASSUME FailStep
    PROVE  /\ Abandon /\ reading' = 0 /\ joining' = FALSE
           /\ UNCHANGED <<config, run, hierarchy, changes, now, files,
                          memory_counters, cpu_counters, io_counters,
                          begin_timestamp, end_timestamp, taskVars, cancelled,
                          ghostVars>>
           /\ \/ cgroup' = cgroup
              \/ /\ config.attach_pid => cgroup.exists
                 /\ cgroup' = [cgroup EXCEPT !.populated = @ \/ config.attach_pid]
  BY DEF FailStep, PreInitFails, AttachFails, TimerFails, MeasureFails,
         PollJoinFails, CleanupFails, Dropped, Fails, RunEnds, kernelVars

(* Every step keeps the types of the Boolean variables. *)
LEMMA NextFlags == ASSUME Flags, [Next]_vars PROVE Flags'
<1> USE DEF Flags, joinVars
<1>1. CASE ProfilerCalls
  BY <1>1, FailFrame, Zenon
     DEF ProfilerCalls, FailStep, PreInit, InitSource, MeasureBegins,
         MeasureReads, Retrieve, JoinBegins, PollJoined, Returned
<1>2. CASE Kernel
  BY <1>2, Zenon DEF Kernel
<1>3. CASE PollingTask
  BY <1>3, Zenon DEF PollingTask, PollReads, PollStores, PollFails, PollStops
<1>4. CASE UNCHANGED vars
  BY <1>4, Zenon DEF vars
<1> QED BY <1>1, <1>2, <1>3, <1>4, Zenon DEF Next, Finished

(***************************************************************************)
(* Reading a file of measure() moves on to the next file; only after the   *)
(* last one has measure() returned.                                        *)
(***************************************************************************)
LEMMA ReadTurn ==
    ASSUME MeasureReads
    PROVE  /\ reading > 0
           /\ IF reading = Len(Reads)
              THEN reading' = 0 /\ MeasureCall
              ELSE reading' = reading + 1 /\ UNCHANGED readerVars
           /\ UNCHANGED <<config, run, kernelVars, begin_timestamp,
                          end_timestamp, taskVars, joinVars, error, reported>>
  BY Zenon DEF MeasureReads

(* Every step keeps the types of the calls. *)
LEMMA NextReader == ASSUME ReaderTypeOK, [Next]_vars PROVE ReaderTypeOK'
<1> USE DEF ReaderTypeOK, Stages, readerVars
<1>1. CASE PreInit
  BY <1>1 DEF PreInit, PreInitCall
<1>2. CASE InitSource
  BY <1>2 DEF InitSource, InitCall
<1>3. CASE MeasureReads
  BY <1>3, ReadTurn DEF MeasureCall
<1>4. CASE Retrieve
  BY <1>4 DEF Retrieve, RetrieveCall
<1>5. CASE PollJoined
  BY <1>5 DEF PollJoined, JoinCall
<1>6. CASE Returned
  BY <1>6 DEF Returned, GiveBack
<1>7. CASE FailStep
  BY <1>7, FailFrame DEF Abandon
<1>8. CASE UNCHANGED readerVars
  BY <1>8
<1> QED
  BY <1>1, <1>2, <1>3, <1>4, <1>5, <1>6, <1>7, <1>8
     DEF Next, ProfilerCalls, FailStep, Finished, vars, Kernel, MeasureBegins,
         JoinBegins, PollingTask, PollReads, PollStores, PollFails, PollStops

(***************************************************************************)
(* Every step keeps the types of the cgroups, and processes only in one    *)
(* that exists.                                                            *)
(***************************************************************************)
LEMMA NextHierarchy == ASSUME HierarchyType, [Next]_vars PROVE HierarchyType'
<1> USE DEF HierarchyType, kernelVars
<1> Hierarchies' = Hierarchies /\ Configs' = Configs
  OBVIOUS
<1>0. /\ [exists |-> FALSE, populated |-> FALSE]
           \in [exists : BOOLEAN, populated : BOOLEAN]
      /\ ~ [exists |-> FALSE, populated |-> FALSE].populated
  OBVIOUS
<1>1. CASE Kernel
  <2>1. UNCHANGED <<config, hierarchy>>
    BY <1>1 DEF Kernel
  <2>2. CASE TimePasses \/ MemoryChanges \/ CommandDoesIo
    BY <2>1, <2>2 DEF TimePasses, MemoryChanges, CommandDoesIo
  <2>3. CASE ProcessesEnter
    BY <2>1, <2>3 DEF ProcessesEnter
  <2>4. CASE ProcessesExit
    BY <2>1, <2>4 DEF ProcessesExit
  <2>5. CASE CgroupRemoved
    BY <1>0, <2>1, <2>5 DEF CgroupRemoved
  <2> QED BY <1>1, <2>2, <2>3, <2>4, <2>5 DEF Kernel
<1>2. CASE PreInit
  BY <1>2 DEF PreInit
<1>3. CASE InitSource
  <2>1. UNCHANGED <<config, hierarchy>>
    BY <1>3 DEF InitSource
  <2>2. /\ cgroup' \in [exists : BOOLEAN, populated : BOOLEAN]
        /\ cgroup'.populated => cgroup'.exists
    BY <1>3 DEF InitSource, Configs
  <2> QED BY <2>1, <2>2
<1>4. CASE PollJoined
  <2>1. UNCHANGED <<config, hierarchy>>
    BY <1>4 DEF PollJoined
  <2>2. \/ cgroup' = [exists |-> FALSE, populated |-> FALSE]
        \/ cgroup' = cgroup
    BY <1>4 DEF PollJoined, Cleanup
  <2> QED BY <1>0, <2>1, <2>2
<1>5. CASE UNCHANGED <<config, hierarchy, cgroup>>
  BY <1>5
<1>6. CASE FailStep
  BY <1>6, FailFrame
<1> QED
  BY <1>1, <1>2, <1>3, <1>4, <1>5, <1>6
     DEF Next, ProfilerCalls, FailStep, Finished, vars, MeasureBegins,
         MeasureReads, Retrieve, Returned, JoinBegins, PollingTask, PollReads,
         PollStores, PollFails, PollStops

(* Every step keeps the types of the files. *)
LEMMA NextFiles == ASSUME FilesType, [Next]_vars PROVE FilesType'
<1> USE DEF FilesType, kernelVars, Scopes
<1> Snapshots' = Snapshots
  OBVIOUS
<1>1. CASE Kernel
  <2>1. CASE TimePasses \/ CommandDoesIo
    BY <2>1 DEF TimePasses, CommandDoesIo, Snapshots
  <2>2. CASE MemoryChanges
    BY <2>2 DEF MemoryChanges, Snapshots
  <2>3. CASE ProcessesEnter \/ ProcessesExit \/ CgroupRemoved
    BY <2>3 DEF ProcessesEnter, ProcessesExit, CgroupRemoved
  <2> QED BY <1>1, <2>1, <2>2, <2>3 DEF Kernel
<1>2. CASE PreInit
  BY <1>2 DEF PreInit, Snapshots, NoEntry
<1>3. CASE FailStep
  BY <1>3, FailFrame
<1>4. CASE UNCHANGED files
  BY <1>4
<1> QED
  BY <1>1, <1>2, <1>3, <1>4
     DEF Next, ProfilerCalls, FailStep, Finished, vars, InitSource,
         MeasureBegins, MeasureReads, Retrieve, PollJoined, Returned,
         JoinBegins, PollingTask, PollReads, PollStores, PollFails, PollStops

(* Every step keeps the bounds, and no timestamp is of the future. *)
LEMMA NextTimes == ASSUME TimesType, [Next]_vars PROVE TimesType'
<1> USE CgroupBoundsAssumption DEF TimesType, kernelVars, counterVars
<1>1. CASE Kernel
  BY <1>1 DEF Kernel, TimePasses, MemoryChanges, CommandDoesIo, ProcessesEnter,
              ProcessesExit, CgroupRemoved
<1>2. CASE PreInit
  BY <1>2 DEF PreInit
<1>3. CASE InitSource
  BY <1>3 DEF InitSource
<1>4. CASE MeasureBegins
  BY <1>4 DEF MeasureBegins
<1>5. CASE Retrieve
  BY <1>5 DEF Retrieve
<1>6. CASE FailStep
  BY <1>6, FailFrame
<1>7. CASE UNCHANGED <<run, changes, now, begin_timestamp, end_timestamp>>
  BY <1>7
<1> QED
  BY <1>1, <1>2, <1>3, <1>4, <1>5, <1>6, <1>7
     DEF Next, ProfilerCalls, FailStep, Finished, vars, MeasureReads, PollJoined,
         Returned, JoinBegins, PollingTask, PollReads, PollStores, PollFails,
         PollStops

(* The polling task stores only what it has read. *)
LEMMA NextPoller == ASSUME PollerType, FilesType, [Next]_vars PROVE PollerType'
<1> USE DEF PollerType, taskVars, Scopes
<1> NotRead' = NotRead
  OBVIOUS
<1>0. ASSUME NEW scope \in Scopes PROVE files[scope].memory \in Levels
  BY DEF FilesType, Snapshots
<1>1. CASE InitSource
  BY <1>1 DEF InitSource
<1>2. CASE PollingTask
  <2>1. CASE PollReads("proc", "read_proc", "store_proc")
    BY <1>0, <2>1 DEF PollReads
  <2>2. CASE PollReads("global", "read_global", "store_global")
    BY <1>0, <2>2 DEF PollReads
  <2>3. CASE PollStores("proc", "store_proc", "read_global")
    BY <2>3 DEF PollStores
  <2>4. CASE PollStores("global", "store_global", "read_proc")
    BY <2>4 DEF PollStores
  <2>5. CASE PollFails("proc", "read_proc") \/ PollFails("global", "read_global")
    BY <2>5 DEF PollFails
  <2>6. CASE PollStops
    BY <2>6, Zenon DEF PollStops
  <2> QED BY <1>2, <2>1, <2>2, <2>3, <2>4, <2>5, <2>6 DEF PollingTask
<1>3. CASE FailStep
  BY <1>3, FailFrame
<1>4. CASE UNCHANGED taskVars
  BY <1>4
<1> QED
  BY <1>1, <1>2, <1>3, <1>4
     DEF Next, ProfilerCalls, FailStep, Finished, vars, Kernel, PreInit,
         MeasureBegins, MeasureReads, Retrieve, PollJoined, Returned, JoinBegins

(* into_controller_error returns an error. *)
LEMMA ControllerErrorType ==
    ASSUME NEW scope, NEW file PROVE ControllerErrors(scope, file) \subseteq Errors
  BY DEF ControllerErrors

(* Every step keeps the types of the errors. *)
LEMMA NextErrors == ASSUME ErrorsType, [Next]_vars PROVE ErrorsType'
<1> USE DEF ErrorsType, taskVars
<1> Errors' = Errors
  OBVIOUS
<1>1. CASE FailStep
  <2>1. UNCHANGED poll_error
    BY <1>1, FailFrame
  <2>2. \E kind \in Errors : error' = kind
    BY <1>1, ControllerErrorType
       DEF FailStep, PreInitFails, AttachFails, TimerFails, MeasureFails,
           PollJoinFails, CleanupFails, Dropped, Fails, RunEnds, Errors
  <2> QED BY <2>1, <2>2
<1>2. CASE InitSource
  BY <1>2 DEF InitSource, Errors
<1>3. CASE PollingTask
  <2>1. error' = error
    BY <1>3 DEF PollingTask, PollReads, PollStores, PollFails, PollStops
  <2>2. poll_error' \in Errors
    BY <1>3, ControllerErrorType
       DEF PollingTask, PollReads, PollStores, PollFails, PollStops
  <2> QED BY <2>1, <2>2
<1>4. CASE UNCHANGED <<error, poll_error>>
  BY <1>4
<1> QED
  BY <1>1, <1>2, <1>3, <1>4
     DEF Next, ProfilerCalls, FailStep, Finished, vars, Kernel, PreInit,
         MeasureBegins, MeasureReads, Retrieve, PollJoined, Returned, JoinBegins

(***************************************************************************)
(* measure() begins: the mark of the measurement before is kept, and the   *)
(* new one holds the files as they are.                                    *)
(***************************************************************************)
NewMark == [time |-> now, files |-> files]

(***************************************************************************)
(* The mark that measure() begins with is the last one, and the one before *)
(* it is kept.                                                             *)
(***************************************************************************)
LEMMA MarkBegins ==
    ASSUME TypeInv, MeasureBegins
    PROVE  /\ marks' \in Seq(Marks)
           /\ Len(marks') = IF marks = <<>> THEN 1 ELSE 2
           /\ marks'[Len(marks')] = NewMark
           /\ marks # <<>> => marks'[1] = marks[Len(marks)]
<1>1. NewMark \in Marks
  BY DEF NewMark, Marks, TypeInv, TimesType, FilesType
<1>2. marks \in Seq(Marks) /\ Len(marks) \in 0 .. 2
  BY DEF TypeInv, MarksType
<1> DEFINE last == IF Len(marks) = 2 THEN Tail(marks) ELSE marks
<1>3. marks' = Append(last, NewMark)
  BY DEF MeasureBegins, NewMark
<1>4. /\ last \in Seq(Marks) /\ Len(last) = IF marks = <<>> THEN 0 ELSE 1
      /\ marks # <<>> => last[1] = marks[Len(marks)]
  <2>1. CASE Len(marks) = 2
    <3>1. marks # <<>> /\ last = Tail(marks)
      BY <1>2, <2>1
    <3>2. Tail(marks) \in Seq(Marks) /\ Len(Tail(marks)) = 1
      BY <1>2, <2>1, <3>1
    <3>3. Tail(marks)[1] = marks[2]
      BY <1>2, <2>1, <3>1
    <3> HIDE DEF last
    <3> QED BY <2>1, <3>1, <3>2, <3>3
  <2>2. CASE Len(marks) = 1
    <3>1. marks # <<>> /\ last = marks
      BY <1>2, <2>2
    <3> QED BY <1>2, <2>2, <3>1
  <2>3. CASE Len(marks) = 0
    <3>1. marks = <<>> /\ last = marks
      BY <1>2, <2>3
    <3> QED BY <1>2, <2>3, <3>1
  <2> QED BY <1>2, <2>1, <2>2, <2>3
<1> HIDE DEF last, NewMark
<1>5. marks' \in Seq(Marks) /\ Len(marks') = Len(last) + 1
  BY <1>1, <1>3, <1>4
<1>6. /\ marks'[Len(last) + 1] = NewMark
      /\ marks # <<>> => marks'[1] = last[1]
  BY <1>1, <1>3, <1>4
<1> QED BY <1>4, <1>5, <1>6

(***************************************************************************)
(* One read of measure(): of the last mark the field that is read, and of  *)
(* the counters the one it is folded into.                                 *)
(***************************************************************************)
Folded(scope, file) ==
    /\ memory_counters' = IF file # "memory" THEN memory_counters
          ELSE [memory_counters EXCEPT ![scope] =
                   MinMaxUpdate(@, files[scope].memory)]
    /\ cpu_counters' = IF file # "cpu" THEN cpu_counters
          ELSE [cpu_counters EXCEPT ![scope] =
                   BeginEndUpdate(@, files[scope].usage)]
    /\ io_counters' = IF file # "io" THEN io_counters
          ELSE [io_counters EXCEPT ![scope] = IoUpdate(@, files[scope].io)]

Marked(scope, file) ==
    marks' = [marks EXCEPT ![Len(marks)].files[scope] =
        CASE file = "memory" -> [@ EXCEPT !.memory = files[scope].memory]
          [] file = "cpu"    -> [@ EXCEPT !.usage = files[scope].usage]
          [] file = "io"     -> [@ EXCEPT !.io = files[scope].io]]

(* measure() reads the file whose turn it is. *)
LEMMA ReadEffect ==
    ASSUME TypeInv, MeasureReads
    PROVE  \E scope \in Scopes, file \in Files :
              /\ reading = Place(scope, file) /\ Readable(scope, file)
              /\ Folded(scope, file) /\ Marked(scope, file)
<1>1. reading \in 1 .. 6
  BY ReadTurn DEF TypeInv
<1> DEFINE scope == Reads[reading][1]
           file  == Reads[reading][2]
<1>2. scope \in Scopes /\ file \in Files /\ reading = Place(scope, file)
  BY <1>1, ReadsInOrder DEF ScopeOf, FileOf
<1>3. Readable(scope, file) /\ Folded(scope, file) /\ Marked(scope, file)
  BY DEF MeasureReads, Folded, Marked
<1> HIDE DEF scope, file
<1> QED BY <1>2, <1>3

(***************************************************************************)
(* What a read changes of the marks.                                       *)
(***************************************************************************)
LEMMA MarkEffect ==
    ASSUME TypeInv, marks # <<>>, NEW scope \in Scopes, NEW file \in Files,
           Marked(scope, file)
    PROVE  /\ marks' \in Seq(Marks) /\ Len(marks') = Len(marks)
           /\ \A i \in 1 .. Len(marks) :
                 /\ marks'[i].time = marks[i].time
                 /\ \A s \in Scopes :
                       LET here == i = Len(marks) /\ s = scope
                           old  == marks[i].files[s]
                           new  == marks'[i].files[s]
                       IN  /\ new.usage  = IF here /\ file = "cpu"
                                           THEN files[s].usage ELSE old.usage
                           /\ new.io     = IF here /\ file = "io"
                                           THEN files[s].io ELSE old.io
                           /\ new.memory = IF here /\ file = "memory"
                                           THEN files[s].memory ELSE old.memory
<1> DEFINE n   == Len(marks)
           m   == marks[n]
           old == m.files[scope]
           new == CASE file = "memory" -> [old EXCEPT !.memory = files[scope].memory]
                    [] file = "cpu"    -> [old EXCEPT !.usage = files[scope].usage]
                    [] file = "io"     -> [old EXCEPT !.io = files[scope].io]
           mark == [m EXCEPT !.files[scope] = new]
<1>1. marks \in Seq(Marks) /\ n \in 1 .. 2 /\ m \in Marks
  BY DEF TypeInv, MarksType
<1>2. m.files \in [Scopes -> Snapshots] /\ old \in Snapshots
  BY <1>1 DEF Marks
<1>3. files[scope] \in Snapshots
  BY DEF TypeInv, FilesType
<1>4. /\ new \in Snapshots
      /\ new.usage  = IF file = "cpu" THEN files[scope].usage ELSE old.usage
      /\ new.io     = IF file = "io" THEN files[scope].io ELSE old.io
      /\ new.memory = IF file = "memory" THEN files[scope].memory ELSE old.memory
  <2>1. CASE file = "memory"
    BY <1>2, <1>3, <2>1 DEF Snapshots
  <2>2. CASE file = "cpu"
    BY <1>2, <1>3, <2>2 DEF Snapshots
  <2>3. CASE file = "io"
    BY <1>2, <1>3, <2>3 DEF Snapshots
  <2> QED BY <2>1, <2>2, <2>3 DEF Files
<1>5. marks' = [marks EXCEPT ![n] = mark]
  BY <1>1 DEF Marked
<1>6. /\ mark \in Marks /\ mark.time = m.time
      /\ \A s \in Scopes : mark.files[s] = IF s = scope THEN new ELSE m.files[s]
  <2> HIDE DEF new, m
  <2> QED BY <1>1, <1>2, <1>4 DEF Marks
<1> HIDE DEF mark, new
<1>7. /\ marks' \in Seq(Marks) /\ Len(marks') = n
      /\ \A i \in 1 .. n : marks'[i] = IF i = n THEN mark ELSE marks[i]
  BY <1>1, <1>5, <1>6
<1> QED BY <1>1, <1>4, <1>6, <1>7

-----------------------------------------------------------------------------
(* The calls                                                               *)
-----------------------------------------------------------------------------

(***************************************************************************)
(* A run has its number and a hierarchy; there are as many marks as its    *)
(* phase has measurements; and a phase that is reported is the last one.   *)
(***************************************************************************)
CallsInv ==
    /\ stage \notin {"idle", "dropped"} => run >= 1
    /\ stage \in {"idle", "ready", "started", "dropped"} => taken = 0 /\ closed = 0
    /\ stage = "open" => taken = closed + 1
    /\ stage = "closing" => taken = closed + 2
    /\ reading > 0 => stage \in {"started", "open"} /\ reported = NoPhase
    /\ stage = "ready" => Len(marks) = 0
    /\ stage = "started" => Len(marks) = IF reading = 0 THEN 0 ELSE 1
    /\ stage = "open" => Len(marks) = IF reading = 0 /\ closed = 0 THEN 1 ELSE 2
    /\ stage = "closing" => Len(marks) = 2
    /\ reported # NoPhase =>
          Len(marks) = 2 /\ stage \notin {"ready", "started", "closing"}

Joining == joining => stage \in Running /\ reading = 0

(* Before the first run nothing is marked, reported or awaited. *)
LEMMA InitCalls == Init => CallsInv /\ Joining
  BY DEF Init, ReaderInit, CallsInv, Joining

(* Marks and reports go along with the calls. *)
LEMMA NextCalls ==
    ASSUME TypeInv, CallsInv, Joining, [Next]_vars PROVE CallsInv'
<1>0. /\ ReaderTypeOK /\ run \in Nat /\ reading \in 0 .. 6 /\ MarksType
      /\ (reported = NoPhase \/ reported \in Reports)
  BY CgroupBoundsAssumption DEF TypeInv, TimesType
<1> USE DEF CallsInv, ReaderTypeOK, Stages, readerVars, counterVars, ghostVars
<1>1. CASE PreInit
  BY <1>0, <1>1 DEF PreInit, PreInitCall
<1>2. CASE InitSource
  BY <1>0, <1>2 DEF InitSource, InitCall
<1>3. CASE MeasureBegins
  <2>1. Len(marks') = IF marks = <<>> THEN 1 ELSE 2
    BY <1>3, MarkBegins
  <2>2. marks = <<>> <=> Len(marks) = 0
    BY <1>0 DEF MarksType
  <2>3. /\ stage \in {"started", "open"} /\ reading = 0 /\ reading' = 1
        /\ reported' = NoPhase
        /\ UNCHANGED <<readerVars, run>>
    BY <1>3 DEF MeasureBegins
  <2> QED BY <1>0, <2>1, <2>2, <2>3
<1>4. CASE MeasureReads
  <2>0. reading \in 1 .. 6 /\ Len(marks) \in 1 .. 2
    BY <1>0, <1>4, ReadTurn
  <2>1. marks # <<>>
    BY <2>0
  <2>2. Len(marks') = Len(marks)
    BY <1>4, <2>1, ReadEffect, MarkEffect
  <2>3. UNCHANGED <<run, reported>>
    BY <1>4 DEF MeasureReads
  <2>4. CASE reading = 6
    <3>1. reading' = 0 /\ MeasureCall
      BY <1>4, <2>4, ReadsInOrder DEF MeasureReads
    <3> QED BY <1>0, <2>0, <2>2, <2>3, <3>1 DEF MeasureCall
  <2>5. CASE reading # 6
    <3>1. reading' = reading + 1 /\ UNCHANGED readerVars
      BY <1>4, <2>5, ReadsInOrder DEF MeasureReads
    <3> QED BY <1>0, <2>0, <2>2, <2>3, <3>1
  <2> QED BY <2>4, <2>5
<1>5. CASE Retrieve
  BY <1>0, <1>5 DEF Retrieve, RetrieveCall, NoPhase
<1>6. CASE PollJoined
  BY <1>0, <1>6 DEF PollJoined, JoinCall, Joining
<1>7. CASE Returned
  BY <1>0, <1>7 DEF Returned, GiveBack
<1>8. CASE FailStep
  BY <1>8, FailFrame DEF Abandon
<1>9. CASE UNCHANGED <<readerVars, run, reading, ghostVars>>
  BY <1>9
<1> QED
  BY <1>1, <1>2, <1>3, <1>4, <1>5, <1>6, <1>7, <1>8, <1>9
     DEF Next, ProfilerCalls, FailStep, Finished, vars, Kernel, JoinBegins,
         PollingTask, PollReads, PollStores, PollFails, PollStops

(* join() is awaited between two calls only. *)
LEMMA NextJoining ==
    ASSUME TypeInv, CallsInv, Joining, [Next]_vars PROVE Joining'
<1> USE DEF Joining, Running, readerVars, counterVars, joinVars
<1>1. CASE PreInit
  BY <1>1 DEF PreInit, PreInitCall
<1>2. CASE InitSource
  BY <1>2 DEF InitSource, InitCall
<1>3. CASE MeasureBegins
  BY <1>3 DEF MeasureBegins
<1>4. CASE MeasureReads
  <2>1. reading # 0 /\ UNCHANGED joinVars
    BY <1>4, ReadTurn
  <2> HIDE DEF TypeInv, CallsInv
  <2> QED BY <2>1
<1>5. CASE Retrieve
  BY <1>5 DEF Retrieve
<1>6. CASE JoinBegins
  BY <1>6 DEF JoinBegins
<1>7. CASE PollJoined
  BY <1>7 DEF PollJoined
<1>8. CASE Returned
  BY <1>8 DEF Returned, GiveBack
<1>9. CASE FailStep
  BY <1>9, FailFrame
<1>10. CASE UNCHANGED <<stage, reading, joining>>
  BY <1>10
<1> QED
  BY <1>1, <1>2, <1>3, <1>4, <1>5, <1>6, <1>7, <1>8, <1>9, <1>10
     DEF Next, ProfilerCalls, FailStep, Finished, vars, Kernel, PollingTask,
         PollReads, PollStores, PollFails, PollStops

(***************************************************************************)
(* The types of what is counted, marked and reported.                      *)
(***************************************************************************)
LEMMA PairTypes ==
    ASSUME NEW c \in Pairs \cup {NoBounds}, NEW v \in Nat
    PROVE  /\ BeginEndUpdate(c, v) \in Pairs
           /\ IoUpdate(c, v) \in Pairs \cup {NoBounds}
           /\ NewPhase(c) \in Pairs \cup {NoBounds}
<1>1. CASE c = NoBounds
  BY <1>1 DEF Pairs, BeginEndUpdate, IoUpdate, NewPhase
<1>2. CASE c # NoBounds
  <2>1. c \in Pairs /\ c[1] \in Nat /\ c[2] \in Nat
    BY <1>2 DEF Pairs
  <2> QED BY <1>2, <2>1 DEF Pairs, BeginEndUpdate, IoUpdate, NewPhase
<1> QED BY <1>1, <1>2

(* Every step keeps the types of the counters. *)
LEMMA NextCounters ==
    ASSUME TypeInv, [Next]_vars PROVE CountersType'
<1> USE DEF CountersType, counterVars
<1> Bounds' = Bounds /\ Pairs' = Pairs /\ Scopes' = Scopes /\ NoBounds' = NoBounds
  OBVIOUS
<1>0. CountersType /\ PollerType
  BY DEF TypeInv
<1>1. CASE MeasureReads
  <2>1. PICK scope \in Scopes, file \in Files : Folded(scope, file)
    BY <1>1, ReadEffect
  <2>2. /\ files[scope].memory \in Levels /\ files[scope].usage \in Nat
        /\ files[scope].io \in Nat
    BY DEF TypeInv, FilesType, Snapshots
  <2>3. MinMaxUpdate(memory_counters[scope], files[scope].memory) \in Bounds
    BY <1>0, <2>2, MinMaxUpdateEncloses
  <2>4. /\ BeginEndUpdate(cpu_counters[scope], files[scope].usage) \in Pairs
        /\ IoUpdate(io_counters[scope], files[scope].io) \in Pairs \cup {NoBounds}
    BY <1>0, <2>2, PairTypes
  <2> QED BY <1>0, <2>1, <2>3, <2>4 DEF Folded
<1>2. CASE Retrieve
  <2>1. /\ Restart(cpu_counters) \in [Scopes -> Pairs \cup {NoBounds}]
        /\ Restart(io_counters) \in [Scopes -> Pairs \cup {NoBounds}]
    BY <1>0, PairTypes DEF Restart
  <2> QED BY <1>2, <2>1 DEF Retrieve, NoMemory
<1>3. CASE PollingTask
  <2>1. CASE PollStores("proc", "store_proc", "read_global")
    <3>1. MinMaxUpdate(memory_counters["proc"], polled) \in Bounds
      BY <1>0, <2>1, MinMaxUpdateEncloses DEF PollStores, PollerType, Scopes
    <3> QED BY <1>0, <2>1, <3>1 DEF PollStores
  <2>2. CASE PollStores("global", "store_global", "read_proc")
    <3>1. MinMaxUpdate(memory_counters["global"], polled) \in Bounds
      BY <1>0, <2>2, MinMaxUpdateEncloses DEF PollStores, PollerType, Scopes
    <3> QED BY <1>0, <2>2, <3>1 DEF PollStores
  <2>3. CASE UNCHANGED <<memory_counters, cpu_counters, io_counters>>
    BY <1>0, <2>3
  <2> QED BY <1>3, <2>1, <2>2, <2>3
          DEF PollingTask, PollReads, PollFails, PollStops
<1>4. CASE FailStep
  BY <1>0, <1>4, FailFrame
<1>5. CASE UNCHANGED <<memory_counters, cpu_counters, io_counters>>
  BY <1>0, <1>5
<1> QED
  BY <1>1, <1>2, <1>3, <1>4, <1>5
     DEF Next, ProfilerCalls, FailStep, Finished, vars, Kernel, PreInit,
         InitSource, MeasureBegins, PollJoined, Returned, JoinBegins

(* Every step keeps the types of the marks. *)
LEMMA NextMarks ==
    ASSUME TypeInv, CallsInv, [Next]_vars PROVE MarksType'
<1> USE DEF MarksType, ghostVars
<1> Marks' = Marks
  OBVIOUS
<1>0. MarksType
  BY DEF TypeInv
<1>1. CASE PreInit
  BY <1>1 DEF PreInit
<1>2. CASE MeasureBegins
  <2>1. marks' \in Seq(Marks) /\ Len(marks') = IF marks = <<>> THEN 1 ELSE 2
    BY <1>2, MarkBegins
  <2> QED BY <2>1
<1>3. CASE MeasureReads
  <2>1. Len(marks) \in 1 .. 2
    BY <1>3, ReadTurn DEF CallsInv, TypeInv
  <2>2. marks # <<>>
    BY <2>1
  <2>3. marks' \in Seq(Marks) /\ Len(marks') = Len(marks)
    BY <1>3, <2>2, ReadEffect, MarkEffect
  <2> QED BY <2>1, <2>3
<1>4. CASE FailStep
  BY <1>0, <1>4, FailFrame
<1>5. CASE UNCHANGED marks
  BY <1>0, <1>5
<1> QED
  BY <1>1, <1>2, <1>3, <1>4, <1>5
     DEF Next, ProfilerCalls, FailStep, Finished, vars, Kernel, InitSource,
         Retrieve, PollJoined, Returned, JoinBegins, PollingTask, PollReads,
         PollStores, PollFails, PollStops

(* Every step keeps the types of the report. *)
LEMMA NextReported ==
    ASSUME TypeInv, [Next]_vars
    PROVE  /\ reading' \in 0 .. 6
           /\ reported' = NoPhase \/ reported' \in Reports
<1> USE DEF counterVars, ghostVars
<1>0. reading \in 0 .. 6 /\ (reported = NoPhase \/ reported \in Reports)
  BY DEF TypeInv
<1>1. CASE PreInit
  BY <1>0, <1>1 DEF PreInit
<1>2. CASE MeasureBegins
  BY <1>0, <1>2 DEF MeasureBegins
<1>3. CASE MeasureReads
  <2>1. reading' = 0 \/ (reading' = reading + 1 /\ reading # 6)
    BY <1>3, ReadsInOrder DEF MeasureReads
  <2> QED BY <1>0, <1>3, <2>1, ReadTurn
<1>4. CASE Retrieve
  <2>1. begin_timestamp \in Nat /\ end_timestamp \in Nat
    BY CgroupBoundsAssumption DEF TypeInv, TimesType
  <2>2. reported' \in Reports
    BY <1>4, <2>1 DEF Retrieve, Reports, TypeInv, CountersType
  <2> QED BY <1>0, <1>4, <2>2 DEF Retrieve
<1>5. CASE FailStep
  BY <1>0, <1>5, FailFrame
<1>6. CASE UNCHANGED <<reading, reported>>
  BY <1>0, <1>6
<1> QED
  BY <1>1, <1>2, <1>3, <1>4, <1>5, <1>6
     DEF Next, ProfilerCalls, FailStep, Finished, vars, Kernel, InitSource,
         PollJoined, Returned, JoinBegins, PollingTask, PollReads,
         PollStores, PollFails, PollStops

(* Every step keeps the types. *)
LEMMA NextType ==
    ASSUME TypeInv, CallsInv, [Next]_vars PROVE TypeInv'
<1>1. ReaderTypeOK' /\ HierarchyType' /\ FilesType'
  BY NextReader, NextHierarchy, NextFiles DEF TypeInv
<1>2. TimesType' /\ PollerType' /\ ErrorsType' /\ Flags'
  BY NextTimes, NextPoller, NextErrors, NextFlags DEF TypeInv
<1> QED BY <1>1, <1>2, NextCounters, NextMarks, NextReported DEF TypeInv

-----------------------------------------------------------------------------
(* The causes of errors                                                    *)
-----------------------------------------------------------------------------

\* What FailureNamesCause says of an error.
NamesCause(kind) ==
    /\ kind = "NotAvailable" => ~ hierarchy.mounted
    /\ kind = "NotFound" => ~ cgroup.exists
    /\ kind = "ControllerNotAvailable" =>
          hierarchy.mounted /\ hierarchy.available # Controllers
    /\ kind = "ControllerNotEnabled" =>
          hierarchy.mounted /\ hierarchy.available # hierarchy.enabled

(***************************************************************************)
(* A file was read because its controller is enabled; an error of the      *)
(* polling task is told before a cgroup can be created again; and nothing  *)
(* happens after an error.                                                 *)
(***************************************************************************)
CauseInv ==
    /\ stage \notin {"idle", "dropped"} => hierarchy.mounted
    /\ reading > 1 => "memory" \in hierarchy.enabled
    /\ reading > 3 => "io" \in hierarchy.enabled
    /\ stage \in {"open", "closing"} => hierarchy.enabled = Controllers
    /\ reported # NoPhase => hierarchy.enabled = Controllers
    /\ error # "none" => stage = "dropped"
    /\ poll_error # "none" /\ stage # "dropped" =>
          polling_task = "failed" /\ stage \in Running
    /\ NamesCause(error)
    /\ stage # "dropped" => NamesCause(poll_error)

(* Whatever a read fails with that names a cause, the cause is there. *)
LEMMA ErrorTold ==
    ASSUME hierarchy.mounted, NEW scope, NEW file,
           NEW kind \in ControllerErrors(scope, file)
    PROVE  NamesCause(kind)
  BY DEF ControllerErrors, Exists, NamesCause

(* Nothing has failed before the first run. *)
LEMMA InitCause == Init => CauseInv
  BY DEF Init, ReaderInit, CauseInv, NamesCause

(* Every error has its cause, and keeps it while it can be told. *)
LEMMA NextCause ==
    ASSUME TypeInv, CallsInv, Joining, CauseInv, [Next]_vars PROVE CauseInv'
<1> USE DEF CauseInv, readerVars, kernelVars, counterVars, taskVars, ghostVars
<1> Running' = Running /\ NoPhase' = NoPhase /\ Controllers' = Controllers
  OBVIOUS
<1>0. HierarchyType /\ reading \in 0 .. 6
  BY DEF TypeInv
<1>1. CASE Kernel
  <2>1. /\ UNCHANGED <<stage, hierarchy, reading, reported, error, poll_error,
                       polling_task>>
        /\ stage # "dropped"
    BY <1>1, Zenon DEF Kernel
  <2>2. ~ cgroup.exists => ~ cgroup'.exists
    BY <1>0, <1>1 DEF Kernel, TimePasses, MemoryChanges, CommandDoesIo,
                      ProcessesEnter, ProcessesExit, CgroupRemoved, HierarchyType
  <2> QED BY <2>1, <2>2 DEF NamesCause
<1>2. CASE PreInit
  <2>1. /\ stage = "idle" /\ stage' = "ready" /\ hierarchy.mounted
        /\ reported' = NoPhase
        /\ UNCHANGED <<hierarchy, reading, error, poll_error, polling_task>>
    BY <1>2 DEF PreInit, PreInitCall
  <2>2. error = "none" /\ poll_error = "none"
    BY <2>1 DEF Running
  <2> QED BY <2>1, <2>2 DEF NamesCause
<1>3. CASE InitSource
  <2>1. /\ stage = "ready" /\ stage' \in {"started", "dropped"}
        /\ poll_error' = "none"
        /\ UNCHANGED <<hierarchy, reading, reported, error>>
    BY <1>3 DEF InitSource, InitCall
  <2>2. error = "none"
    BY <2>1
  <2> QED BY <2>1, <2>2 DEF NamesCause
<1>4. CASE MeasureBegins
  <2>1. /\ reading' = 1 /\ reported' = NoPhase
        /\ UNCHANGED <<stage, hierarchy, cgroup, error, poll_error, polling_task>>
    BY <1>4 DEF MeasureBegins
  <2> QED BY <2>1 DEF NamesCause
<1>5. CASE MeasureReads
  <2>1. PICK scope \in Scopes, file \in Files :
           reading = Place(scope, file) /\ Readable(scope, file)
    BY <1>5, ReadEffect
  <2>2. /\ UNCHANGED <<hierarchy, cgroup, reported, error, poll_error, polling_task>>
        /\ reading > 0 /\ stage \in {"started", "open"}
    BY <1>5 DEF MeasureReads, CallsInv
  <2>3. /\ reading = 1 => "memory" \in hierarchy.enabled
        /\ reading = 3 => "io" \in hierarchy.enabled
    BY <2>1 DEF Place, Readable, Scopes, Files
  <2>4. CASE reading = 6
    <3>1. reading' = 0 /\ MeasureCall
      BY <1>5, <2>4, ReadsInOrder DEF MeasureReads
    <3>2. hierarchy.enabled = Controllers
      BY <1>0, <2>4 DEF Controllers, HierarchyType, Hierarchies
    <3> QED BY <2>2, <3>1, <3>2 DEF MeasureCall, NamesCause, Running
  <2>5. CASE reading # 6
    <3>1. reading' = reading + 1 /\ stage' = stage
      BY <1>5, <2>5, ReadsInOrder DEF MeasureReads
    <3> QED BY <1>0, <2>2, <2>3, <3>1 DEF NamesCause
  <2> QED BY <2>4, <2>5
<1>6. CASE Retrieve
  <2>1. /\ stage = "closing" /\ stage' = "open"
        /\ UNCHANGED <<hierarchy, cgroup, reading, error, poll_error, polling_task>>
    BY <1>6 DEF Retrieve, RetrieveCall
  <2> QED BY <2>1 DEF NamesCause, Running
<1>7. CASE JoinBegins
  BY <1>7 DEF JoinBegins, NamesCause
<1>8. CASE PollJoined
  <2>1. /\ JoinCall /\ polling_task = "ended"
        /\ UNCHANGED <<hierarchy, reading, reported, error, poll_error, polling_task>>
    BY <1>8 DEF PollJoined
  <2>2. error = "none" /\ poll_error = "none"
    BY <2>1 DEF JoinCall
  <2>3. reading = 0
    BY <1>8 DEF PollJoined, Joining
  <2> QED BY <2>1, <2>2, <2>3 DEF JoinCall, NamesCause
<1>9. CASE Returned
  <2>1. /\ stage = "joined" /\ stage' = "idle"
        /\ UNCHANGED <<hierarchy, cgroup, reading, reported, error, poll_error,
                       polling_task>>
    BY <1>9 DEF Returned, GiveBack
  <2> QED BY <2>1 DEF NamesCause, Running
<1>10. CASE FailStep
  <2>1. /\ stage' = "dropped" /\ reading' = 0 /\ cgroup'.exists = cgroup.exists
        /\ UNCHANGED <<hierarchy, reported>>
    BY <1>0, <1>10, FailFrame DEF Abandon, HierarchyType
  <2>2. NamesCause(error')
    <3>1. CASE PreInitFails
      BY <3>1 DEF PreInitFails, Fails, RunEnds, NamesCause
    <3>2. CASE AttachFails \/ TimerFails \/ CleanupFails
      BY <3>2 DEF AttachFails, TimerFails, CleanupFails, Fails, RunEnds, NamesCause
    <3>3. CASE MeasureFails
      <4>1. hierarchy.mounted
        BY <3>3 DEF MeasureFails, CallsInv
      <4>2. \E scope, file : error' \in ControllerErrors(scope, file)
        BY <3>3 DEF MeasureFails, Fails, RunEnds
      <4> QED BY <4>1, <4>2, ErrorTold
    <3>4. CASE PollJoinFails
      BY <3>4 DEF PollJoinFails, Fails, RunEnds, Abandon
    <3>5. CASE Dropped
      BY <3>5 DEF Dropped, Fails, RunEnds, NamesCause
    <3> QED BY <1>10, <3>1, <3>2, <3>3, <3>4, <3>5 DEF FailStep
  <2> QED BY <2>1, <2>2 DEF NamesCause
<1>11. CASE PollingTask
  <2>1. /\ stage \in Running
        /\ UNCHANGED <<stage, hierarchy, cgroup, reading, reported, error>>
    BY <1>11 DEF PollingTask, PollReads, PollStores, PollFails, PollStops
  <2>2. stage # "dropped" /\ hierarchy.mounted
    BY <2>1 DEF Running
  <2>3. CASE PollFails("proc", "read_proc") \/ PollFails("global", "read_global")
    <3>1. polling_task' = "failed"
      BY <2>3 DEF PollFails
    <3>2. NamesCause(poll_error')
      BY <2>2, <2>3, ErrorTold DEF PollFails
    <3> QED BY <2>1, <3>1, <3>2 DEF NamesCause
  <2>4. CASE ~ (PollFails("proc", "read_proc") \/ PollFails("global", "read_global"))
    <3>1. poll_error' = poll_error /\ polling_task # "failed"
      BY <1>11, <2>4 DEF PollingTask, PollReads, PollStores, PollStops
    <3>2. poll_error = "none"
      BY <2>2, <3>1
    <3> QED BY <2>1, <3>1, <3>2 DEF NamesCause
  <2> QED BY <2>3, <2>4
<1>12. CASE UNCHANGED vars
  BY <1>12 DEF vars, NamesCause
<1> QED
  BY <1>1, <1>2, <1>3, <1>4, <1>5, <1>6, <1>7, <1>8, <1>9, <1>10, <1>11, <1>12
     DEF Next, ProfilerCalls, FailStep, Finished

-----------------------------------------------------------------------------
(* The bounds of the memory                                                *)
-----------------------------------------------------------------------------

\* The last measurement has read this file, or it is complete.
Done(scope, file) == reading = 0 \/ reading > Place(scope, file)

MemoryRead(scope) ==
    \/ stage = "closing"
    \/ stage \in {"started", "open"} /\ reading > Place(scope, "memory")

(***************************************************************************)
(* The bounds enclose the value that was read at the boundary.             *)
(***************************************************************************)
MemoryInv ==
    /\ \A scope \in Scopes :
          MemoryRead(scope) =>
              Encloses(memory_counters[scope], marks[Len(marks)].files[scope].memory)
    /\ BoundaryWithinBounds

(* Nothing was read before the first run. *)
LEMMA InitMemory == Init => MemoryInv
  BY DEF Init, ReaderInit, MemoryInv, MemoryRead, BoundaryWithinBounds, Place

(* The types of what a mark tells. *)
LEMMA MarkTypes ==
    ASSUME TypeInv, NEW i \in 1 .. Len(marks), NEW scope \in Scopes
    PROVE  /\ marks[i].time \in Nat
           /\ marks[i].files[scope].usage \in Nat
           /\ marks[i].files[scope].io \in Nat
           /\ marks[i].files[scope].memory \in Levels
<1>1. marks[i] \in Marks
  BY DEF TypeInv, MarksType
<1>2. marks[i].files[scope] \in Snapshots
  BY <1>1 DEF Marks
<1> QED BY <1>1, <1>2 DEF Marks, Snapshots

(* Neither a poll nor a reset undoes what was read at a boundary. *)
LEMMA NextMemory ==
    ASSUME TypeInv, CallsInv, MemoryInv, [Next]_vars PROVE MemoryInv'
<1> USE DEF MemoryInv, MemoryRead, Place, BoundaryWithinBounds, readerVars,
            kernelVars, counterVars, ghostVars
<1>0. MarksType /\ reading \in 0 .. 6 /\ CountersType /\ PollerType
  BY DEF TypeInv
<1>1. CASE PreInit
  BY <1>1 DEF PreInit, PreInitCall
<1>2. CASE InitSource
  <2>1. /\ stage = "ready" /\ stage' \in {"started", "dropped"}
        /\ UNCHANGED <<reading, marks, reported>>
    BY <1>2 DEF InitSource, InitCall
  <2>2. reading = 0 /\ reported = NoPhase
    BY <1>0, <2>1 DEF CallsInv
  <2> QED BY <2>1, <2>2
<1>3. CASE MeasureBegins
  BY <1>3 DEF MeasureBegins
<1>4. CASE MeasureReads
  <2>1. PICK scope \in Scopes, file \in Files :
           /\ reading = Place(scope, file) /\ Folded(scope, file)
           /\ Marked(scope, file)
    BY <1>4, ReadEffect
  <2>2. Len(marks) \in 1 .. 2 /\ reported = NoPhase /\ reading \in 1 .. 6
        /\ stage \in {"started", "open"} /\ reported' = NoPhase
    BY <1>0, <1>4, ReadTurn DEF CallsInv
  <2> DEFINE n == Len(marks)
  <2>3. /\ Len(marks') = n
        /\ \A s \in Scopes :
              marks'[n].files[s].memory =
                 IF s = scope /\ file = "memory" THEN files[s].memory
                 ELSE marks[n].files[s].memory
    <3>1. marks # <<>> /\ n \in 1 .. n
      BY <2>2
    <3> QED BY <2>1, <3>1, MarkEffect
  <2>4. reading' = 0 \/ reading' = reading + 1
    BY <1>4 DEF MeasureReads
  <2>5. reading' = 0 => reading = 6
    BY <1>4, <2>2, ReadsInOrder, ReadTurn
  <2>6. ASSUME NEW s \in Scopes, MemoryRead(s)'
        PROVE  Encloses(memory_counters'[s], marks'[n].files[s].memory)
    <3>1. CASE s = scope /\ file = "memory"
      <4>1. files[s].memory \in Levels
        BY DEF TypeInv, FilesType, Snapshots
      <4> QED BY <1>0, <2>1, <2>3, <3>1, <4>1, MinMaxUpdateEncloses
              DEF Folded, CountersType
    <3>2. CASE ~ (s = scope /\ file = "memory")
      <4>1. memory_counters'[s] = memory_counters[s]
        BY <1>0, <2>1, <3>2 DEF Folded, CountersType
      <4>2. MemoryRead(s)
        <5>1. reading # Place(s, "memory")
          BY <2>1, <3>2 DEF Scopes, Files
        <5> HIDE DEF Place
        <5>2. Place(s, "memory") \in 1 .. 6
          BY DEF Place
        <5>3. reading > Place(s, "memory")
          <6>1. CASE reading' = 0
            BY <2>2, <2>5, <5>1, <5>2, <6>1
          <6>2. CASE reading' = reading + 1
            <7>1. stage' = stage
              BY <1>4, <2>2, <6>2, ReadTurn
            <7> QED BY <2>2, <2>6, <5>1, <5>2, <6>2, <7>1
          <6> QED BY <2>4, <6>1, <6>2
        <5> QED BY <2>2, <5>3
      <4> QED BY <2>3, <3>2, <4>1, <4>2
    <3> QED BY <3>1, <3>2
  <2> QED BY <2>2, <2>3, <2>6
<1>5. CASE Retrieve
  <2>1. /\ stage = "closing" /\ stage' = "open" /\ reading' = 0
        /\ Len(marks) = 2 /\ marks' = marks
        /\ reported'.memory = memory_counters
    BY <1>0, <1>5 DEF Retrieve, RetrieveCall, CallsInv
  <2> QED BY <2>1 DEF Encloses
<1>6. CASE PollJoined
  BY <1>6 DEF PollJoined, JoinCall
<1>7. CASE Returned
  BY <1>7 DEF Returned, GiveBack
<1>8. CASE FailStep
  BY <1>8, FailFrame DEF Abandon
<1>9. CASE PollingTask
  <2>1. UNCHANGED <<stage, reading, marks, reported>>
    BY <1>9 DEF PollingTask, PollReads, PollStores, PollFails, PollStops
  <2>2. ASSUME NEW s \in Scopes, MemoryRead(s)
        PROVE  Encloses(memory_counters'[s], marks[Len(marks)].files[s].memory)
    <3>1. marks[Len(marks)].files[s].memory \in Levels
      <4>1. Len(marks) \in 1 .. 2
        BY <1>0, <2>2 DEF CallsInv
      <4>2. Len(marks) \in 1 .. Len(marks)
        BY <4>1
      <4> QED BY <4>2, MarkTypes
    <3>2. ASSUME NEW t \in Scopes, polled \in Levels,
                 memory_counters' =
                    [memory_counters EXCEPT ![t] = MinMaxUpdate(@, polled)]
          PROVE  Encloses(memory_counters'[s], marks[Len(marks)].files[s].memory)
      BY <1>0, <2>2, <3>1, <3>2, MinMaxUpdateEncloses DEF CountersType
    <3>3. CASE PollStores("proc", "store_proc", "read_global")
      BY <1>0, <3>2, <3>3 DEF PollStores, PollerType, Scopes
    <3>4. CASE PollStores("global", "store_global", "read_proc")
      BY <1>0, <3>2, <3>4 DEF PollStores, PollerType, Scopes
    <3>5. CASE memory_counters' = memory_counters
      BY <2>2, <3>5
    <3> QED BY <1>9, <3>3, <3>4, <3>5
            DEF PollingTask, PollReads, PollFails, PollStops
  <2> QED BY <2>1, <2>2
<1>10. CASE UNCHANGED <<stage, reading, marks, reported, memory_counters>>
  BY <1>10
<1> QED
  BY <1>1, <1>2, <1>3, <1>4, <1>5, <1>6, <1>7, <1>8, <1>9, <1>10
     DEF Next, ProfilerCalls, FailStep, Finished, vars, Kernel, JoinBegins

-----------------------------------------------------------------------------
(* The order of what is read                                               *)
-----------------------------------------------------------------------------

(***************************************************************************)
(* What is counted only grows, from one mark of a run to the next and from *)
(* the last mark to the files.                                             *)
(***************************************************************************)
OrderInv ==
    /\ Len(marks) > 0 =>
          /\ marks[Len(marks)].time <= now
          /\ \A s \in Scopes :
                /\ marks[Len(marks)].files[s].usage <= files[s].usage
                /\ marks[Len(marks)].files[s].io <= files[s].io
    /\ Len(marks) = 2 =>
          /\ marks[1].time <= marks[2].time
          /\ \A s \in Scopes :
                /\ marks[1].files[s].usage <= marks[2].files[s].usage
                /\ marks[1].files[s].io <= marks[2].files[s].io

(* There are no marks before the first run. *)
LEMMA InitOrder == Init => OrderInv
  BY DEF Init, OrderInv

(* During a run time and the counters of the kernel only grow. *)
LEMMA FilesGrow ==
    ASSUME TypeInv, [Next]_vars, ~ PreInit
    PROVE  /\ now <= now'
           /\ \A s \in Scopes : /\ files[s].usage <= files'[s].usage
                                /\ files[s].io <= files'[s].io
<1> USE DEF kernelVars, Scopes
<1>0. /\ now \in Nat /\ files \in [Scopes -> Snapshots]
      /\ \A s \in Scopes : files[s].usage \in Nat /\ files[s].io \in Nat
  BY CgroupBoundsAssumption DEF TypeInv, TimesType, FilesType, Snapshots
<1>1. CASE Kernel
  <2>1. CASE TimePasses
    BY <1>0, <2>1 DEF TimePasses, Snapshots
  <2>2. CASE CommandDoesIo
    BY <1>0, <2>2 DEF CommandDoesIo, Snapshots
  <2>3. CASE MemoryChanges
    BY <1>0, <2>3 DEF MemoryChanges, Snapshots
  <2>4. CASE ProcessesEnter \/ ProcessesExit \/ CgroupRemoved
    BY <1>0, <2>4 DEF ProcessesEnter, ProcessesExit, CgroupRemoved
  <2> QED BY <1>1, <2>1, <2>2, <2>3, <2>4 DEF Kernel
<1>2. CASE FailStep
  BY <1>0, <1>2, FailFrame
<1>3. CASE UNCHANGED <<now, files>>
  BY <1>0, <1>3
<1> QED
  BY <1>1, <1>2, <1>3
     DEF Next, ProfilerCalls, FailStep, Finished, vars, InitSource,
         MeasureBegins, MeasureReads, Retrieve, PollJoined, Returned,
         JoinBegins, PollingTask, PollReads, PollStores, PollFails, PollStops

\* Time and the counters of the kernel are at a mark or beyond it.
Reached(mark) ==
    /\ mark.time <= now
    /\ \A s \in Scopes : /\ mark.files[s].usage <= files[s].usage
                         /\ mark.files[s].io <= files[s].io

(* They stay there. *)
LEMMA StillReached ==
    ASSUME TypeInv, [Next]_vars, ~ PreInit, NEW mark, Reached(mark),
           mark.time \in Nat,
           \A s \in Scopes : mark.files[s].usage \in Nat /\ mark.files[s].io \in Nat
    PROVE  /\ mark.time <= now'
           /\ \A s \in Scopes : /\ mark.files[s].usage <= files'[s].usage
                                /\ mark.files[s].io <= files'[s].io
<1>1. /\ now \in Nat
      /\ \A s \in Scopes : files[s].usage \in Nat /\ files[s].io \in Nat
  BY CgroupBoundsAssumption DEF TypeInv, TimesType, FilesType, Snapshots
<1>2. TimesType' /\ FilesType'
  BY NextTimes, NextFiles DEF TypeInv
<1>3. /\ now' \in Nat
      /\ \A s \in Scopes : files'[s].usage \in Nat /\ files'[s].io \in Nat
  BY <1>2, CgroupBoundsAssumption DEF TimesType, FilesType, Snapshots
<1>4. mark.time <= now'
  BY <1>1, <1>3, FilesGrow DEF Reached
<1>5. ASSUME NEW s \in Scopes
      PROVE  mark.files[s].usage <= files'[s].usage /\ mark.files[s].io <= files'[s].io
  <2>1. /\ files[s].usage <= files'[s].usage /\ files[s].io <= files'[s].io
        /\ mark.files[s].usage <= files[s].usage /\ mark.files[s].io <= files[s].io
    BY FilesGrow DEF Reached
  <2> QED BY <1>1, <1>3, <2>1
<1> QED BY <1>4, <1>5

(***************************************************************************)
(* So do the marks: a file is read after the mark was made, and before it  *)
(* grows on.                                                               *)
(***************************************************************************)
LEMMA NextOrder ==
    ASSUME TypeInv, CallsInv, OrderInv, [Next]_vars PROVE OrderInv'
<1> USE DEF OrderInv, kernelVars, ghostVars
<1> Scopes' = Scopes
  OBVIOUS
<1>0. /\ Len(marks) \in 0 .. 2 /\ now \in Nat
      /\ \A s \in Scopes : files[s].usage \in Nat /\ files[s].io \in Nat
  BY CgroupBoundsAssumption
     DEF TypeInv, TimesType, FilesType, Snapshots, MarksType
<1>1. CASE PreInit
  BY <1>1 DEF PreInit
<1>2. CASE MeasureBegins
  <2>1. /\ Len(marks') = IF marks = <<>> THEN 1 ELSE 2
        /\ marks'[Len(marks')] = NewMark
        /\ marks # <<>> => marks'[1] = marks[Len(marks)]
    BY <1>2, MarkBegins
  <2>2. NewMark.time = now /\ NewMark.files = files
    BY DEF NewMark
  <2>3. now' = now /\ files' = files
    BY <1>2 DEF MeasureBegins
  <2>4. marks # <<>> => Len(marks) > 0
    BY <1>0
  <2> QED BY <1>0, <2>1, <2>2, <2>3, <2>4
<1>3. CASE MeasureReads
  <2>1. PICK scope \in Scopes, file \in Files : Marked(scope, file)
    BY <1>3, ReadEffect
  <2>2. Len(marks) \in 1 .. 2
    BY <1>0, <1>3, ReadTurn DEF CallsInv
  <2>3. marks # <<>>
    BY <2>2
  <2>4. /\ Len(marks') = Len(marks)
        /\ \A i \in 1 .. Len(marks) :
              /\ marks'[i].time = marks[i].time
              /\ \A s \in Scopes :
                    LET here == i = Len(marks) /\ s = scope
                        old  == marks[i].files[s]
                        new  == marks'[i].files[s]
                    IN  /\ new.usage  = IF here /\ file = "cpu"
                                        THEN files[s].usage ELSE old.usage
                        /\ new.io     = IF here /\ file = "io"
                                        THEN files[s].io ELSE old.io
    BY <2>1, <2>3, MarkEffect
  <2>5. now' = now /\ files' = files
    BY <1>3 DEF MeasureReads
  <2>6. \A i \in 1 .. Len(marks), s \in Scopes :
           marks[i].files[s].usage \in Nat /\ marks[i].files[s].io \in Nat
    BY MarkTypes
  <2>7. CASE Len(marks) = 1
    BY <1>0, <2>4, <2>5, <2>7
  <2>8. CASE Len(marks) = 2
    <3>1. /\ marks'[2].time = marks[2].time /\ marks'[1].time = marks[1].time
          /\ Len(marks') = 2
      BY <2>4, <2>8
    <3>2. ASSUME NEW s \in Scopes
          PROVE  /\ marks'[1].files[s].usage = marks[1].files[s].usage
                 /\ marks'[1].files[s].io = marks[1].files[s].io
                 /\ marks'[2].files[s].usage \in
                       {marks[2].files[s].usage, files[s].usage}
                 /\ marks'[2].files[s].io \in
                       {marks[2].files[s].io, files[s].io}
      BY <2>4, <2>8
    <3> QED BY <1>0, <2>5, <2>6, <2>8, <3>1, <3>2
  <2> QED BY <2>2, <2>7, <2>8
<1>4. CASE UNCHANGED marks /\ ~ PreInit
  <2>1. Len(marks) > 0 =>
           /\ marks[Len(marks)].time \in Nat
           /\ \A s \in Scopes : /\ marks[Len(marks)].files[s].usage \in Nat
                                /\ marks[Len(marks)].files[s].io \in Nat
    <3> SUFFICES ASSUME Len(marks) > 0
                 PROVE  /\ marks[Len(marks)].time \in Nat
                        /\ \A s \in Scopes :
                              /\ marks[Len(marks)].files[s].usage \in Nat
                              /\ marks[Len(marks)].files[s].io \in Nat
      OBVIOUS
    <3>1. Len(marks) \in 1 .. Len(marks)
      BY <1>0
    <3> DEFINE n == Len(marks)
    <3> HIDE DEF n
    <3>2. n \in 1 .. Len(marks)
      BY <3>1 DEF n
    <3>3. marks[n].time \in Nat
      BY <3>2, MarkTypes DEF Scopes
    <3>4. \A s \in Scopes : marks[n].files[s].usage \in Nat
                          /\ marks[n].files[s].io \in Nat
      BY <3>2, MarkTypes
    <3> QED BY <3>3, <3>4 DEF n
  <2>2. Len(marks) > 0 => Reached(marks[Len(marks)])
    BY <2>1 DEF Reached
  <2>3. Len(marks) > 0 => Reached(marks[Len(marks)])'
    BY <1>4, <2>1, <2>2, StillReached DEF Reached
  <2> QED BY <1>4, <2>3 DEF Reached
<1>5. FailStep => UNCHANGED marks
  BY FailFrame
<1> QED
  BY <1>1, <1>2, <1>3, <1>4, <1>5
     DEF Next, ProfilerCalls, FailStep, Finished, vars, Kernel, InitSource,
         Retrieve, PollJoined, Returned, JoinBegins, PollingTask, PollReads,
         PollStores, PollFails, PollStops

-----------------------------------------------------------------------------
(* The pairs of the CPU and of I/O                                         *)
-----------------------------------------------------------------------------

\* A file was not read in this run yet.
Fresh(s, file) ==
    stage = "ready" \/ (stage = "started" /\ ~ reading > Place(s, file))

\* It was, and a phase is under way or about to begin.
Active(s, file) ==
    \/ stage \in {"open", "closing"}
    \/ stage = "started" /\ reading > Place(s, file)

\* The marks at which the phase began, and at which the file was last read.
First == IF stage = "open" /\ reading = 0 THEN Len(marks) ELSE 1

Latest(s, file) == IF Done(s, file) THEN Len(marks) ELSE 1

\* The phase under way does not begin before the run.
Own == closed > 0 \/ run = 1

(***************************************************************************)
(* How measure() proceeds from one file to the next.                       *)
(***************************************************************************)
LEMMA Progress ==
    ASSUME TypeInv, CallsInv, MeasureReads, NEW s \in Scopes, NEW file \in Files
    PROVE  /\ Len(marks) \in 1 .. 2 /\ Len(marks') = Len(marks)
           /\ closed' = closed /\ run' = run
           /\ First = 1 /\ First' = 1
           /\ Latest(s, file) \in 1 .. Len(marks)
           /\ reading = Place(s, file) =>
                 /\ ~ Fresh(s, file)' /\ Active(s, file)'
                 /\ Latest(s, file)' = Len(marks)
                 /\ \/ Active(s, file) /\ Len(marks) = 2 /\ Latest(s, file) = 1
                    \/ Fresh(s, file) /\ Len(marks) = 1 /\ closed = 0
           /\ reading # Place(s, file) =>
                 /\ Latest(s, file)' = Latest(s, file)
                 /\ Active(s, file)' <=> Active(s, file)
                 /\ Fresh(s, file)' => Fresh(s, file)
<1>1. /\ reading \in 1 .. 6 /\ stage \in {"started", "open"}
      /\ closed \in Nat /\ Len(marks) = IF stage = "open" THEN 2 ELSE 1
      /\ stage = "started" => closed = 0
  BY ReadTurn DEF CallsInv, TypeInv, ReaderTypeOK
<1>2. marks # <<>>
  BY <1>1
<1>3. Len(marks') = Len(marks)
  BY <1>2, ReadEffect, MarkEffect
<1>4. closed' = closed /\ run' = run
  BY DEF MeasureReads, MeasureCall, readerVars
<1>5. \/ reading = 6 /\ reading' = 0 /\ stage = "open" /\ stage' = "closing"
      \/ reading = 6 /\ reading' = 0 /\ stage = "started" /\ stage' = "open"
      \/ reading # 6 /\ reading' = reading + 1 /\ stage' = stage
  BY ReadsInOrder DEF MeasureReads, MeasureCall, readerVars
<1>6. Place(s, file) \in 1 .. 6
  BY DEF Place
<1>7. First = 1 /\ First' = 1
  BY <1>1, <1>3, <1>5 DEF First
<1> HIDE DEF Place
<1>8. Latest(s, file) \in 1 .. Len(marks)
  BY <1>1 DEF Latest
<1>9. CASE reading = Place(s, file)
  <2>1. ~ Fresh(s, file)' /\ Active(s, file)' /\ Done(s, file)'
    BY <1>1, <1>5, <1>6, <1>9 DEF Fresh, Active, Done
  <2>2. \/ Active(s, file) /\ Len(marks) = 2 /\ Latest(s, file) = 1
        \/ Fresh(s, file) /\ Len(marks) = 1 /\ closed = 0
    BY <1>1, <1>6, <1>9 DEF Fresh, Active, Latest, Done
  <2> QED BY <1>1, <1>3, <1>4, <1>7, <1>8, <1>9, <2>1, <2>2 DEF Latest
<1>10. CASE reading # Place(s, file)
  <2>1. /\ Done(s, file)' <=> Done(s, file)
        /\ Active(s, file)' <=> Active(s, file)
        /\ Fresh(s, file)' => Fresh(s, file)
    BY <1>1, <1>5, <1>6, <1>10 DEF Fresh, Active, Done
  <2> QED BY <1>1, <1>3, <1>4, <1>7, <1>8, <1>10, <2>1 DEF Latest
<1> QED BY <1>9, <1>10

(***************************************************************************)
(* The other calls of a run.                                               *)
(***************************************************************************)
LEMMA BeginProgress ==
    ASSUME TypeInv, CallsInv, MeasureBegins, NEW s \in Scopes, NEW file \in Files
    PROVE  /\ closed' = closed /\ run' = run
           /\ Fresh(s, file)' => Fresh(s, file)
           /\ Active(s, file)' =>
                 /\ Active(s, file) /\ marks # <<>>
                 /\ First = Len(marks) /\ Latest(s, file) = Len(marks)
                 /\ First' = 1 /\ Latest(s, file)' = 1
<1>1. /\ stage \in {"started", "open"} /\ reading = 0 /\ reading' = 1
      /\ UNCHANGED <<readerVars, run>>
  BY DEF MeasureBegins
<1>2. Place(s, file) \in 1 .. 6
  BY DEF Place
<1>3. stage = "open" => Len(marks) \in 1 .. 2
  BY <1>1 DEF CallsInv
<1>4. stage = "open" => marks # <<>>
  BY <1>3
<1> HIDE DEF Place
<1> QED BY <1>1, <1>2, <1>4 DEF Fresh, Active, First, Latest, Done, readerVars

(***************************************************************************)
(* retrieve() makes the mark that closes a phase the one that begins the   *)
(* next.                                                                   *)
(***************************************************************************)
LEMMA RetrieveProgress ==
    ASSUME TypeInv, CallsInv, Retrieve, NEW s \in Scopes, NEW file \in Files
    PROVE  /\ closed' = closed + 1 /\ run' = run /\ run >= 1 /\ marks' = marks
           /\ Len(marks) = 2 /\ ~ Fresh(s, file)' /\ Active(s, file)
           /\ First = 1 /\ Latest(s, file) = 2
           /\ First' = 2 /\ Latest(s, file)' = 2
<1>1. /\ stage = "closing" /\ stage' = "open" /\ closed' = closed + 1
      /\ reading = 0 /\ UNCHANGED <<run, marks, reading>> /\ Len(marks) = 2
  BY DEF Retrieve, RetrieveCall, CallsInv, TypeInv
<1>2. run >= 1
  BY <1>1 DEF CallsInv
<1> QED BY <1>1, <1>2 DEF Fresh, Active, First, Latest, Done

\* What leads out of a run, or into one.
Outside ==
    InitSource \/ PollJoined \/ Returned \/ FailStep

(* Outside of a run no phase is under way. *)
LEMMA OutsideProgress ==
    ASSUME TypeInv, CallsInv, Outside, NEW s \in Scopes, NEW file \in Files
    PROVE  /\ run' = run /\ ~ Active(s, file)'
           /\ Fresh(s, file)' => Fresh(s, file)
           /\ UNCHANGED <<files, cpu_counters, io_counters, config, marks>>
<1> USE DEF kernelVars, counterVars, ghostVars
<1>1. /\ run' = run
      /\ UNCHANGED <<files, cpu_counters, io_counters, config, marks>>
  BY FailFrame DEF Outside, InitSource, PollJoined, Returned
<1>2. Place(s, file) \in 1 .. 6
  BY DEF Place
<1>3. ~ Active(s, file)' /\ (Fresh(s, file)' => Fresh(s, file))
  <2>1. CASE InitSource
    <3>1. stage = "ready" /\ stage' \in {"started", "dropped"} /\ reading' = reading
      BY <2>1 DEF InitSource, InitCall
    <3>2. reading = 0
      BY <3>1 DEF CallsInv, TypeInv
    <3> HIDE DEF Place
    <3> QED BY <1>2, <3>1, <3>2 DEF Fresh, Active
  <2>2. CASE PollJoined \/ Returned \/ FailStep
    <3>1. stage' \in {"joined", "idle", "dropped"}
      BY <2>2, FailFrame DEF PollJoined, Returned, JoinCall, GiveBack, Abandon
    <3> QED BY <3>1 DEF Fresh, Active
  <2> QED BY <2>1, <2>2 DEF Outside
<1> QED BY <1>1, <1>3

\* What happens besides.
Besides ==
    \/ Kernel \/ JoinBegins \/ PollingTask \/ UNCHANGED vars

(* What happens besides leaves the phase alone. *)
LEMMA BesidesProgress ==
    ASSUME Besides
    PROVE  /\ UNCHANGED <<stage, closed, run, reading, marks, config, reported,
                          cpu_counters, io_counters, begin_timestamp,
                          end_timestamp>>
           /\ \A s \in Scopes, file \in Files :
                 /\ UNCHANGED <<First, Latest(s, file)>>
                 /\ Active(s, file)' <=> Active(s, file)
                 /\ Fresh(s, file)' => Fresh(s, file)
<1>1. UNCHANGED <<stage, closed, run, reading, marks, config, reported,
                  cpu_counters, io_counters, begin_timestamp, end_timestamp>>
  BY Zenon
     DEF Besides, Kernel, JoinBegins, PollingTask, PollReads, PollStores,
         PollFails, PollStops, vars, readerVars, counterVars, ghostVars
<1>2. ASSUME NEW s \in Scopes, NEW file \in Files
      PROVE  /\ UNCHANGED <<First, Latest(s, file)>>
             /\ Active(s, file)' <=> Active(s, file)
             /\ Fresh(s, file)' => Fresh(s, file)
  BY <1>1 DEF First, Latest, Done, Active, Fresh
<1> QED BY <1>1, <1>2

(* There are no other steps. *)
LEMMA Steps ==
    ASSUME [Next]_vars
    PROVE  \/ PreInit \/ MeasureBegins \/ MeasureReads \/ Retrieve
           \/ Outside \/ Besides
  BY DEF Next, ProfilerCalls, Finished, Outside, FailStep, Besides

(***************************************************************************)
(* A read of measure() seen from one cgroup: its own file is folded into   *)
(* the counter and told by the last mark, the other files are let alone.   *)
(***************************************************************************)
Usage(i, s) == marks[i].files[s].usage
Io(i, s)    == marks[i].files[s].io

(* One read, and one cgroup. *)
LEMMA ReadOfScope ==
    ASSUME TypeInv, CallsInv, MeasureReads, NEW s \in Scopes
    PROVE  /\ reading = Place(s, "cpu") =>
                 /\ cpu_counters'[s] =
                       BeginEndUpdate(cpu_counters[s], files[s].usage)
                 /\ marks'[Len(marks)].files[s].usage = files[s].usage
           /\ reading # Place(s, "cpu") => cpu_counters'[s] = cpu_counters[s]
           /\ \A i \in 1 .. Len(marks) :
                 reading # Place(s, "cpu") \/ i # Len(marks) =>
                    marks'[i].files[s].usage = Usage(i, s)
           /\ reading = Place(s, "io") =>
                 /\ io_counters'[s] = IoUpdate(io_counters[s], files[s].io)
                 /\ marks'[Len(marks)].files[s].io = files[s].io
           /\ reading # Place(s, "io") => io_counters'[s] = io_counters[s]
           /\ \A i \in 1 .. Len(marks) :
                 reading # Place(s, "io") \/ i # Len(marks) =>
                    marks'[i].files[s].io = Io(i, s)
<1>1. Len(marks) \in 1 .. 2 /\ reading \in 1 .. 6
  BY ReadTurn DEF CallsInv, TypeInv
<1>2. marks # <<>>
  BY <1>1
<1>3. PICK scope \in Scopes, file \in Files :
         /\ reading = Place(scope, file) /\ Folded(scope, file)
         /\ Marked(scope, file)
  BY ReadEffect
<1>4. /\ Len(marks') = Len(marks)
      /\ \A i \in 1 .. Len(marks) :
            LET here == i = Len(marks) /\ s = scope
            IN  /\ marks'[i].files[s].usage =
                      IF here /\ file = "cpu" THEN files[s].usage
                      ELSE marks[i].files[s].usage
                /\ marks'[i].files[s].io =
                      IF here /\ file = "io" THEN files[s].io
                      ELSE marks[i].files[s].io
  BY <1>2, <1>3, MarkEffect
<1>5. /\ reading = Place(s, "cpu") <=> s = scope /\ file = "cpu"
      /\ reading = Place(s, "io") <=> s = scope /\ file = "io"
  BY <1>1, <1>3, ReadsInOrder DEF Files
<1>6. /\ cpu_counters'[s] = IF s = scope /\ file = "cpu"
                            THEN BeginEndUpdate(cpu_counters[s], files[s].usage)
                            ELSE cpu_counters[s]
      /\ io_counters'[s] = IF s = scope /\ file = "io"
                           THEN IoUpdate(io_counters[s], files[s].io)
                           ELSE io_counters[s]
  BY <1>3 DEF Folded, TypeInv, CountersType
<1> HIDE DEF Place
<1> QED BY <1>1, <1>4, <1>5, <1>6 DEF Usage, Io

(***************************************************************************)
(* The pair of the CPU: before the first measurement of the first run it   *)
(* is empty; then it ends with the value last read, and begins with the    *)
(* value read where the phase began, unless the phase began before the run.*)
(***************************************************************************)
CpuOf(s) ==
    LET c == cpu_counters[s]
    IN  /\ run = 0 \/ (run = 1 /\ Fresh(s, "cpu")) => c = NoBounds
        /\ Active(s, "cpu") =>
              /\ c # NoBounds /\ c[2] = Usage(Latest(s, "cpu"), s)
              /\ Own => c[1] = Usage(First, s)

CpuInv == \A s \in Scopes : CpuOf(s)

(***************************************************************************)
(* The pair of I/O.  Its file may have had no entry yet: then it is empty, *)
(* if the counters of the cgroup are known since they began (the first run,*)
(* or a cgroup that was there before), or else of no width.                *)
(***************************************************************************)
Known == run <= 1 \/ ~ config.create_cgroup

IoOf(s) ==
    LET c      == io_counters[s]
        first  == Io(First, s)
        latest == Io(Latest(s, "io"), s)
    IN  /\ run = 0 \/ (run = 1 /\ Fresh(s, "io")) => c = NoBounds
        /\ Known /\ c # NoBounds => c[2] \in 1 .. files[s].io
        /\ Active(s, "io") =>
              /\ latest # NoEntry => c # NoBounds /\ c[2] = latest
              /\ Own /\ first # NoEntry => c # NoBounds /\ c[1] = first
              /\ Own /\ latest = NoEntry => c = NoBounds \/ c[1] = c[2]
              /\ Own /\ Known /\ first = NoEntry => c = NoBounds \/ c[1] = c[2]
              /\ Known /\ latest = NoEntry => c = NoBounds

IoInv == \A s \in Scopes : IoOf(s)

(***************************************************************************)
(* The timestamps are those of the marks.                                  *)
(***************************************************************************)
StampInv ==
    /\ stage \in {"open", "closing"} \/ reading > 0 =>
          end_timestamp = marks[Len(marks)].time
    /\ closed > 0 /\ stage \in {"open", "closing"} =>
          begin_timestamp = marks[First].time

\* The inductive invariant.
IInv ==
    /\ TypeInv /\ CallsInv /\ Joining /\ CauseInv /\ MemoryInv
    /\ OrderInv /\ CpuInv /\ IoInv /\ StampInv /\ PhaseExact

(* Before the first run the pairs are empty. *)
LEMMA InitPairs == Init => CpuInv /\ IoInv /\ StampInv
  BY DEF Init, ReaderInit, CpuInv, CpuOf, IoInv, IoOf, StampInv, Active, Scopes

(* Every step keeps the pair of the CPU. *)
LEMMA NextCpu ==
    ASSUME TypeInv, CallsInv, NEW s \in Scopes, CpuOf(s), [Next]_vars
    PROVE  CpuOf(s)'
<1> DEFINE c == cpu_counters[s]
<1> USE DEF CpuOf, Usage
<1>0. /\ run \in Nat /\ closed \in Nat /\ "cpu" \in Files
      /\ c = NoBounds \/ c \in Pairs
  BY CgroupBoundsAssumption
     DEF TypeInv, TimesType, ReaderTypeOK, Files, CountersType
<1>1. CASE PreInit
  <2>1. run' = run + 1 /\ stage' = "ready" /\ c' = c
    BY <1>1 DEF PreInit, PreInitCall, counterVars
  <2> QED BY <1>0, <2>1 DEF Active
<1>2. CASE MeasureBegins
  <2>1. /\ closed' = closed /\ run' = run
        /\ Fresh(s, "cpu")' => Fresh(s, "cpu")
        /\ Active(s, "cpu")' =>
              /\ Active(s, "cpu") /\ marks # <<>>
              /\ First = Len(marks) /\ Latest(s, "cpu") = Len(marks)
              /\ First' = 1 /\ Latest(s, "cpu")' = 1
    BY <1>0, <1>2, BeginProgress
  <2>2. c' = c
    BY <1>2 DEF MeasureBegins
  <2>3. marks # <<>> => marks'[1] = marks[Len(marks)]
    BY <1>2, MarkBegins
  <2>4. Own' <=> Own
    BY <2>1 DEF Own
  <2>5. Active(s, "cpu")' =>
           /\ marks'[Latest(s, "cpu")'] = marks[Latest(s, "cpu")]
           /\ marks'[First'] = marks[First]
    BY <2>1, <2>3
  <2> HIDE DEF c
  <2> QED BY <2>1, <2>2, <2>4, <2>5 DEF c
<1>3. CASE MeasureReads
  <2>1. /\ Len(marks) \in 1 .. 2 /\ closed' = closed /\ run' = run
        /\ First = 1 /\ First' = 1 /\ Latest(s, "cpu") \in 1 .. Len(marks)
    BY <1>0, <1>3, Progress
  <2>2. Own' <=> Own
    BY <2>1 DEF Own
  <2>3. CASE reading = Place(s, "cpu")
    <3>1. /\ ~ Fresh(s, "cpu")' /\ Latest(s, "cpu")' = Len(marks)
          /\ \/ Active(s, "cpu") /\ Len(marks) = 2 /\ Latest(s, "cpu") = 1
             \/ Fresh(s, "cpu") /\ Len(marks) = 1 /\ closed = 0
      BY <1>0, <1>3, <2>3, Progress
    <3>2. /\ c' = BeginEndUpdate(c, files[s].usage)
          /\ marks'[Len(marks)].files[s].usage = files[s].usage
      BY <1>3, <2>1, <2>3, ReadOfScope
    <3>3. files[s].usage \in Nat
      BY DEF TypeInv, FilesType, Snapshots
    <3>4. c' # NoBounds /\ c'[2] = marks'[Latest(s, "cpu")'].files[s].usage
      BY <1>0, <3>1, <3>2, <3>3 DEF BeginEndUpdate, NoBounds
    <3>5. run' # 0
      BY <1>3, <2>1, ReadTurn DEF CallsInv
    <3>6. ASSUME Own PROVE c'[1] = marks'[1].files[s].usage
      <4>1. CASE Active(s, "cpu") /\ Len(marks) = 2
        <5>1. marks'[1].files[s].usage = marks[1].files[s].usage
          BY <1>3, <4>1, ReadOfScope
        <5> QED BY <2>1, <3>2, <3>6, <4>1, <5>1 DEF BeginEndUpdate
      <4>2. CASE Fresh(s, "cpu") /\ Len(marks) = 1 /\ closed = 0
        BY <3>2, <3>6, <4>2 DEF BeginEndUpdate, Own
      <4> QED BY <3>1, <4>1, <4>2
    <3> HIDE DEF c
    <3> QED BY <2>1, <2>2, <3>1, <3>4, <3>5, <3>6 DEF c
  <2>4. CASE reading # Place(s, "cpu")
    <3>1. /\ Latest(s, "cpu")' = Latest(s, "cpu")
          /\ Active(s, "cpu")' <=> Active(s, "cpu")
          /\ Fresh(s, "cpu")' => Fresh(s, "cpu")
      BY <1>0, <1>3, <2>4, Progress
    <3>2. /\ c' = c
          /\ \A i \in 1 .. Len(marks) :
                marks'[i].files[s].usage = marks[i].files[s].usage
      BY <1>3, <2>4, ReadOfScope
    <3> HIDE DEF c
    <3>3. /\ marks'[First'].files[s].usage = marks[First].files[s].usage
          /\ marks'[Latest(s, "cpu")'].files[s].usage =
                marks[Latest(s, "cpu")].files[s].usage
      BY <2>1, <3>1, <3>2
    <3> QED BY <2>1, <2>2, <3>1, <3>2, <3>3 DEF c
  <2> QED BY <2>3, <2>4
<1>4. CASE Retrieve
  <2>1. /\ closed' = closed + 1 /\ run' = run /\ run >= 1 /\ marks' = marks
        /\ ~ Fresh(s, "cpu")' /\ Active(s, "cpu")
        /\ Latest(s, "cpu") = 2 /\ First' = 2 /\ Latest(s, "cpu")' = 2
    BY <1>0, <1>4, RetrieveProgress
  <2>2. c' = NewPhase(c)
    BY <1>4 DEF Retrieve, Restart
  <2>3. c' = <<c[2], c[2]>>
    BY <2>1, <2>2 DEF NewPhase
  <2> HIDE DEF c
  <2>4. c' # NoBounds /\ c'[1] = c[2] /\ c'[2] = c[2]
    BY <2>3 DEF NoBounds
  <2> QED BY <1>0, <2>1, <2>4 DEF c
<1>5. CASE Outside
  <2>1. /\ run' = run /\ ~ Active(s, "cpu")' /\ c' = c
        /\ Fresh(s, "cpu")' => Fresh(s, "cpu")
    BY <1>0, <1>5, OutsideProgress
  <2> HIDE DEF c
  <2> QED BY <2>1 DEF c
<1>6. CASE Besides
  <2>1. /\ UNCHANGED <<closed, run, marks, c>>
        /\ UNCHANGED <<First, Latest(s, "cpu")>>
        /\ Active(s, "cpu")' <=> Active(s, "cpu")
        /\ Fresh(s, "cpu")' => Fresh(s, "cpu")
    BY <1>0, <1>6, BesidesProgress
  <2>2. Own' <=> Own
    BY <2>1 DEF Own
  <2> HIDE DEF c
  <2> QED BY <2>1, <2>2 DEF c
<1> QED BY <1>1, <1>2, <1>3, <1>4, <1>5, <1>6, Steps

(***************************************************************************)
(* What IoOf says of the pair of an active file, in terms of values, and   *)
(* that a read which is folded into it keeps it so.                        *)
(***************************************************************************)
IoPair(c, own, known, first, latest) ==
    /\ latest # NoEntry => c # NoBounds /\ c[2] = latest
    /\ own /\ first # NoEntry => c # NoBounds /\ c[1] = first
    /\ own /\ latest = NoEntry => c = NoBounds \/ c[1] = c[2]
    /\ own /\ known /\ first = NoEntry => c = NoBounds \/ c[1] = c[2]
    /\ known /\ latest = NoEntry => c = NoBounds

(* A read that is folded keeps the pair. *)
LEMMA IoPairFolds ==
    ASSUME NEW c \in Pairs \cup {NoBounds}, NEW own \in BOOLEAN,
           NEW known \in BOOLEAN, NEW first \in Nat, NEW v \in Nat, first <= v,
           IoPair(c, own, known, first, first)
    PROVE  IoPair(IoUpdate(c, v), own, known, first, v)
<1>1. CASE v = NoEntry
  <2>1. first = NoEntry
    BY <1>1 DEF NoEntry
  <2> QED BY <1>1, <2>1 DEF IoPair, IoUpdate
<1>2. CASE v # NoEntry /\ c = NoBounds
  BY <1>2 DEF IoPair, IoUpdate, BeginEndUpdate, NoBounds
<1>3. CASE v # NoEntry /\ c # NoBounds
  BY <1>3 DEF IoPair, IoUpdate, BeginEndUpdate, NoBounds
<1> QED BY <1>1, <1>2, <1>3

(* Every step keeps the pair of I/O. *)
LEMMA NextIo ==
    ASSUME TypeInv, CallsInv, OrderInv, NEW s \in Scopes, IoOf(s), [Next]_vars
    PROVE  IoOf(s)'
<1> DEFINE c == io_counters[s]
<1> USE DEF IoOf, Io
<1>0. /\ run \in Nat /\ closed \in Nat /\ "io" \in Files
      /\ c \in Pairs \cup {NoBounds} /\ files[s].io \in Nat
  BY CgroupBoundsAssumption
     DEF TypeInv, TimesType, ReaderTypeOK, Files, CountersType, FilesType, Snapshots
<1>1. CASE PreInit
  <2>1. run' = run + 1 /\ stage' = "ready" /\ c' = c /\ config' = config
    BY <1>1 DEF PreInit, PreInitCall, counterVars
  <2>2. ~ config.create_cgroup => files' = files
    BY <1>1 DEF PreInit
  <2> QED BY <1>0, <2>1, <2>2 DEF Active, Known
<1>2. CASE MeasureBegins
  <2>1. /\ closed' = closed /\ run' = run
        /\ Fresh(s, "io")' => Fresh(s, "io")
        /\ Active(s, "io")' =>
              /\ Active(s, "io") /\ marks # <<>>
              /\ First = Len(marks) /\ Latest(s, "io") = Len(marks)
              /\ First' = 1 /\ Latest(s, "io")' = 1
    BY <1>0, <1>2, BeginProgress
  <2>2. c' = c /\ files' = files /\ config' = config
    BY <1>2 DEF MeasureBegins, kernelVars
  <2>3. marks # <<>> => marks'[1] = marks[Len(marks)]
    BY <1>2, MarkBegins
  <2>4. (Own' <=> Own) /\ (Known' <=> Known)
    BY <2>1, <2>2 DEF Own, Known
  <2>5. Active(s, "io")' =>
           /\ marks'[Latest(s, "io")'] = marks[Latest(s, "io")]
           /\ marks'[First'] = marks[First]
    BY <2>1, <2>3
  <2> HIDE DEF c
  <2> QED BY <2>1, <2>2, <2>4, <2>5 DEF c
<1>3. CASE MeasureReads
  <2>1. /\ Len(marks) \in 1 .. 2 /\ closed' = closed /\ run' = run
        /\ First = 1 /\ First' = 1 /\ Latest(s, "io") \in 1 .. Len(marks)
    BY <1>0, <1>3, Progress
  <2>2. files' = files /\ config' = config
    BY <1>3 DEF MeasureReads, kernelVars
  <2>3. (Own' <=> Own) /\ (Known' <=> Known)
    BY <2>1, <2>2 DEF Own, Known
  <2>4. CASE reading = Place(s, "io")
    <3> DEFINE v == files[s].io
    <3>1. /\ ~ Fresh(s, "io")' /\ Latest(s, "io")' = Len(marks)
          /\ \/ Active(s, "io") /\ Len(marks) = 2 /\ Latest(s, "io") = 1
             \/ Fresh(s, "io") /\ Len(marks) = 1 /\ closed = 0
      BY <1>0, <1>3, <2>4, Progress
    <3>2. c' = IoUpdate(c, v) /\ marks'[Len(marks)].files[s].io = v
      BY <1>3, <2>1, <2>4, ReadOfScope
    <3>3. run' # 0
      BY <1>3, <2>1, ReadTurn DEF CallsInv
    <3>4. Known => c' = NoBounds \/ c'[2] \in 1 .. v
      BY <1>0, <3>2 DEF IoUpdate, BeginEndUpdate, NoEntry, NoBounds
    <3>5. IoPair(c', Own, Known, marks'[1].files[s].io, v)
      <4>1. CASE Active(s, "io") /\ Len(marks) = 2
        <5> DEFINE first == marks[1].files[s].io
        <5>1. marks'[1].files[s].io = first
          BY <1>3, <4>1, ReadOfScope
        <5>2. first \in Nat /\ marks[2].files[s].io \in Nat
          BY <4>1, MarkTypes
        <5>3. first <= v
          BY <1>0, <4>1, <5>2 DEF OrderInv
        <5>4. IoPair(c, Own, Known, first, first)
          BY <2>1, <3>1, <4>1 DEF IoPair
        <5>5. Own \in BOOLEAN /\ Known \in BOOLEAN
          BY DEF Own, Known
        <5> HIDE DEF c, v, first
        <5>6. c \in Pairs \cup {NoBounds} /\ v \in Nat
          BY <1>0 DEF v, c
        <5>7. IoPair(IoUpdate(c, v), Own, Known, first, v)
          BY <5>2, <5>3, <5>4, <5>5, <5>6, IoPairFolds
        <5> QED BY <3>2, <5>1, <5>7
      <4>2. CASE Fresh(s, "io") /\ Len(marks) = 1 /\ closed = 0
        <5>1. marks'[1].files[s].io = v
          BY <3>2, <4>2
        <5>2. Own \/ (Known /\ v = NoEntry) => c = NoBounds
          BY <1>0, <4>2 DEF Own, NoEntry
        <5> QED BY <1>0, <3>2, <5>1, <5>2
                DEF IoPair, IoUpdate, BeginEndUpdate, NoBounds
      <4> QED BY <3>1, <4>1, <4>2
    <3>6. Io(First, s)' = marks'[1].files[s].io /\ Io(Latest(s, "io"), s)' = v
      BY <2>1, <3>1, <3>2
    <3> HIDE DEF c
    <3> QED BY <2>1, <2>2, <2>3, <3>1, <3>3, <3>4, <3>5, <3>6 DEF c, IoPair
  <2>5. CASE reading # Place(s, "io")
    <3>1. /\ Latest(s, "io")' = Latest(s, "io")
          /\ Active(s, "io")' <=> Active(s, "io")
          /\ Fresh(s, "io")' => Fresh(s, "io")
      BY <1>0, <1>3, <2>5, Progress
    <3>2. /\ c' = c
          /\ \A i \in 1 .. Len(marks) :
                marks'[i].files[s].io = marks[i].files[s].io
      BY <1>3, <2>5, ReadOfScope
    <3> HIDE DEF c
    <3>3. /\ marks'[First'].files[s].io = marks[First].files[s].io
          /\ marks'[Latest(s, "io")'].files[s].io =
                marks[Latest(s, "io")].files[s].io
      BY <2>1, <3>1, <3>2
    <3> QED BY <2>1, <2>2, <2>3, <3>1, <3>2, <3>3 DEF c
  <2> QED BY <2>4, <2>5
<1>4. CASE Retrieve
  <2>1. /\ closed' = closed + 1 /\ run' = run /\ run >= 1 /\ marks' = marks
        /\ ~ Fresh(s, "io")' /\ Active(s, "io")
        /\ Latest(s, "io") = 2 /\ First' = 2 /\ Latest(s, "io")' = 2
    BY <1>0, <1>4, RetrieveProgress
  <2>2. c' = NewPhase(c) /\ files' = files /\ config' = config
    BY <1>4 DEF Retrieve, Restart, kernelVars
  <2>3. Known' <=> Known
    BY <2>1, <2>2 DEF Known
  <2>4. CASE c = NoBounds
    <3>1. c' = NoBounds
      BY <2>2, <2>4 DEF NewPhase
    <3> HIDE DEF c
    <3> QED BY <1>0, <2>1, <2>2, <2>3, <2>4, <3>1 DEF c
  <2>5. CASE c # NoBounds
    <3>1. c' = <<c[2], c[2]>>
      BY <2>2, <2>5 DEF NewPhase
    <3> HIDE DEF c
    <3>2. c' # NoBounds /\ c'[1] = c[2] /\ c'[2] = c[2]
      BY <3>1 DEF NoBounds
    <3> QED BY <1>0, <2>1, <2>2, <2>3, <2>5, <3>2 DEF c
  <2> QED BY <2>4, <2>5
<1>5. CASE Outside
  <2>1. /\ run' = run /\ ~ Active(s, "io")' /\ c' = c
        /\ Fresh(s, "io")' => Fresh(s, "io")
        /\ files' = files /\ config' = config
    BY <1>0, <1>5, OutsideProgress
  <2> HIDE DEF c
  <2> QED BY <2>1 DEF c, Known
<1>6. CASE Besides
  <2>1. /\ UNCHANGED <<closed, run, marks, c, config>>
        /\ UNCHANGED <<First, Latest(s, "io")>>
        /\ Active(s, "io")' <=> Active(s, "io")
        /\ Fresh(s, "io")' => Fresh(s, "io")
    BY <1>0, <1>6, BesidesProgress
  <2>2. (Own' <=> Own) /\ (Known' <=> Known)
    BY <2>1 DEF Own, Known
  <2>3. files[s].io <= files'[s].io /\ files'[s].io \in Nat
    <3>1. ~ PreInit
      BY <1>6, Zenon
         DEF Besides, Kernel, JoinBegins, PollingTask, PollReads, PollStores,
             PollFails, PollStops, PreInit, PreInitCall, vars, readerVars
    <3>2. FilesType'
      BY NextFiles DEF TypeInv
    <3> QED BY <3>1, <3>2, FilesGrow DEF FilesType, Snapshots
  <2>4. c # NoBounds => c[2] \in Nat
    BY <1>0 DEF Pairs
  <2> HIDE DEF c
  <2>5. Known' /\ c' # NoBounds => c'[2] \in 1 .. files'[s].io
    BY <1>0, <2>1, <2>2, <2>3, <2>4 DEF c
  <2> QED BY <2>1, <2>2, <2>5 DEF c
<1> QED BY <1>1, <1>2, <1>3, <1>4, <1>5, <1>6, Steps

(* Every step keeps the timestamps those of the marks. *)
LEMMA NextStamp ==
    ASSUME TypeInv, CallsInv, StampInv, [Next]_vars PROVE StampInv'
<1> USE DEF StampInv
<1>0. /\ closed \in Nat /\ reading \in 0 .. 6 /\ stage \in Stages
      /\ "cpu" \in Files /\ "proc" \in Scopes
  BY DEF TypeInv, ReaderTypeOK, Files, Scopes
<1>1. CASE PreInit
  BY <1>0, <1>1 DEF PreInit, PreInitCall, CallsInv, counterVars
<1>2. CASE MeasureBegins
  <2>1. /\ stage \in {"started", "open"} /\ reading = 0
        /\ UNCHANGED <<stage, closed, begin_timestamp>> /\ end_timestamp' = now
    BY <1>2 DEF MeasureBegins, readerVars
  <2>2. /\ marks'[Len(marks')] = NewMark /\ NewMark.time = now
        /\ marks # <<>> => marks'[1] = marks[Len(marks)]
    BY <1>2, MarkBegins DEF NewMark
  <2>3. stage = "open" => Len(marks) \in 1 .. 2
    BY <2>1 DEF CallsInv
  <2>4. stage = "open" => marks # <<>>
    BY <2>3
  <2>5. reading' = 1
    BY <1>2 DEF MeasureBegins
  <2>6. (stage = "open" => First = Len(marks)) /\ First' = 1
    BY <2>1, <2>5 DEF First
  <2> QED BY <2>1, <2>2, <2>4, <2>6
<1>3. CASE MeasureReads
  <2>1. /\ Len(marks) \in 1 .. 2 /\ Len(marks') = Len(marks) /\ closed' = closed
        /\ First = 1 /\ First' = 1
    BY <1>0, <1>3, Progress
  <2>2. marks # <<>>
    BY <2>1
  <2>3. \A i \in 1 .. Len(marks) : marks'[i].time = marks[i].time
    BY <1>3, <2>2, ReadEffect, MarkEffect
  <2>4. /\ UNCHANGED <<begin_timestamp, end_timestamp>> /\ reading > 0
        /\ stage \in {"started", "open"}
    BY <1>3 DEF MeasureReads, CallsInv
  <2>5. stage = "started" => closed = 0
    BY DEF CallsInv
  <2> QED BY <1>0, <2>1, <2>3, <2>4, <2>5
<1>4. CASE Retrieve
  <2>1. /\ marks' = marks /\ Len(marks) = 2 /\ First' = 2
    BY <1>0, <1>4, RetrieveProgress
  <2>2. /\ stage = "closing" /\ begin_timestamp' = end_timestamp
        /\ end_timestamp' = end_timestamp
    BY <1>4 DEF Retrieve, RetrieveCall
  <2> QED BY <2>1, <2>2
<1>5. CASE InitSource
  <2>1. /\ stage = "ready" /\ stage' \in {"started", "dropped"}
        /\ reading' = reading
    BY <1>5 DEF InitSource, InitCall
  <2>2. reading = 0
    BY <1>0, <2>1 DEF CallsInv
  <2> QED BY <2>1, <2>2
<1>6. CASE PollJoined
  <2>1. stage' = "joined" /\ reading' = reading /\ end_timestamp' = end_timestamp
        /\ marks' = marks
    BY <1>6 DEF PollJoined, JoinCall, counterVars, ghostVars
  <2> QED BY <2>1
<1>7. CASE Returned
  <2>1. stage = "joined" /\ stage' = "idle" /\ reading' = reading
    BY <1>7 DEF Returned, GiveBack, counterVars
  <2>2. reading = 0
    BY <1>0, <2>1 DEF CallsInv
  <2> QED BY <2>1, <2>2
<1>8. CASE FailStep
  <2>1. stage' = "dropped" /\ reading' = 0
    BY <1>8, FailFrame DEF Abandon
  <2> QED BY <2>1
<1>9. CASE Besides
  <2>1. UNCHANGED <<stage, closed, reading, marks, begin_timestamp, end_timestamp>>
    BY <1>9, BesidesProgress
  <2>2. First' = First
    BY <2>1 DEF First
  <2> QED BY <2>1, <2>2
<1> QED
  BY <1>1, <1>2, <1>3, <1>4, <1>5, <1>6, <1>7, <1>8, <1>9, Steps DEF Outside

(***************************************************************************)
(* The phase that is retrieved is exact, and what was retrieved stays so.  *)
(***************************************************************************)
LEMMA RetrievedExact ==
    ASSUME TypeInv, CallsInv, OrderInv, CpuInv, IoInv, StampInv, Retrieve
    PROVE  PhaseExact'
<1>1. /\ reported' = [memory |-> memory_counters, cpu |-> cpu_counters,
                      io |-> io_counters,
                      begin |-> begin_timestamp, end |-> end_timestamp]
      /\ stage = "closing" /\ closed' = closed + 1 /\ config' = config
      /\ marks' = marks /\ run' = run
  BY DEF Retrieve, RetrieveCall, ghostVars
<1>2. /\ Len(marks) = 2 /\ First = 1 /\ closed \in Nat
      /\ \A s \in Scopes, file \in Files :
            Active(s, file) /\ Latest(s, file) = 2
  BY RetrieveProgress, <1>1 DEF TypeInv, ReaderTypeOK, CallsInv, First, Active,
     Latest, Done
<1>3. Delimited' => Own
  BY <1>1, <1>2 DEF Delimited, Own
<1>4. \A s \in Scopes :
         /\ Usage(1, s) \in Nat /\ Usage(2, s) \in Nat /\ Usage(1, s) <= Usage(2, s)
         /\ Io(1, s) \in Nat /\ Io(2, s) \in Nat /\ Io(1, s) <= Io(2, s)
  <2>1. 1 \in 1 .. Len(marks) /\ 2 \in 1 .. Len(marks)
    BY <1>2
  <2> QED BY <1>2, <2>1, MarkTypes DEF Usage, Io, OrderInv
<1>5. ASSUME NEW s \in Scopes
      PROVE  /\ ToMetrics(reported')[s].usage =
                   <<Diff(cpu_counters[s]),
                     SaturatingSub(end_timestamp, begin_timestamp)>>
             /\ ToMetrics(reported')[s].io =
                   IF io_counters[s] = NoBounds THEN <<>>
                   ELSE <<Diff(io_counters[s])>>
  BY <1>1 DEF ToMetrics, UsageRatio
<1>6. CpuPhaseExact'
  <2> SUFFICES ASSUME Delimited', NEW s \in Scopes
               PROVE  LET usage == ToMetrics(reported')[s].usage
                      IN  /\ usage[1] = marks[2].files[s].usage - marks[1].files[s].usage
                          /\ closed' > 1 => usage[2] = marks[2].time - marks[1].time
    BY <1>1 DEF CpuPhaseExact
  <2>1. /\ cpu_counters[s] # NoBounds /\ cpu_counters[s][2] = Usage(2, s)
        /\ cpu_counters[s][1] = Usage(1, s)
    BY <1>2, <1>3 DEF CpuInv, CpuOf, Files
  <2>2. Diff(cpu_counters[s]) = Usage(2, s) - Usage(1, s)
    BY <1>4, <2>1 DEF Diff, SaturatingSub
  <2>3. closed' > 1 => SaturatingSub(end_timestamp, begin_timestamp) =
                          marks[2].time - marks[1].time
    <3> SUFFICES ASSUME closed' > 1
                 PROVE  SaturatingSub(end_timestamp, begin_timestamp) =
                           marks[2].time - marks[1].time
      OBVIOUS
    <3>1. end_timestamp = marks[2].time /\ begin_timestamp = marks[1].time
      BY <1>1, <1>2 DEF StampInv
    <3>2. end_timestamp \in Nat /\ begin_timestamp \in Nat
      BY CgroupBoundsAssumption DEF TypeInv, TimesType
    <3>3. marks[1].time <= marks[2].time
      BY <1>2 DEF OrderInv
    <3> QED BY <3>1, <3>2, <3>3 DEF SaturatingSub
  <2>4. /\ ToMetrics(reported')[s].usage[1] = Diff(cpu_counters[s])
        /\ ToMetrics(reported')[s].usage[2] =
              SaturatingSub(end_timestamp, begin_timestamp)
    <3> DEFINE usage == ToMetrics(reported')[s].usage
               used  == Diff(cpu_counters[s])
               spent == SaturatingSub(end_timestamp, begin_timestamp)
    <3>1. usage = <<used, spent>>
      BY <1>5
    <3> HIDE DEF usage, used, spent
    <3>2. usage[1] = used /\ usage[2] = spent
      BY <3>1
    <3> QED BY <3>2 DEF usage, used, spent
  <2> QED BY <2>2, <2>3, <2>4 DEF Usage
<1>7. IoPhaseExact'
  <2> SUFFICES ASSUME Delimited', NEW s \in Scopes
               PROVE  LET io == ToMetrics(reported')[s].io
                      IN  IF Io(1, s) # NoEntry
                          THEN io = <<Io(2, s) - Io(1, s)>>
                          ELSE IF run = 1 \/ ~ config.create_cgroup
                          THEN io \in {<<>>, <<0>>}
                          ELSE io = <<>> \/ io[1] <= Io(2, s)
    BY <1>1 DEF IoPhaseExact, Io
  <2> DEFINE c == io_counters[s]
  <2>1. /\ Io(2, s) # NoEntry => c # NoBounds /\ c[2] = Io(2, s)
        /\ Io(1, s) # NoEntry => c # NoBounds /\ c[1] = Io(1, s)
        /\ Io(2, s) = NoEntry => c = NoBounds \/ c[1] = c[2]
        /\ Known /\ Io(1, s) = NoEntry => c = NoBounds \/ c[1] = c[2]
    BY <1>2, <1>3 DEF IoInv, IoOf, Files
  <2>2. c # NoBounds => c[1] \in Nat /\ c[2] \in Nat
    BY DEF TypeInv, CountersType, Pairs
  <2>3. ToMetrics(reported')[s].io = IF c = NoBounds THEN <<>> ELSE <<Diff(c)>>
    BY <1>5
  <2> HIDE DEF c
  <2>4. CASE Io(1, s) # NoEntry
    BY <1>4, <2>1, <2>2, <2>3, <2>4 DEF Diff, SaturatingSub, NoEntry
  <2>5. CASE Io(1, s) = NoEntry /\ (run = 1 \/ ~ config.create_cgroup)
    <3>1. c # NoBounds => Diff(c) = 0
      BY <2>1, <2>2, <2>5 DEF Known, Diff, SaturatingSub
    <3> QED BY <2>3, <2>5, <3>1
  <2>6. CASE Io(1, s) = NoEntry /\ ~ (run = 1 \/ ~ config.create_cgroup)
    <3>1. c # NoBounds => Diff(c) <= Io(2, s)
      BY <1>4, <2>1, <2>2 DEF Diff, SaturatingSub
    <3> QED BY <2>3, <2>6, <3>1
  <2> QED BY <2>4, <2>5, <2>6
<1> QED BY <1>6, <1>7 DEF PhaseExact

(* Every step keeps what was reported exact. *)
LEMMA NextPhaseExact ==
    ASSUME TypeInv, CallsInv, OrderInv, CpuInv, IoInv, StampInv, PhaseExact,
           [Next]_vars
    PROVE  PhaseExact'
<1> USE DEF readerVars, counterVars, ghostVars
<1>0. closed \in Nat
  BY DEF TypeInv, ReaderTypeOK
<1>1. CASE Retrieve
  BY <1>1, RetrievedExact
<1>2. CASE reported' = NoPhase
  BY <1>2 DEF PhaseExact, CpuPhaseExact, IoPhaseExact, Delimited
<1>3. CASE UNCHANGED <<reported, marks, run, config>> /\ closed' \in {0, closed}
  BY <1>0, <1>3 DEF PhaseExact, CpuPhaseExact, IoPhaseExact, Delimited
<1>4. CASE PreInit \/ MeasureBegins
  BY <1>2, <1>4 DEF PreInit, MeasureBegins
<1>5. CASE MeasureReads
  <2>1. reported' = NoPhase
    BY <1>5 DEF MeasureReads, CallsInv
  <2> QED BY <1>2, <2>1
<1>6. CASE Outside
  <2>1. UNCHANGED <<reported, marks, run, config>>
    BY <1>6, FailFrame DEF Outside, InitSource, PollJoined, Returned
  <2>2. closed' \in {0, closed}
    BY <1>6, FailFrame
       DEF Outside, InitSource, InitCall, PollJoined, JoinCall, Returned,
           GiveBack, Abandon
  <2> QED BY <1>3, <2>1, <2>2
<1>7. CASE Besides
  BY <1>3, <1>7, BesidesProgress
<1> QED BY <1>1, <1>4, <1>5, <1>6, <1>7, Steps

-----------------------------------------------------------------------------

(***************************************************************************)
(* The invariant holds in every state.                                     *)
(***************************************************************************)
THEOREM Invariance == Spec => []IInv
<1>1. Init => IInv
  <2>1. Init => PhaseExact
    BY DEF Init, PhaseExact, CpuPhaseExact, IoPhaseExact, Delimited
  <2> QED BY <2>1, InitType, InitCalls, InitCause, InitMemory, InitOrder, InitPairs
          DEF IInv
<1>2. IInv /\ [Next]_vars => IInv'
  <2> SUFFICES ASSUME IInv, [Next]_vars PROVE IInv'
    OBVIOUS
  <2>1. TypeInv /\ CallsInv /\ Joining /\ CauseInv /\ MemoryInv /\ OrderInv
        /\ CpuInv /\ IoInv /\ StampInv /\ PhaseExact
    BY DEF IInv
  <2>2. TypeInv' /\ CallsInv' /\ Joining'
    BY <2>1, NextType, NextCalls, NextJoining
  <2>3. CauseInv' /\ MemoryInv' /\ OrderInv'
    BY <2>1, NextCause, NextMemory, NextOrder
  <2>4. CpuInv' /\ IoInv'
    <3>1. ASSUME NEW s \in Scopes PROVE CpuOf(s)' /\ IoOf(s)'
      BY <2>1, NextCpu, NextIo DEF CpuInv, IoInv
    <3> QED BY <3>1 DEF CpuInv, IoInv
  <2>5. StampInv' /\ PhaseExact'
    BY <2>1, NextStamp, NextPhaseExact
  <2> QED BY <2>2, <2>3, <2>4, <2>5 DEF IInv
<1> QED BY <1>1, <1>2, PTL DEF Spec

(***************************************************************************)
(* No variable ever leaves its type: with it, the bounds of the memory are *)
(* bounds, and no phase is timed backwards.                                *)
(***************************************************************************)
THEOREM TypeCorrectness == Spec => []TypeOK
<1>1. IInv => TypeOK
  <2> SUFFICES ASSUME IInv PROVE TypeOK
    OBVIOUS
  <2>1. TypeInv
    BY DEF IInv
  <2>2. /\ ReaderTypeOK /\ config \in Configs
        /\ hierarchy.enabled \subseteq hierarchy.available
        /\ run \in 0 .. MaxRuns /\ changes \in 0 .. MaxChanges /\ now \in 0 .. changes
        /\ cgroup \in [exists : BOOLEAN, populated : BOOLEAN]
        /\ cgroup.populated => cgroup.exists
        /\ {begin_timestamp, end_timestamp} \subseteq 0 .. now
    BY <2>1 DEF TypeInv, HierarchyType, TimesType
  <2>3. /\ polling_task \in {"none", "read_proc", "store_proc", "read_global",
                             "store_global", "ended", "failed"}
        /\ polled \in Levels \cup {NotRead}
        /\ {error, poll_error} \subseteq Errors
    BY <2>1 DEF TypeInv, PollerType, ErrorsType
  <2>4. reading \in 0 .. Len(Reads)
    BY <2>1, ReadsInOrder DEF TypeInv
  <2>5. cancelled \in BOOLEAN /\ joining \in BOOLEAN
    BY <2>1, Zenon DEF TypeInv, Flags
  <2>6. ASSUME NEW scope \in Scopes
        PROVE  /\ files[scope] \in Snapshots
               /\ IsPair(cpu_counters[scope]) /\ IsPair(io_counters[scope])
               /\ memory_counters[scope] # NoBounds =>
                     \E low, high \in Levels :
                        low <= high /\ memory_counters[scope] = <<low, high>>
    <3>1. files[scope] \in Snapshots
      BY <2>1 DEF TypeInv, FilesType
    <3>2. IsPair(cpu_counters[scope]) /\ IsPair(io_counters[scope])
      BY <2>1 DEF TypeInv, CountersType, IsPair, Pairs
    <3>3. ASSUME memory_counters[scope] # NoBounds
          PROVE  \E low, high \in Levels :
                    low <= high /\ memory_counters[scope] = <<low, high>>
      BY <2>1, <3>3 DEF TypeInv, CountersType, Bounds
    <3> QED BY <3>1, <3>2, <3>3
  <2> QED BY <2>2, <2>3, <2>4, <2>5, <2>6, Zenon DEF TypeOK
<1> QED BY <1>1, Invariance, PTL

(***************************************************************************)
(* CPU and I/O of a phase are what was counted between the two reads that  *)
(* delimit it, in relation to the time between the measurements.           *)
(***************************************************************************)
THEOREM PhasesExact == Spec => []PhaseExact
<1>1. IInv => PhaseExact
  BY DEF IInv
<1> QED BY <1>1, Invariance, PTL

(***************************************************************************)
(* The memory bounds of a phase hold the value at the boundary closing it. *)
(***************************************************************************)
THEOREM BoundariesHeld == Spec => []BoundaryWithinBounds
<1>1. IInv => BoundaryWithinBounds
  BY DEF IInv, MemoryInv
<1> QED BY <1>1, Invariance, PTL

(***************************************************************************)
(* An error that names what is missing is true of the cgroup when it is    *)
(* told, and no phase is reported without a controller.                    *)
(***************************************************************************)
THEOREM CausesNamed == Spec => []FailureNamesCause
<1>1. IInv => FailureNamesCause
  BY DEF IInv, CauseInv, NamesCause, FailureNamesCause
<1> QED BY <1>1, Invariance, PTL

(***************************************************************************)
(* A join() that succeeds leaves no empty cgroup that the source created.  *)
(***************************************************************************)
THEOREM JoinCleansUp == Spec => NoCgroupLeft
<1> DEFINE Cleaned == stage' = "joined" /\ stage # "joined" /\ config.create_cgroup =>
                         ~ cgroup'.exists \/ cgroup'.populated
<1>1. ASSUME [Next]_vars PROVE [Cleaned]_vars
  <2>1. CASE PollJoined
    BY <2>1 DEF PollJoined, Cleanup
  <2>2. CASE ~ PollJoined
    <3>1. stage' # "joined" \/ stage' = stage
      BY <1>1, <2>2, FailFrame
         DEF Next, ProfilerCalls, FailStep, Finished, vars, readerVars, Kernel,
             PreInit, PreInitCall, InitSource, InitCall, MeasureBegins,
             MeasureReads, MeasureCall, Retrieve, RetrieveCall, JoinBegins,
             Returned, GiveBack, Abandon, PollingTask, PollReads, PollStores,
             PollFails, PollStops
    <3> QED BY <3>1
  <2> QED BY <2>1, <2>2
<1> QED BY <1>1, PTL DEF Spec, NoCgroupLeft

=============================================================================
