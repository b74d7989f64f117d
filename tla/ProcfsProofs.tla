---------------------------- MODULE ProcfsProofs ----------------------------
(***************************************************************************)
(* Proofs about Procfs, for any processes, any sizes and any bounds.  The  *)
(* invariant is built in layers: types, the tasks and the calls, the       *)
(* command among what is measured, what a boundary measured, and the bytes *)
(* that were read.                                                         *)
(***************************************************************************)
EXTENDS Procfs, FiniteSetTheorems, TLAPS

-----------------------------------------------------------------------------
(* Operators                                                               *)
-----------------------------------------------------------------------------

Bounds == {b \in Nat \X Nat : b[1] <= b[2]}

Counters == [mem : Bounds \cup {NoBounds}, begin_read : Nat, end_read : Nat]

Snapshots == [mem : Nat, io : Nat]

(* The greater of two numbers. *)
LEMMA MaxOfTwo ==
    ASSUME NEW x \in Nat, NEW y \in Nat
    PROVE  Max({x, y}) = IF x >= y THEN x ELSE y
  BY DEF Max

(***************************************************************************)
(* Bounds that are updated enclose the new value and what they enclosed.   *)
(***************************************************************************)
LEMMA UpdateEncloses ==
    ASSUME NEW b \in Bounds \cup {NoBounds}, NEW v \in Nat
    PROVE  /\ MinMaxUpdate(b, v) \in Bounds
           /\ MinMaxUpdate(b, v) # NoBounds
           /\ v \in MinMaxUpdate(b, v)[1] .. MinMaxUpdate(b, v)[2]
           /\ b # NoBounds => \A w \in Nat : w \in b[1] .. b[2] =>
                  w \in MinMaxUpdate(b, v)[1] .. MinMaxUpdate(b, v)[2]
<1>1. ASSUME NEW x \in Nat, NEW y \in Nat
      PROVE  /\ Min({x, y}) = IF x <= y THEN x ELSE y
             /\ Max({x, y}) = IF x >= y THEN x ELSE y
  BY DEF Min, Max
<1>2. CASE b = NoBounds
  BY <1>2 DEF MinMaxUpdate, Bounds, NoBounds
<1>3. CASE b # NoBounds
  <2>1. b[1] \in Nat /\ b[2] \in Nat /\ b[1] <= b[2]
    BY <1>3 DEF Bounds
  <2> DEFINE lo == IF b[1] <= v THEN b[1] ELSE v
             hi == IF b[2] >= v THEN b[2] ELSE v
  <2>2. MinMaxUpdate(b, v) = <<lo, hi>>
    BY <1>1, <1>3, <2>1 DEF MinMaxUpdate
  <2>3. lo \in Nat /\ hi \in Nat
    BY <2>1
  <2>4. lo <= v /\ v <= hi /\ lo <= b[1] /\ b[2] <= hi
    BY <2>1
  <2> HIDE DEF lo, hi
  <2>5. <<lo, hi>> \in Bounds
    BY <2>3, <2>4 DEF Bounds
  <2>6. \A w \in Nat : w \in b[1] .. b[2] => w \in lo .. hi
    BY <2>1, <2>3, <2>4
  <2> QED BY <2>2, <2>3, <2>4, <2>5, <2>6 DEF NoBounds
<1> QED BY <1>2, <1>3

(***************************************************************************)
(* The same of all counters: the bounds enclose, the end does not go back, *)
(* and the beginning stays.                                                *)
(***************************************************************************)
LEMMA CountersUpdateEncloses ==
    ASSUME NEW c \in Counters, NEW s, s.mem \in Nat, s.io \in Nat
    PROVE  /\ CountersUpdate(c, s) \in Counters
           /\ CountersUpdate(c, s).mem = MinMaxUpdate(c.mem, s.mem)
           /\ CountersUpdate(c, s).begin_read = c.begin_read
           /\ CountersUpdate(c, s).end_read >= c.end_read
           /\ CountersUpdate(c, s).end_read >= s.io
           /\ CountersUpdate(c, s).end_read \in {c.end_read, s.io}
<1> DEFINE mem == MinMaxUpdate(c.mem, s.mem)
           end == Max({c.end_read, s.io})
<1>1. /\ c.mem \in Bounds \cup {NoBounds}
      /\ c.begin_read \in Nat /\ c.end_read \in Nat
  BY DEF Counters
<1>2. mem \in Bounds
  BY <1>1, UpdateEncloses
<1>3. end \in Nat /\ end >= c.end_read /\ end >= s.io /\ end \in {c.end_read, s.io}
  BY <1>1, MaxOfTwo
<1>4. CountersUpdate(c, s) = [c EXCEPT !.mem = mem, !.end_read = end]
  BY DEF CountersUpdate
<1> HIDE DEF mem, end
<1>5. CountersUpdate(c, s) \in Counters
  BY <1>2, <1>3, <1>4 DEF Counters
<1>6. /\ CountersUpdate(c, s).mem = mem
      /\ CountersUpdate(c, s).begin_read = c.begin_read
      /\ CountersUpdate(c, s).end_read = end
  BY <1>4 DEF Counters
<1> QED BY <1>3, <1>5, <1>6 DEF mem

-----------------------------------------------------------------------------
(* Types                                                                   *)
-----------------------------------------------------------------------------

MeasurementRecords ==
    [active : BOOLEAN, pids : SUBSET Processes, present : SUBSET Processes,
     gone : BOOLEAN, mem : Nat, io : Nat]

TypeInv ==
    /\ ReaderTypeOK
    /\ run \in 0 .. MaxRuns /\ spent \in Nat
    /\ DOMAIN processes \subseteq Processes
    /\ processes \in [DOMAIN processes -> Snapshots]
    /\ detected_processes \subseteq Processes
    /\ counters \in Counters
    /\ measurement \in [Measurers -> MeasurementRecords]
    /\ \A a \in Measurers : measurement[a].active \/ measurement[a] = Idle
    /\ polling_task \in TaskState /\ discovery_task \in TaskState
    /\ discovered \subseteq Processes
    /\ cancelled \subseteq {"poll", "discovery"}
    /\ joining \in {"no", "poll", "discovery"}
    /\ boundary \in Snapshots

(* Init has the types. *)
LEMMA InitType == Init => TypeInv
<1> SUFFICES ASSUME Init PROVE TypeInv
  OBVIOUS
<1> USE ProcfsBoundsAssumption DEF Init
<1>1. ReaderTypeOK
  BY DEF ReaderInit, ReaderTypeOK, Stages
<1>2. Idle \in MeasurementRecords
  BY DEF Idle, MeasurementRecords
<1>3. DOMAIN processes = {} /\ processes \in [DOMAIN processes -> Snapshots]
  OBVIOUS
<1>4. counters \in Counters
  BY DEF Nothing, Counters
<1>5. boundary \in Snapshots
  BY DEF Unmeasured, Snapshots
<1> QED BY <1>1, <1>2, <1>3, <1>4, <1>5 DEF TypeInv, TaskState

(* The calls of the profiler keep the stages. *)
LEMMA ReaderType ==
    ASSUME ReaderTypeOK,
           \/ PreInitCall \/ InitCall \/ MeasureCall \/ RetrieveCall
           \/ JoinCall \/ GiveBack \/ Abandon \/ UNCHANGED readerVars
    PROVE  ReaderTypeOK'
  BY DEF ReaderTypeOK, Stages, PreInitCall, InitCall, MeasureCall,
         RetrieveCall, JoinCall, GiveBack, Abandon, readerVars

(* What the processes do keeps the types. *)
LEMMA KernelType ==
    ASSUME TypeInv, NEW p \in Processes, Reads(p) \/ Forks(p) \/ Exits(p)
    PROVE  /\ DOMAIN processes' \subseteq Processes
           /\ processes' \in [DOMAIN processes' -> Snapshots]
           /\ spent' \in Nat
<1> USE SizesAssumption DEF TypeInv, Snapshots
<1>1. CASE Reads(p)
  BY <1>1 DEF Reads
<1>2. CASE Forks(p)
  BY <1>2 DEF Forks
<1>3. CASE Exits(p)
  BY <1>3 DEF Exits
<1> QED BY <1>1, <1>2, <1>3

(* Copying what is detected keeps the types. *)
LEMMA CopyType ==
    ASSUME TypeInv, NEW a \in Measurers, CopyPids(a)
    PROVE  /\ measurement' \in [Measurers -> MeasurementRecords]
           /\ \A b \in Measurers :
                 measurement'[b].active \/ measurement'[b] = Idle
           /\ measurement'[a].pids = detected_processes
           /\ measurement'[a].io = 0
           /\ \A b \in Measurers \ {a} : measurement'[b] = measurement[b]
<1> DEFINE m == [Idle EXCEPT !.active = TRUE, !.pids = detected_processes]
<1>1. Idle \in MeasurementRecords /\ Idle.io = 0
  BY DEF Idle, MeasurementRecords
<1>2. m \in MeasurementRecords
  BY <1>1 DEF TypeInv, MeasurementRecords
<1>3. m.active /\ m.pids = detected_processes /\ m.io = 0
  BY <1>1 DEF MeasurementRecords
<1>4. measurement' = [measurement EXCEPT ![a] = m]
  BY DEF CopyPids
<1> HIDE DEF m
<1> QED BY <1>2, <1>3, <1>4 DEF TypeInv

(* Reading a process keeps the types. *)
LEMMA ReadType ==
    ASSUME TypeInv, NEW a \in Measurers, NEW p \in Processes, ReadProc(a, p)
    PROVE  /\ measurement' \in [Measurers -> MeasurementRecords]
           /\ \A b \in Measurers :
                 measurement'[b].active \/ measurement'[b] = Idle
           /\ measurement[a].active
           /\ measurement'[a].pids = measurement[a].pids \ {p}
           /\ \A b \in Measurers \ {a} : measurement'[b] = measurement[b]
           /\ p \in DOMAIN processes =>
                 /\ measurement'[a].present = measurement[a].present \cup {p}
                 /\ measurement'[a].io = measurement[a].io + processes[p].io
           /\ p \notin DOMAIN processes =>
                 /\ measurement'[a].present = measurement[a].present
                 /\ measurement'[a].io = measurement[a].io
<1> DEFINE m == measurement[a]
           n == AddProc(m, p)
<1>1. m \in MeasurementRecords /\ p \in m.pids
  BY DEF TypeInv, ReadProc
<1>2. m.active
  BY <1>1 DEF TypeInv, Idle
<1>3. p \in DOMAIN processes => processes[p] \in Snapshots
  BY DEF TypeInv
<1>4. n \in MeasurementRecords
  <2>1. CASE p \in DOMAIN processes
    <3> DEFINE pids    == m.pids \ {p}
               present == m.present \cup {p}
               mem     == m.mem + processes[p].mem
               io      == m.io + processes[p].io
    <3>1. /\ pids \in SUBSET Processes /\ present \in SUBSET Processes
          /\ mem \in Nat /\ io \in Nat
      BY <1>1, <1>3, <2>1 DEF MeasurementRecords, Snapshots
    <3>2. n = [m EXCEPT !.pids = pids, !.present = present,
                        !.mem = mem, !.io = io]
      BY <2>1 DEF AddProc
    <3> HIDE DEF pids, present, mem, io, m, n
    <3> QED BY <1>1, <3>1, <3>2, Zenon DEF MeasurementRecords
  <2>2. CASE p \notin DOMAIN processes
    <3> DEFINE pids == m.pids \ {p}
    <3>1. pids \in SUBSET Processes
      BY <1>1 DEF MeasurementRecords
    <3>2. n = [m EXCEPT !.pids = pids, !.gone = TRUE]
      BY <2>2 DEF AddProc
    <3> HIDE DEF pids, m, n
    <3> QED BY <1>1, <3>1, <3>2 DEF MeasurementRecords
  <2> QED BY <2>1, <2>2
<1>5. n.active = m.active /\ n.pids = m.pids \ {p}
  BY <1>1 DEF AddProc, MeasurementRecords
<1>6. p \in DOMAIN processes =>
         n.present = m.present \cup {p} /\ n.io = m.io + processes[p].io
  BY <1>1 DEF AddProc, MeasurementRecords
<1>7. p \notin DOMAIN processes => n.present = m.present /\ n.io = m.io
  BY <1>1 DEF AddProc, MeasurementRecords
<1>8. measurement' = [measurement EXCEPT ![a] = n]
  BY DEF ReadProc
<1> HIDE DEF n
<1>9. measurement'[a] = n /\ \A b \in Measurers \ {a} : measurement'[b] = measurement[b]
  BY <1>8 DEF TypeInv
<1>10. measurement' \in [Measurers -> MeasurementRecords]
  BY <1>4, <1>8 DEF TypeInv
<1>11. \A b \in Measurers : measurement'[b].active \/ measurement'[b] = Idle
  BY <1>2, <1>5, <1>9 DEF TypeInv
<1> QED BY <1>2, <1>5, <1>6, <1>7, <1>9, <1>10, <1>11

(* What one measurer stops keeps the types. *)
LEMMA IdleType ==
    ASSUME TypeInv, NEW a \in Measurers,
           measurement' = [measurement EXCEPT ![a] = Idle]
    PROVE  /\ measurement' \in [Measurers -> MeasurementRecords]
           /\ \A b \in Measurers :
                 measurement'[b].active \/ measurement'[b] = Idle
           /\ measurement'[a] = Idle
           /\ \A b \in Measurers \ {a} : measurement'[b] = measurement[b]
<1>1. Idle \in MeasurementRecords
  BY DEF Idle, MeasurementRecords
<1> HIDE DEF Idle
<1> QED BY <1>1 DEF TypeInv

(* Storing a measurement keeps the types. *)
LEMMA StoreType ==
    ASSUME TypeInv, NEW a \in Measurers, StoreMeasurement(a)
    PROVE  /\ measurement' \in [Measurers -> MeasurementRecords]
           /\ \A b \in Measurers :
                 measurement'[b].active \/ measurement'[b] = Idle
           /\ measurement'[a] = Idle
           /\ \A b \in Measurers \ {a} : measurement'[b] = measurement[b]
           /\ measurement[a].mem \in Nat /\ measurement[a].io \in Nat
           /\ counters' \in Counters
           /\ counters'.mem = MinMaxUpdate(counters.mem, measurement[a].mem)
           /\ counters'.begin_read = counters.begin_read
           /\ counters'.end_read >= counters.end_read
           /\ counters'.end_read >= measurement[a].io
           /\ counters'.end_read \in {counters.end_read, measurement[a].io}
           /\ detected_processes' \subseteq Processes
<1>1. measurement[a] \in MeasurementRecords
  BY DEF TypeInv
<1>2. /\ measurement[a].mem \in Nat /\ measurement[a].io \in Nat
      /\ measurement[a].present \subseteq Processes
  BY <1>1 DEF MeasurementRecords
<1>3. /\ measurement' \in [Measurers -> MeasurementRecords]
      /\ \A b \in Measurers :
            measurement'[b].active \/ measurement'[b] = Idle
      /\ measurement'[a] = Idle
      /\ \A b \in Measurers \ {a} : measurement'[b] = measurement[b]
  BY IdleType DEF StoreMeasurement
<1>4. counters' = CountersUpdate(counters, measurement[a]) /\ counters \in Counters
  BY DEF StoreMeasurement, TypeInv
<1>5. detected_processes' \subseteq Processes
  BY <1>2 DEF StoreMeasurement, TypeInv
<1> QED BY <1>2, <1>3, <1>4, <1>5, CountersUpdateEncloses

(* Every step keeps the types. *)
LEMMA NextType == ASSUME TypeInv, [Next]_vars PROVE TypeInv'
<1> USE DEF TypeInv, TaskState, readerVars, kernelVars, pollingVars,
            discoveryVars, joinVars, ghostVars
<1>1. CASE PreInit
  <2>1. ReaderTypeOK'
    BY <1>1, ReaderType DEF PreInit
  <2>2. boundary' \in Snapshots
    BY <1>1 DEF PreInit, Unmeasured, Snapshots
  <2>3. run' \in 0 .. MaxRuns
    BY <1>1, ProcfsBoundsAssumption DEF PreInit
  <2> QED BY <1>1, <2>1, <2>2, <2>3 DEF PreInit
<1>2. CASE InitSource
  <2>1. ReaderTypeOK'
    BY <1>2, ReaderType DEF InitSource
  <2>2. /\ DOMAIN processes' \subseteq Processes
        /\ processes' \in [DOMAIN processes' -> Snapshots]
    BY <1>2, SizesAssumption DEF InitSource, Processes, Snapshots
  <2>3. detected_processes' \subseteq Processes /\ spent' \in Nat
    BY <1>2 DEF InitSource, Processes
  <2> QED BY <1>2, <2>1, <2>2, <2>3 DEF InitSource
<1>3. CASE MeasureBegins
  <2>1. "worker" \in Measurers /\ CopyPids("worker")
    BY <1>3 DEF MeasureBegins, Measurers
  <2>2. ReaderTypeOK'
    BY <1>3, ReaderType DEF MeasureBegins
  <2> QED BY <1>3, <2>1, <2>2, CopyType DEF MeasureBegins
<1>4. CASE Measure
  <2>1. "worker" \in Measurers /\ StoreMeasurement("worker")
    BY <1>4 DEF Measure, Measurers
  <2>2. ReaderTypeOK'
    BY <1>4, ReaderType DEF Measure
  <2>3. boundary' \in Snapshots
    BY <1>4, <2>1, StoreType DEF Measure, Snapshots
  <2> QED BY <1>4, <2>1, <2>2, <2>3, StoreType DEF Measure
<1>5. CASE Retrieve
  <2>1. ReaderTypeOK'
    BY <1>5, ReaderType DEF Retrieve
  <2>2. counters' \in Counters
    BY <1>5 DEF Retrieve, CountersReset, Counters
  <2> QED BY <1>5, <2>1, <2>2 DEF Retrieve
<1>6. CASE JoinBegins
  <2>1. ReaderTypeOK'
    BY <1>6, ReaderType DEF JoinBegins
  <2> QED BY <1>6, <2>1 DEF JoinBegins
<1>7. CASE PollJoined
  <2>1. ReaderTypeOK'
    BY <1>7, ReaderType DEF PollJoined
  <2> QED BY <1>7, <2>1 DEF PollJoined
<1>8. CASE DiscoveryJoined
  <2>1. ReaderTypeOK'
    BY <1>8, ReaderType DEF DiscoveryJoined
  <2> QED BY <1>8, <2>1 DEF DiscoveryJoined
<1>9. CASE Returned
  <2>1. ReaderTypeOK'
    BY <1>9, ReaderType DEF Returned
  <2> QED BY <1>9, <2>1 DEF Returned
<1>10. CASE Dropped
  <2>1. "worker" \in Measurers
    BY DEF Measurers
  <2>2. ReaderTypeOK'
    BY <1>10, ReaderType DEF Dropped
  <2> QED BY <1>10, <2>1, <2>2, IdleType DEF Dropped
<1>11. CASE Kernel
  <2>1. PICK p \in Processes : Reads(p) \/ Forks(p) \/ Exits(p)
    BY <1>11 DEF Kernel
  <2>2. ReaderTypeOK'
    BY <1>11, ReaderType DEF Kernel
  <2> QED BY <1>11, <2>1, <2>2, KernelType DEF Kernel
<1>12. CASE PollTicks
  <2>1. "poll" \in Measurers /\ CopyPids("poll")
    BY <1>12 DEF PollTicks, Measurers
  <2>2. ReaderTypeOK'
    BY <1>12, ReaderType DEF PollTicks
  <2> QED BY <1>12, <2>1, <2>2, CopyType DEF PollTicks
<1>13. CASE PollStores
  <2>1. "poll" \in Measurers /\ StoreMeasurement("poll")
    BY <1>13 DEF PollStores, Measurers
  <2>2. ReaderTypeOK'
    BY <1>13, ReaderType DEF PollStores
  <2> QED BY <1>13, <2>1, <2>2, StoreType DEF PollStores
<1>14. CASE PollFails
  <2>1. "poll" \in Measurers
    BY DEF Measurers
  <2>2. ReaderTypeOK'
    BY <1>14, ReaderType DEF PollFails
  <2> QED BY <1>14, <2>1, <2>2, IdleType DEF PollFails
<1>15. CASE PollStops
  <2>1. ReaderTypeOK'
    BY <1>15, ReaderType DEF PollStops
  <2> QED BY <1>15, <2>1 DEF PollStops
<1>16. CASE DiscoveryCollects
  <2>1. ReaderTypeOK'
    BY <1>16, ReaderType DEF DiscoveryCollects
  <2> QED BY <1>16, <2>1 DEF DiscoveryCollects, CollectChildren, Processes
<1>17. CASE DiscoveryStores
  <2>1. ReaderTypeOK'
    BY <1>17, ReaderType DEF DiscoveryStores
  <2> QED BY <1>17, <2>1 DEF DiscoveryStores
<1>18. CASE DiscoveryStops
  <2>1. ReaderTypeOK'
    BY <1>18, ReaderType DEF DiscoveryStops
  <2> QED BY <1>18, <2>1 DEF DiscoveryStops
<1>19. ASSUME NEW a \in Measurers, NEW p \in Processes, ReadProc(a, p)
       PROVE  TypeInv'
  <2>1. ReaderTypeOK'
    BY <1>19, ReaderType DEF ReadProc
  <2> QED BY <1>19, <2>1, ReadType DEF ReadProc
<1>20. CASE UNCHANGED vars
  <2>1. ReaderTypeOK'
    BY <1>20, ReaderType DEF vars
  <2> QED BY <1>20, <2>1 DEF vars
<1> QED BY <1>1, <1>2, <1>3, <1>4, <1>5, <1>6, <1>7, <1>8, <1>9, <1>10, <1>11,
           <1>12, <1>13, <1>14, <1>15, <1>16, <1>17, <1>18, <1>19, <1>20
        DEF Next, ProfilerCalls, Background, Tasks, Finished

-----------------------------------------------------------------------------
(* The tasks and the calls                                                 *)
-----------------------------------------------------------------------------

(***************************************************************************)
(* Only a task that is busy measures, and a source that does not run has   *)
(* none: join() has awaited them.  The phases of a run are counted from    *)
(* its first measure().                                                    *)
(***************************************************************************)
TaskInv ==
    /\ polling_task # "busy" => measurement["poll"] = Idle
    /\ joining # "no" => stage \in Running /\ measurement["worker"] = Idle
    /\ joining = "discovery" => polling_task = "ended"
    /\ stage \notin Running \cup {"dropped"} =>
          joining = "no" /\ \A a \in Measurers : measurement[a] = Idle
    /\ stage \in {"idle", "ready", "started", "dropped"} => closed = 0
    /\ run = 0 => stage \in {"idle", "dropped"}

(* Init has no tasks. *)
LEMMA InitTasks == Init => TaskInv
<1> HIDE DEF Idle
<1> QED BY DEF Init, ReaderInit, TaskInv, Measurers

(* Every step keeps the tasks and the calls in order. *)
LEMMA NextTasks ==
    ASSUME TypeInv, TaskInv, [Next]_vars
    PROVE  TaskInv'
<1> USE DEF TaskInv, Running, Measurers, readerVars, kernelVars, pollingVars,
            discoveryVars, joinVars, ghostVars
<1> HIDE DEF Idle
<1>0. "worker" \in Measurers /\ "poll" \in Measurers
  OBVIOUS
<1>w. ~ measurement["worker"].active => measurement["worker"] = Idle
  BY <1>0 DEF TypeInv
<1>r. run \in Nat
  BY ProcfsBoundsAssumption DEF TypeInv
<1>1. CASE PreInit
  BY <1>1, <1>r DEF PreInit, PreInitCall
<1>2. CASE InitSource
  BY <1>2 DEF InitSource, InitCall
<1>3. CASE MeasureBegins
  <2>1. measurement'["poll"] = measurement["poll"]
    BY <1>0, <1>3, CopyType DEF MeasureBegins
  <2> QED BY <1>3, <2>1 DEF MeasureBegins, WorkerIdle
<1>4. CASE Measure
  <2>1. /\ measurement'["poll"] = measurement["poll"]
        /\ measurement'["worker"] = Idle
    BY <1>0, <1>4, StoreType DEF Measure
  <2> QED BY <1>4, <2>1 DEF Measure, MeasureCall
<1>5. CASE Retrieve
  BY <1>5 DEF Retrieve, RetrieveCall
<1>6. CASE JoinBegins
  BY <1>6, <1>w DEF JoinBegins, WorkerIdle
<1>7. CASE PollJoined
  BY <1>7 DEF PollJoined, Abandon
<1>8. CASE DiscoveryJoined
  BY <1>8 DEF DiscoveryJoined, JoinCall
<1>9. CASE Returned
  BY <1>9 DEF Returned, GiveBack
<1>10. CASE Dropped
  <2>1. measurement'["poll"] = measurement["poll"]
    BY <1>0, <1>10, IdleType DEF Dropped
  <2> QED BY <1>10, <2>1 DEF Dropped, Abandon
<1>11. CASE Kernel
  BY <1>11 DEF Kernel
<1>12. CASE PollTicks /\ stage \in Running
  <2>1. measurement'["worker"] = measurement["worker"]
    BY <1>0, <1>12, CopyType DEF PollTicks
  <2> QED BY <1>12, <2>1 DEF PollTicks
<1>13. CASE PollStores /\ stage \in Running
  <2>1. /\ measurement'["worker"] = measurement["worker"]
        /\ measurement'["poll"] = Idle
    BY <1>0, <1>13, StoreType DEF PollStores
  <2> QED BY <1>13, <2>1 DEF PollStores
<1>14. CASE PollFails /\ stage \in Running
  <2>1. /\ measurement'["worker"] = measurement["worker"]
        /\ measurement'["poll"] = Idle
    BY <1>0, <1>14, IdleType DEF PollFails
  <2> QED BY <1>14, <2>1 DEF PollFails
<1>15. CASE PollStops
  BY <1>15 DEF PollStops
<1>16. CASE DiscoveryCollects
  BY <1>16 DEF DiscoveryCollects
<1>17. CASE DiscoveryStores
  BY <1>17 DEF DiscoveryStores
<1>18. CASE DiscoveryStops
  BY <1>18 DEF DiscoveryStops
<1>19. ASSUME NEW a \in Measurers, NEW p \in Processes, ReadProc(a, p),
              stage \in Running
       PROVE  TaskInv'
  <2>1. /\ measurement[a].active
        /\ \A b \in Measurers \ {a} : measurement'[b] = measurement[b]
    BY <1>19, ReadType
  <2>2. measurement[a] # Idle
    BY <2>1 DEF Idle
  <2> QED BY <1>19, <2>1, <2>2 DEF ReadProc
<1>20. CASE UNCHANGED vars
  BY <1>20 DEF vars
<1> QED BY <1>1, <1>2, <1>3, <1>4, <1>5, <1>6, <1>7, <1>8, <1>9, <1>10, <1>11,
           <1>12, <1>13, <1>14, <1>15, <1>16, <1>17, <1>18, <1>19, <1>20
        DEF Next, ProfilerCalls, Background, Tasks, Finished

-----------------------------------------------------------------------------
(* The command is detected                                                 *)
-----------------------------------------------------------------------------

(***************************************************************************)
(* While the command lives nobody who is about to store what is detected   *)
(* has missed it: neither a measurement nor the discovery task.            *)
(***************************************************************************)
RootMeasured(a) ==
    measurement[a].active =>
        Root \in measurement[a].pids \cup measurement[a].present

RootInv ==
    /\ discovery_task = "busy" => Root \in discovered
    /\ stage \in Running /\ Root \in DOMAIN processes =>
          Root \in detected_processes /\ \A a \in Measurers : RootMeasured(a)

(* Before the first run there is no command. *)
LEMMA InitRoot == Init => RootInv
  BY DEF Init, ReaderInit, RootInv, Running

(* A measurement that begins has the command among what it will read. *)
LEMMA CopyRoot ==
    ASSUME TypeInv, NEW a \in Measurers, CopyPids(a),
           Root \in detected_processes, \A b \in Measurers : RootMeasured(b)
    PROVE  \A b \in Measurers : RootMeasured(b)'
  BY CopyType DEF RootMeasured

(* A measurement that stops does not matter. *)
LEMMA IdleRoot ==
    ASSUME TypeInv, NEW a \in Measurers,
           measurement' = [measurement EXCEPT ![a] = Idle],
           \A b \in Measurers : RootMeasured(b)
    PROVE  \A b \in Measurers : RootMeasured(b)'
<1>1. ~ Idle.active
  BY DEF Idle
<1> QED BY <1>1, IdleType DEF RootMeasured

(***************************************************************************)
(* A measurement that is stored keeps the command: it has read it, for     *)
(* nothing is left to read.                                                *)
(***************************************************************************)
LEMMA StoreRoot ==
    ASSUME TypeInv, NEW a \in Measurers, StoreMeasurement(a),
           Root \in detected_processes, \A b \in Measurers : RootMeasured(b)
    PROVE  /\ Root \in detected_processes'
           /\ \A b \in Measurers : RootMeasured(b)'
<1>1. Root \in measurement[a].present
  BY DEF StoreMeasurement, RootMeasured
<1>2. Root \in detected_processes'
  BY <1>1 DEF StoreMeasurement
<1> QED BY <1>2, IdleRoot DEF StoreMeasurement

(* A measurement that reads the command has it among what is present. *)
LEMMA ReadRoot ==
    ASSUME TypeInv, NEW a \in Measurers, NEW p \in Processes, ReadProc(a, p),
           Root \in DOMAIN processes, \A b \in Measurers : RootMeasured(b)
    PROVE  \A b \in Measurers : RootMeasured(b)'
<1>1. SUFFICES ASSUME NEW b \in Measurers, measurement'[b].active
               PROVE  Root \in measurement'[b].pids \cup measurement'[b].present
  BY DEF RootMeasured
<1>2. CASE b # a
  BY <1>1, <1>2, ReadType DEF RootMeasured
<1>3. CASE b = a
  <2>1. Root \in measurement[a].pids \cup measurement[a].present
    BY ReadType DEF RootMeasured
  <2>2. CASE p = Root
    BY <1>3, <2>2, ReadType
  <2>3. CASE p # Root
    <3>1. measurement[a].present \subseteq measurement'[a].present
      BY ReadType
    <3> QED BY <1>3, <2>1, <2>3, <3>1, ReadType
  <2> QED BY <2>2, <2>3
<1> QED BY <1>2, <1>3

(* Every step keeps the command detected. *)
LEMMA NextRoot ==
    ASSUME TypeInv, TaskInv, RootInv, [Next]_vars
    PROVE  RootInv'
<1> USE DEF RootInv, readerVars, kernelVars, pollingVars, discoveryVars,
            joinVars, ghostVars
<1>0. "worker" \in Measurers /\ "poll" \in Measurers
  BY DEF Measurers
<1>1. CASE PreInit
  BY <1>1 DEF PreInit, PreInitCall, Running
<1>2. CASE InitSource
  <2>1. \A a \in Measurers : ~ measurement'[a].active
    BY <1>2 DEF InitSource, InitCall, TaskInv, Running, Idle
  <2>2. Root \in detected_processes' /\ discovery_task' # "busy"
    BY <1>2 DEF InitSource
  <2> QED BY <2>1, <2>2 DEF RootMeasured
<1>3. CASE MeasureBegins
  <2>1. stage \in Running /\ CopyPids("worker")
    BY <1>3 DEF MeasureBegins, Running
  <2> QED BY <1>0, <1>3, <2>1, CopyRoot DEF MeasureBegins
<1>4. CASE Measure
  <2>1. stage \in Running /\ StoreMeasurement("worker")
    BY <1>4 DEF Measure, MeasureCall, Running
  <2> QED BY <1>0, <1>4, <2>1, StoreRoot DEF Measure
<1>5. CASE Retrieve
  BY <1>5 DEF Retrieve, RetrieveCall, Running, RootMeasured
<1>6. CASE JoinBegins
  BY <1>6 DEF JoinBegins, RootMeasured
<1>7. CASE PollJoined
  BY <1>7 DEF PollJoined, Abandon, Running, RootMeasured
<1>8. CASE DiscoveryJoined
  BY <1>8 DEF DiscoveryJoined, JoinCall, Running
<1>9. CASE Returned
  BY <1>9 DEF Returned, GiveBack, Running
<1>10. CASE Dropped
  BY <1>10 DEF Dropped, Abandon, Running
<1>11. CASE Kernel
  <2>1. PICK p \in Processes : Reads(p) \/ Forks(p) \/ Exits(p)
    BY <1>11 DEF Kernel
  <2>2. Root \in DOMAIN processes' => Root \in DOMAIN processes
    <3>1. CASE Reads(p)
      BY <3>1 DEF Reads
    <3>2. CASE Forks(p)
      BY <3>2 DEF Forks
    <3>3. CASE Exits(p)
      BY <3>3 DEF Exits
    <3> QED BY <2>1, <3>1, <3>2, <3>3
  <2> QED BY <1>11, <2>2 DEF Kernel, RootMeasured
<1>12. CASE PollTicks /\ stage \in Running
  BY <1>0, <1>12, CopyRoot DEF PollTicks
<1>13. CASE PollStores /\ stage \in Running
  BY <1>0, <1>13, StoreRoot DEF PollStores
<1>14. CASE PollFails /\ stage \in Running
  BY <1>0, <1>14, IdleRoot DEF PollFails
<1>15. CASE PollStops
  BY <1>15 DEF PollStops, RootMeasured
<1>16. CASE DiscoveryCollects
  <2>1. Root \in discovered'
    BY <1>16 DEF DiscoveryCollects, CollectChildren
  <2> QED BY <1>16, <2>1 DEF DiscoveryCollects, RootMeasured
<1>17. CASE DiscoveryStores
  BY <1>17 DEF DiscoveryStores, RootMeasured
<1>18. CASE DiscoveryStops
  BY <1>18 DEF DiscoveryStops, RootMeasured
<1>19. ASSUME NEW a \in Measurers, NEW p \in Processes, ReadProc(a, p)
       PROVE  RootInv'
  BY <1>19, ReadRoot DEF ReadProc
<1>20. CASE UNCHANGED vars
  BY <1>20 DEF vars, RootMeasured
<1> QED BY <1>1, <1>2, <1>3, <1>4, <1>5, <1>6, <1>7, <1>8, <1>9, <1>10, <1>11,
           <1>12, <1>13, <1>14, <1>15, <1>16, <1>17, <1>18, <1>19, <1>20
        DEF Next, ProfilerCalls, Background, Tasks, Finished

-----------------------------------------------------------------------------
(* What a boundary measured                                                *)
-----------------------------------------------------------------------------

(***************************************************************************)
(* Between the measurement that closes a phase and retrieve() the counters *)
(* hold what was measured: polls may widen the bounds and raise the end.   *)
(***************************************************************************)
BoundaryInv ==
    /\ stage = "closing" =>
          /\ counters.mem # NoBounds
          /\ boundary.mem \in counters.mem[1] .. counters.mem[2]
          /\ counters.end_read >= boundary.io
    /\ MemoryBoundaryKept /\ IoBoundaryKept

(* Before the first run no phase is measured. *)
LEMMA InitBoundary == Init => BoundaryInv
  BY DEF Init, ReaderInit, BoundaryInv, MemoryBoundaryKept, IoBoundaryKept

(* Every step keeps what was measured at a boundary. *)
LEMMA NextBoundary ==
    ASSUME TypeInv, TaskInv, BoundaryInv, [Next]_vars
    PROVE  BoundaryInv'
<1> USE DEF BoundaryInv, MemoryBoundaryKept, IoBoundaryKept, readerVars,
            kernelVars, pollingVars, discoveryVars, joinVars, ghostVars
<1>0. /\ counters.mem \in Bounds \cup {NoBounds}
      /\ counters.begin_read \in Nat /\ counters.end_read \in Nat
      /\ boundary.mem \in Nat /\ boundary.io \in Nat /\ closed \in Nat
  BY DEF TypeInv, Counters, Snapshots, ReaderTypeOK
<1>1. CASE PreInit
  BY <1>1 DEF PreInit, PreInitCall
<1>2. CASE InitSource
  BY <1>2 DEF InitSource, InitCall
<1>3. CASE MeasureBegins
  BY <1>3 DEF MeasureBegins
<1>4. CASE Measure
  <2>1. /\ boundary'.mem = measurement["worker"].mem
        /\ boundary'.io = measurement["worker"].io
        /\ StoreMeasurement("worker") /\ "worker" \in Measurers
    BY <1>4 DEF Measure, Measurers
  <2>2. /\ counters'.mem # NoBounds
        /\ boundary'.mem \in counters'.mem[1] .. counters'.mem[2]
        /\ counters'.end_read >= boundary'.io
    BY <1>0, <2>1, StoreType, UpdateEncloses
  <2>3. stage' # "open" \/ closed' = 0
    BY <1>4 DEF Measure, MeasureCall, TaskInv
  <2> QED BY <2>2, <2>3
<1>5. CASE Retrieve
  <2>1. /\ stage = "closing" /\ stage' = "open"
        /\ reported' = counters /\ boundary' = boundary
    BY <1>5 DEF Retrieve, RetrieveCall
  <2>2. counters'.begin_read = counters.end_read
    BY <1>5 DEF Retrieve, CountersReset, TypeInv, Counters
  <2> QED BY <2>1, <2>2
<1>6. CASE JoinBegins
  BY <1>6 DEF JoinBegins
<1>7. CASE PollJoined
  BY <1>7 DEF PollJoined, Abandon
<1>8. CASE DiscoveryJoined
  BY <1>8 DEF DiscoveryJoined, JoinCall
<1>9. CASE Returned
  BY <1>9 DEF Returned, GiveBack
<1>10. CASE Dropped
  BY <1>10 DEF Dropped, Abandon
<1>11. CASE Kernel
  BY <1>11 DEF Kernel
<1>12. CASE PollTicks
  BY <1>12 DEF PollTicks
<1>13. CASE PollStores
  <2>1. /\ UNCHANGED <<readerVars, ghostVars>>
        /\ StoreMeasurement("poll") /\ "poll" \in Measurers
    BY <1>13 DEF PollStores, Measurers
  <2>2. /\ counters'.begin_read = counters.begin_read
        /\ counters'.end_read >= counters.end_read /\ counters'.end_read \in Nat
    BY <2>1, StoreType DEF Counters
  <2>3. stage = "closing" =>
           /\ counters'.mem # NoBounds
           /\ boundary.mem \in counters'.mem[1] .. counters'.mem[2]
    BY <1>0, <2>1, StoreType, UpdateEncloses
  <2> QED BY <1>0, <2>1, <2>2, <2>3
<1>14. CASE PollFails
  BY <1>14 DEF PollFails
<1>15. CASE PollStops
  BY <1>15 DEF PollStops
<1>16. CASE DiscoveryCollects
  BY <1>16 DEF DiscoveryCollects
<1>17. CASE DiscoveryStores
  BY <1>17 DEF DiscoveryStores
<1>18. CASE DiscoveryStops
  BY <1>18 DEF DiscoveryStops
<1>19. ASSUME NEW a \in Measurers, NEW p \in Processes, ReadProc(a, p)
       PROVE  BoundaryInv'
  BY <1>19 DEF ReadProc
<1>20. CASE UNCHANGED vars
  BY <1>20 DEF vars
<1> QED BY <1>1, <1>2, <1>3, <1>4, <1>5, <1>6, <1>7, <1>8, <1>9, <1>10, <1>11,
           <1>12, <1>13, <1>14, <1>15, <1>16, <1>17, <1>18, <1>19, <1>20
        DEF Next, ProfilerCalls, Background, Tasks, Finished

-----------------------------------------------------------------------------
(* The bytes that were read                                                *)
-----------------------------------------------------------------------------

(***************************************************************************)
(* The bytes that the processes of a set have read, each a pair of its     *)
(* reader and its number: their sum is a cardinality.                      *)
(***************************************************************************)
BytesOf(f, S) == UNION {{q} \X (1 .. f[q].io) : q \in S}

Bytes(f, S) == Cardinality(BytesOf(f, S))

(* A pair is among the bytes when its reader read as many. *)
LEMMA BytesElements ==
    ASSUME NEW f, NEW S, NEW x
    PROVE  x \in BytesOf(f, S) <=>
              \E q \in S : \E i \in 1 .. f[q].io : x = <<q, i>>
  BY DEF BytesOf

(* Nobody reads nothing, and fewer processes read less. *)
LEMMA BytesSubset ==
    ASSUME NEW f, NEW S, IsFiniteSet(BytesOf(f, S)), NEW T \in SUBSET S
    PROVE  /\ IsFiniteSet(BytesOf(f, T))
           /\ Bytes(f, T) \in Nat /\ Bytes(f, S) \in Nat
           /\ Bytes(f, T) <= Bytes(f, S)
           /\ Bytes(f, {}) = 0
<1>1. BytesOf(f, T) \subseteq BytesOf(f, S)
  BY DEF BytesOf
<1>2. BytesOf(f, {}) = {}
  BY DEF BytesOf
<1> QED BY <1>1, <1>2, FS_Subset, FS_CardinalityType, FS_EmptySet DEF Bytes

(* The bytes depend on what the processes of the set have read. *)
LEMMA BytesSame ==
    ASSUME NEW f, NEW g, NEW S, \A q \in S : f[q].io = g[q].io
    PROVE  BytesOf(f, S) = BytesOf(g, S)
  BY DEF BytesOf

(* A process that has read nothing adds nothing. *)
LEMMA BytesNew ==
    ASSUME NEW f, NEW S, NEW p, f[p].io = 0
    PROVE  BytesOf(f, S) = BytesOf(f, S \ {p})
<1>1. \A i \in 1 .. f[p].io : FALSE
  OBVIOUS
<1>2. ASSUME NEW x \in BytesOf(f, S)
      PROVE  x \in BytesOf(f, S \ {p})
  <2>1. PICK q \in S : \E i \in 1 .. f[q].io : x = <<q, i>>
    BY <1>2, BytesElements
  <2>2. q \in S \ {p}
    BY <1>1, <2>1
  <2> QED BY <2>1, <2>2, BytesElements
<1>3. BytesOf(f, S \ {p}) \subseteq BytesOf(f, S)
  BY DEF BytesOf
<1> QED BY <1>2, <1>3

(* The bytes of a set are those of one of its processes and of the others. *)
LEMMA BytesSplit ==
    ASSUME NEW f, NEW S, IsFiniteSet(BytesOf(f, S)), NEW p \in S, f[p].io \in Nat
    PROVE  Bytes(f, S) = f[p].io + Bytes(f, S \ {p})
<1> DEFINE mine   == {p} \X (1 .. f[p].io)
           others == BytesOf(f, S \ {p})
<1>1. IsFiniteSet(1 .. f[p].io) /\ Cardinality(1 .. f[p].io) = f[p].io
  <2> DEFINE n == f[p].io
  <2>1. 1 \in Int /\ n \in Int /\ n >= 0
    OBVIOUS
  <2> HIDE DEF n
  <2>2. /\ IsFiniteSet(1 .. n)
        /\ Cardinality(1 .. n) = IF 1 > n THEN 0 ELSE n - 1 + 1
    BY <2>1, FS_Interval, Zenon
  <2>3. Cardinality(1 .. n) = n
    BY <2>1, <2>2
  <2> QED BY <2>2, <2>3 DEF n
<1>2. IsFiniteSet({p}) /\ Cardinality({p}) = 1
  BY FS_Singleton
<1>3. IsFiniteSet(mine) /\ Cardinality(mine) = f[p].io
  <2>1. /\ IsFiniteSet(mine)
        /\ Cardinality(mine) = Cardinality({p}) * Cardinality(1 .. f[p].io)
    BY <1>1, <1>2, FS_Product, Zenon
  <2> QED BY <1>1, <1>2, <2>1
<1>4. IsFiniteSet(others) /\ Cardinality(others) \in Nat
  BY BytesSubset DEF Bytes
<1>5. BytesOf(f, S) = mine \cup others
  <2>1. ASSUME NEW x \in BytesOf(f, S)
        PROVE  x \in mine \cup others
    <3>1. PICK q \in S : \E i \in 1 .. f[q].io : x = <<q, i>>
      BY <2>1, BytesElements
    <3>2. CASE q = p
      BY <3>1, <3>2
    <3>3. CASE q # p
      <4>1. q \in S \ {p}
        BY <3>3
      <4> QED BY <3>1, <4>1, BytesElements
    <3> QED BY <3>2, <3>3
  <2>2. mine \subseteq BytesOf(f, S) /\ others \subseteq BytesOf(f, S)
    BY DEF BytesOf
  <2> QED BY <2>1, <2>2
<1>6. mine \cap others = {}
  <2>1. ASSUME NEW x \in others PROVE x \notin mine
    <3>1. PICK q \in S \ {p} : \E i \in 1 .. f[q].io : x = <<q, i>>
      BY <2>1, BytesElements
    <3> QED BY <3>1
  <2> QED BY <2>1
<1> HIDE DEF mine, others
<1>7. Cardinality(mine \cup others)
         = Cardinality(mine) + Cardinality(others) - Cardinality(mine \cap others)
  BY <1>3, <1>4, FS_Union
<1>8. Cardinality(mine \cap others) = 0
  BY <1>6, FS_EmptySet
<1> QED BY <1>3, <1>4, <1>5, <1>7, <1>8 DEF Bytes, others

(* A process that reads a byte adds one at most. *)
LEMMA BytesRead ==
    ASSUME NEW f, NEW g, NEW S, IsFiniteSet(BytesOf(f, S)), NEW p,
           f[p].io \in Nat, g[p].io = f[p].io + 1,
           \A q \in S \ {p} : g[q].io = f[q].io
    PROVE  IsFiniteSet(BytesOf(g, S)) /\ Bytes(g, S) <= Bytes(f, S) + 1
<1> DEFINE new == <<p, f[p].io + 1>>
           more == BytesOf(f, S) \cup {new}
<1>1. BytesOf(g, S) \subseteq more
  <2>1. ASSUME NEW x \in BytesOf(g, S)
        PROVE  x \in more
    <3>1. PICK q \in S : \E i \in 1 .. g[q].io : x = <<q, i>>
      BY <2>1, BytesElements
    <3>2. PICK i \in 1 .. g[q].io : x = <<q, i>>
      BY <3>1
    <3>3. CASE q # p
      BY <3>2, <3>3, BytesElements
    <3>4. CASE q = p /\ i = f[p].io + 1
      BY <3>2, <3>4
    <3>5. CASE q = p /\ i # f[p].io + 1
      <4>1. i \in 1 .. f[q].io
        BY <3>2, <3>5
      <4> QED BY <3>2, <4>1, BytesElements
    <3> QED BY <3>3, <3>4, <3>5
  <2> QED BY <2>1
<1>2. /\ IsFiniteSet(more)
      /\ Cardinality(more) = IF new \in BytesOf(f, S)
                             THEN Bytes(f, S) ELSE Bytes(f, S) + 1
  BY FS_AddElement DEF Bytes
<1>3. Bytes(f, S) \in Nat
  BY FS_CardinalityType DEF Bytes
<1> HIDE DEF more, new
<1>4. IsFiniteSet(BytesOf(g, S)) /\ Bytes(g, S) <= Cardinality(more)
  BY <1>1, <1>2, FS_Subset DEF Bytes
<1>5. Bytes(g, S) \in Nat
  BY <1>4, FS_CardinalityType DEF Bytes
<1> QED BY <1>2, <1>3, <1>4, <1>5

(***************************************************************************)
(* In a first run in which no child has exited, no measurement has added   *)
(* up, with what it may still read, more than the processes have read.  In *)
(* a later run the counters go on from the run before.                     *)
(***************************************************************************)
Left(a) == Bytes(processes, measurement[a].pids \cap DOMAIN processes)

ReadAndLeft(a) == measurement[a].io + Left(a)

Accounted ==
    /\ counters.end_read <= spent
    /\ IsFiniteSet(BytesOf(processes, DOMAIN processes))
    /\ Bytes(processes, DOMAIN processes) <= spent
    /\ \A a \in Measurers : ReadAndLeft(a) <= spent

IoInv ==
    /\ run = 0 \/ (run = 1 /\ stage = "ready") => counters.end_read = 0
    /\ run <= 1 /\ reaped = {} => Accounted

(* What there is to add up are numbers. *)
LEMMA AccountedTypes ==
    ASSUME TypeInv, Accounted
    PROVE  /\ Bytes(processes, DOMAIN processes) \in Nat
           /\ \A q \in DOMAIN processes : processes[q].io \in Nat
           /\ \A a \in Measurers : measurement[a].io \in Nat /\ Left(a) \in Nat
           /\ counters.end_read \in Nat /\ spent \in Nat
<1>1. ASSUME NEW S \in SUBSET DOMAIN processes
      PROVE  /\ Bytes(processes, DOMAIN processes) \in Nat
             /\ Bytes(processes, S) \in Nat
  BY BytesSubset DEF Accounted
<1>2. \A q \in DOMAIN processes : processes[q].io \in Nat
  BY DEF TypeInv, Snapshots
<1>3. \A a \in Measurers : measurement[a].io \in Nat
  BY DEF TypeInv, MeasurementRecords
<1>4. counters.end_read \in Nat /\ spent \in Nat
  BY DEF TypeInv, Counters
<1> QED BY <1>1, <1>2, <1>3, <1>4 DEF Left

(* Nothing that is accounted for changes. *)
LEMMA AccountedFrame ==
    ASSUME Accounted, UNCHANGED <<processes, spent, measurement>>,
           counters'.end_read = counters.end_read
    PROVE  Accounted'
  BY DEF Accounted, ReadAndLeft, Left

(* Init has read nothing. *)
LEMMA InitIo == Init => IoInv
<1> SUFFICES ASSUME Init PROVE IoInv
  OBVIOUS
<1>1. /\ processes = <<>> /\ spent = 0 /\ counters.end_read = 0
      /\ \A a \in Measurers : measurement[a].io = 0 /\ measurement[a].pids = {}
  BY DEF Init, Nothing, Idle
<1>2. DOMAIN processes = {}
  BY <1>1
<1>3. BytesOf(processes, {}) = {}
  BY DEF BytesOf
<1>4. IsFiniteSet(BytesOf(processes, {})) /\ Bytes(processes, {}) = 0
  BY <1>3, FS_EmptySet DEF Bytes
<1>5. \A a \in Measurers : ReadAndLeft(a) = 0
  BY <1>1, <1>2, <1>4 DEF ReadAndLeft, Left
<1> QED BY <1>1, <1>2, <1>4, <1>5 DEF IoInv, Accounted

(* A command that was just spawned has read nothing. *)
LEMMA SpawnAccounted ==
    ASSUME TypeInv, TaskInv, IoInv, InitSource, run <= 1
    PROVE  Accounted'
<1>1. /\ stage = "ready" /\ spent' = 0 /\ UNCHANGED <<run, counters, measurement>>
      /\ DOMAIN processes' = {Root} /\ processes'[Root].io = 0
  BY DEF InitSource, InitCall
<1>2. run = 1
  BY <1>1, ProcfsBoundsAssumption DEF TaskInv, TypeInv
<1>3. counters'.end_read = 0
  BY <1>1, <1>2 DEF IoInv
<1>4. \A a \in Measurers : measurement'[a].io = 0 /\ measurement'[a].pids = {}
  BY <1>1 DEF TaskInv, Running, Idle
<1>5. BytesOf(processes', {Root}) = {} /\ BytesOf(processes', {}) = {}
  <2>1. BytesOf(processes', {}) = {}
    BY DEF BytesOf
  <2>2. BytesOf(processes', {Root}) = BytesOf(processes', {Root} \ {Root})
    BY <1>1, BytesNew
  <2>3. {Root} \ {Root} = {}
    OBVIOUS
  <2> QED BY <2>1, <2>2, <2>3
<1>6. /\ IsFiniteSet(BytesOf(processes', {Root}))
      /\ Bytes(processes', {Root}) = 0 /\ Bytes(processes', {}) = 0
  BY <1>5, FS_EmptySet DEF Bytes
<1>7. \A a \in Measurers : ReadAndLeft(a)' = 0
  BY <1>4, <1>6 DEF ReadAndLeft, Left
<1> QED BY <1>1, <1>3, <1>6, <1>7 DEF Accounted

(* A measurement that begins has all of what it will read left. *)
LEMMA CopyAccounted ==
    ASSUME TypeInv, Accounted, NEW a \in Measurers, CopyPids(a),
           UNCHANGED <<processes, spent, counters>>
    PROVE  Accounted'
<1>1. ReadAndLeft(a)' <= spent
  <2> DEFINE S == detected_processes \cap DOMAIN processes
  <2>1. measurement'[a].pids = detected_processes /\ measurement'[a].io = 0
    BY CopyType
  <2>2. ReadAndLeft(a)' = 0 + Bytes(processes, S)
    BY <2>1 DEF ReadAndLeft, Left
  <2>3. S \in SUBSET DOMAIN processes
    OBVIOUS
  <2> HIDE DEF S
  <2>4. /\ Bytes(processes, S) \in Nat
        /\ Bytes(processes, S) <= Bytes(processes, DOMAIN processes)
    BY <2>3, BytesSubset DEF Accounted
  <2> QED BY <2>2, <2>4, AccountedTypes DEF Accounted
<1>2. \A b \in Measurers \ {a} : ReadAndLeft(b)' = ReadAndLeft(b)
  BY CopyType DEF ReadAndLeft, Left
<1> QED BY <1>1, <1>2 DEF Accounted

(* A measurement that stops has nothing left. *)
LEMMA IdleAccounted ==
    ASSUME TypeInv, Accounted, NEW a \in Measurers,
           measurement' = [measurement EXCEPT ![a] = Idle],
           UNCHANGED <<processes, spent>>, counters'.end_read <= spent
    PROVE  Accounted'
<1>1. ReadAndLeft(a)' = 0 + Bytes(processes, {})
  <2>1. measurement'[a].pids = {} /\ measurement'[a].io = 0
    BY IdleType DEF Idle
  <2>2. measurement'[a].pids \cap DOMAIN processes = {}
    BY <2>1
  <2> QED BY <2>1, <2>2 DEF ReadAndLeft, Left
<1>2. Bytes(processes, {}) = 0
  BY BytesSubset DEF Accounted
<1>3. ReadAndLeft(a)' <= spent
  BY <1>1, <1>2, AccountedTypes
<1>4. \A b \in Measurers \ {a} : ReadAndLeft(b)' = ReadAndLeft(b)
  BY IdleType DEF ReadAndLeft, Left
<1> QED BY <1>3, <1>4 DEF Accounted

(* A measurement that is stored has read no more than there was. *)
LEMMA StoreAccounted ==
    ASSUME TypeInv, Accounted, NEW a \in Measurers, StoreMeasurement(a),
           UNCHANGED <<processes, spent>>
    PROVE  Accounted'
<1>1. measurement[a].io <= spent
  BY AccountedTypes DEF Accounted, ReadAndLeft
<1>2. counters'.end_read <= spent
  BY <1>1, StoreType DEF Accounted
<1> QED BY <1>2, IdleAccounted DEF StoreMeasurement

(* What is read of a process is not left any more. *)
LEMMA ReadAccounted ==
    ASSUME TypeInv, Accounted, NEW a \in Measurers, NEW p \in Processes,
           ReadProc(a, p)
    PROVE  Accounted'
<1>1. UNCHANGED <<processes, spent, counters>> /\ p \in measurement[a].pids
  BY DEF ReadProc, kernelVars
<1> DEFINE S == measurement[a].pids \cap DOMAIN processes
           T == measurement'[a].pids \cap DOMAIN processes
<1>2. T = S \ {p} /\ S \in SUBSET DOMAIN processes
  BY ReadType
<1>3. Left(a) = Bytes(processes, S) /\ Left(a)' = Bytes(processes, T)
  BY <1>1 DEF Left
<1>4. ReadAndLeft(a)' = ReadAndLeft(a)
  <2>1. CASE p \in DOMAIN processes
    <3>1. p \in S
      BY <1>1, <2>1
    <3>2. processes[p].io \in Nat /\ measurement[a].io \in Nat
      BY <2>1, AccountedTypes
    <3>3. measurement'[a].io = measurement[a].io + processes[p].io
      BY <2>1, ReadType
    <3> HIDE DEF S, T
    <3>4. IsFiniteSet(BytesOf(processes, S))
      BY <1>2, BytesSubset DEF Accounted
    <3>5. Bytes(processes, S) = processes[p].io + Bytes(processes, S \ {p})
      BY <3>1, <3>2, <3>4, BytesSplit
    <3>6. Bytes(processes, T) \in Nat
      BY <1>2, BytesSubset DEF Accounted
    <3> QED BY <1>2, <1>3, <3>2, <3>3, <3>5, <3>6 DEF ReadAndLeft
  <2>2. CASE p \notin DOMAIN processes
    <3>1. T = S /\ measurement'[a].io = measurement[a].io
      BY <1>2, <2>2, ReadType
    <3> QED BY <1>3, <3>1 DEF ReadAndLeft
  <2> QED BY <2>1, <2>2
<1>5. \A b \in Measurers \ {a} : ReadAndLeft(b)' = ReadAndLeft(b)
  BY <1>1, ReadType DEF ReadAndLeft, Left
<1> QED BY <1>1, <1>4, <1>5 DEF Accounted

(***************************************************************************)
(* A byte more is read, and accounted for once in what anybody has left; a *)
(* new child has read nothing; without the command there is less to read.  *)
(***************************************************************************)
LEMMA KernelAccounted ==
    ASSUME TypeInv, Accounted, NEW p \in Processes,
           Reads(p) \/ Forks(p) \/ Exits(p), reaped' = {},
           UNCHANGED <<counters, measurement>>
    PROVE  Accounted'
<1> DEFINE D == DOMAIN processes
           P(a) == measurement[a].pids
<1>1. \A a \in Measurers : ReadAndLeft(a)'
         = measurement[a].io + Bytes(processes', P(a) \cap DOMAIN processes')
  BY DEF ReadAndLeft, Left
<1>2. IsFiniteSet(BytesOf(processes, D))
  BY DEF Accounted
<1>3. CASE Reads(p)
  <2>1. /\ p \in D /\ spent' = spent + 1 /\ DOMAIN processes' = D
        /\ processes[p].io \in Nat /\ processes'[p].io = processes[p].io + 1
        /\ \A q \in D \ {p} : processes'[q].io = processes[q].io
    BY <1>3 DEF Reads, TypeInv, Snapshots
  <2>2. ASSUME NEW S \in SUBSET D
        PROVE  /\ IsFiniteSet(BytesOf(processes', S))
               /\ Bytes(processes', S) <= Bytes(processes, S) + 1
               /\ Bytes(processes', S) \in Nat /\ Bytes(processes, S) \in Nat
    <3>1. IsFiniteSet(BytesOf(processes, S)) /\ Bytes(processes, S) \in Nat
      BY <1>2, BytesSubset
    <3>2. \A q \in S \ {p} : processes'[q].io = processes[q].io
      BY <2>1
    <3>3. /\ IsFiniteSet(BytesOf(processes', S))
          /\ Bytes(processes', S) <= Bytes(processes, S) + 1
      BY <2>1, <3>1, <3>2, BytesRead
    <3> QED BY <3>1, <3>3, FS_CardinalityType DEF Bytes
  <2>3. counters'.end_read <= spent'
    BY <2>1, AccountedTypes DEF Accounted
  <2>4. /\ IsFiniteSet(BytesOf(processes', D))
        /\ Bytes(processes', D) <= spent'
    BY <2>1, <2>2, AccountedTypes DEF Accounted
  <2>5. ASSUME NEW a \in Measurers
        PROVE  ReadAndLeft(a)' <= spent'
    <3> DEFINE S == P(a) \cap D
    <3>1. ReadAndLeft(a)' = measurement[a].io + Bytes(processes', S)
      BY <1>1, <2>1
    <3>2. measurement[a].io + Bytes(processes, S) <= spent
      BY DEF Accounted, ReadAndLeft, Left
    <3>3. S \in SUBSET D
      OBVIOUS
    <3> HIDE DEF S, D, P
    <3>4. /\ Bytes(processes', S) <= Bytes(processes, S) + 1
          /\ Bytes(processes', S) \in Nat /\ Bytes(processes, S) \in Nat
      BY <2>2, <3>3
    <3>5. measurement[a].io \in Nat /\ spent \in Nat
      BY AccountedTypes
    <3> QED BY <2>1, <3>1, <3>2, <3>4, <3>5
  <2> QED BY <2>1, <2>3, <2>4, <2>5 DEF Accounted
<1>4. CASE Forks(p)
  <2>1. /\ p \notin D /\ spent' = spent /\ DOMAIN processes' = D \cup {p}
        /\ processes'[p].io = 0 /\ \A q \in D : processes'[q] = processes[q]
    BY <1>4 DEF Forks
  <2>2. ASSUME NEW S \in SUBSET (D \cup {p})
        PROVE  BytesOf(processes', S) = BytesOf(processes, S \cap D)
    <3>1. S \ {p} = S \cap D
      BY <2>1
    <3>2. BytesOf(processes', S) = BytesOf(processes', S \ {p})
      BY <2>1, BytesNew
    <3>3. \A q \in S \cap D : processes'[q].io = processes[q].io
      BY <2>1
    <3>4. BytesOf(processes', S \cap D) = BytesOf(processes, S \cap D)
      BY <3>3, BytesSame
    <3> QED BY <3>1, <3>2, <3>4
  <2>3. BytesOf(processes', D \cup {p}) = BytesOf(processes, D)
    <3>1. (D \cup {p}) \cap D = D
      OBVIOUS
    <3> QED BY <2>2, <3>1
  <2>4. ASSUME NEW a \in Measurers
        PROVE  ReadAndLeft(a)' = ReadAndLeft(a)
    <3>1. (P(a) \cap (D \cup {p})) \cap D = P(a) \cap D
      OBVIOUS
    <3>2. BytesOf(processes', P(a) \cap (D \cup {p})) = BytesOf(processes, P(a) \cap D)
      BY <2>2, <3>1
    <3> QED BY <1>1, <2>1, <3>2 DEF ReadAndLeft, Left, Bytes
  <2> QED BY <2>1, <2>3, <2>4 DEF Accounted, Bytes
<1>5. CASE Exits(p)
  <2>1. p = Root
    BY <1>5 DEF Exits
  <2>2. /\ spent' = spent /\ DOMAIN processes' = D \ {p}
        /\ \A q \in D \ {p} : processes'[q] = processes[q]
    BY <1>5, <2>1 DEF Exits
  <2>3. ASSUME NEW S \in SUBSET D
        PROVE  /\ IsFiniteSet(BytesOf(processes', S \ {p}))
               /\ Bytes(processes', S \ {p}) <= Bytes(processes, S)
               /\ Bytes(processes', S \ {p}) \in Nat /\ Bytes(processes, S) \in Nat
    <3>1. \A q \in S \ {p} : processes'[q].io = processes[q].io
      BY <2>2
    <3>2. BytesOf(processes', S \ {p}) = BytesOf(processes, S \ {p})
      BY <3>1, BytesSame
    <3>3. IsFiniteSet(BytesOf(processes, S)) /\ S \ {p} \in SUBSET S
      BY <1>2, BytesSubset
    <3>4. /\ IsFiniteSet(BytesOf(processes, S \ {p}))
          /\ Bytes(processes, S \ {p}) <= Bytes(processes, S)
          /\ Bytes(processes, S \ {p}) \in Nat /\ Bytes(processes, S) \in Nat
      BY <3>3, BytesSubset
    <3> QED BY <3>2, <3>4 DEF Bytes
  <2>4. /\ IsFiniteSet(BytesOf(processes', D \ {p}))
        /\ Bytes(processes', D \ {p}) <= spent'
    BY <2>2, <2>3, AccountedTypes DEF Accounted
  <2>5. ASSUME NEW a \in Measurers
        PROVE  ReadAndLeft(a)' <= spent'
    <3> DEFINE S == P(a) \cap D
    <3>1. P(a) \cap (D \ {p}) = S \ {p} /\ S \in SUBSET D
      OBVIOUS
    <3>2. ReadAndLeft(a)' = measurement[a].io + Bytes(processes', S \ {p})
      BY <1>1, <2>2, <3>1
    <3>3. measurement[a].io + Bytes(processes, S) <= spent
      BY DEF Accounted, ReadAndLeft, Left
    <3> HIDE DEF S, D, P
    <3>4. /\ Bytes(processes', S \ {p}) <= Bytes(processes, S)
          /\ Bytes(processes', S \ {p}) \in Nat /\ Bytes(processes, S) \in Nat
      BY <2>3, <3>1
    <3>5. measurement[a].io \in Nat /\ spent \in Nat
      BY AccountedTypes
    <3> QED BY <2>2, <3>2, <3>3, <3>4, <3>5
  <2> QED BY <2>2, <2>4, <2>5 DEF Accounted
<1> QED BY <1>3, <1>4, <1>5

(* Every step accounts for what is read. *)
LEMMA NextIo ==
    ASSUME TypeInv, TaskInv, IoInv, [Next]_vars
    PROVE  IoInv'
<1> USE DEF readerVars, kernelVars, pollingVars, discoveryVars, joinVars,
            ghostVars
<1>0. "worker" \in Measurers /\ "poll" \in Measurers
  BY DEF Measurers
<1>r. run \in Nat /\ (stage \in Running => run # 0 /\ stage # "ready")
  BY ProcfsBoundsAssumption DEF TypeInv, TaskInv, Running
<1>a. run <= 1 /\ reaped = {} => Accounted
  BY DEF IoInv
<1>1. CASE PreInit
  <2>1. /\ run' = run + 1 /\ UNCHANGED <<kernelVars, counters, measurement>>
    BY <1>1 DEF PreInit
  <2>2. run' <= 1 => run = 0 /\ counters.end_read = 0
    BY <1>r, <2>1 DEF IoInv
  <2>3. run' <= 1 /\ reaped' = {} => Accounted'
    BY <1>a, <1>r, <2>1, <2>2, AccountedFrame
  <2> QED BY <1>r, <2>1, <2>2, <2>3 DEF IoInv
<1>2. CASE InitSource
  <2>1. run' = run /\ run # 0 /\ stage' # "ready"
    BY <1>2 DEF InitSource, InitCall, TaskInv
  <2>2. run' <= 1 => Accounted'
    BY <1>2, <2>1, SpawnAccounted
  <2> QED BY <2>1, <2>2 DEF IoInv
<1> DEFINE Runs == run' = run /\ run # 0 /\ stage' # "ready"
<1>3. CASE MeasureBegins
  <2>1. Runs /\ CopyPids("worker") /\ UNCHANGED <<processes, spent, reaped, counters>>
    BY <1>3, <1>r DEF MeasureBegins, Running
  <2> QED BY <1>0, <1>a, <2>1, CopyAccounted DEF IoInv
<1>4. CASE Measure
  <2>1. /\ Runs /\ StoreMeasurement("worker")
        /\ UNCHANGED <<processes, spent, reaped>>
    BY <1>4, <1>r DEF Measure, MeasureCall, Running
  <2> QED BY <1>0, <1>a, <2>1, StoreAccounted DEF IoInv
<1>5. CASE Retrieve
  <2>1. /\ Runs /\ UNCHANGED <<processes, spent, reaped, measurement>>
        /\ counters'.end_read = counters.end_read
    BY <1>5, <1>r DEF Retrieve, RetrieveCall, Running, CountersReset, TypeInv,
                      Counters
  <2> QED BY <1>a, <2>1, AccountedFrame DEF IoInv
<1>6. ASSUME UNCHANGED <<run, processes, spent, reaped, counters, measurement>>,
             stage' = "ready" => stage = "ready"
      PROVE  IoInv'
  BY <1>a, <1>6, AccountedFrame DEF IoInv
<1>7. CASE JoinBegins \/ PollJoined \/ DiscoveryJoined \/ Returned
  <2>1. UNCHANGED <<run, processes, spent, reaped, counters, measurement>>
    BY <1>7 DEF JoinBegins, PollJoined, DiscoveryJoined, Returned
  <2>2. stage' = "ready" => stage = "ready"
    BY <1>7 DEF JoinBegins, PollJoined, DiscoveryJoined, Returned, Abandon,
                JoinCall, GiveBack
  <2> QED BY <1>6, <2>1, <2>2
<1>8. CASE PollStops \/ DiscoveryCollects \/ DiscoveryStores \/ DiscoveryStops
  <2>1. /\ UNCHANGED <<run, processes, spent, reaped, counters, measurement>>
        /\ stage' = stage
    BY <1>8 DEF PollStops, DiscoveryCollects, DiscoveryStores, DiscoveryStops
  <2> QED BY <1>6, <2>1
<1>9. CASE UNCHANGED vars
  BY <1>6, <1>9 DEF vars
<1>10. CASE Dropped
  <2>1. /\ UNCHANGED <<run, processes, spent, reaped, counters>>
        /\ measurement' = [measurement EXCEPT !["worker"] = Idle]
        /\ stage' # "ready"
    BY <1>10 DEF Dropped, Abandon
  <2>2. Accounted => Accounted'
    <3> SUFFICES ASSUME Accounted PROVE Accounted'
      OBVIOUS
    <3>1. counters'.end_read <= spent
      BY <2>1 DEF Accounted
    <3> QED BY <1>0, <2>1, <3>1, IdleAccounted
  <2> QED BY <1>a, <2>1, <2>2 DEF IoInv
<1>11. CASE Kernel /\ stage \in Running
  <2>1. PICK p \in Processes : Reads(p) \/ Forks(p) \/ Exits(p)
    BY <1>11 DEF Kernel
  <2>2. Runs /\ UNCHANGED <<counters, measurement>>
    BY <1>11, <1>r DEF Kernel
  <2>3. reaped' = {} => reaped = {}
    BY <2>1 DEF Reads, Forks, Exits
  <2>4. Accounted /\ reaped' = {} => Accounted'
    BY <2>1, <2>2, KernelAccounted
  <2> QED BY <1>a, <2>2, <2>3, <2>4 DEF IoInv
<1>12. CASE PollTicks /\ stage \in Running
  <2>1. Runs /\ CopyPids("poll") /\ UNCHANGED <<processes, spent, reaped, counters>>
    BY <1>12, <1>r DEF PollTicks
  <2> QED BY <1>0, <1>a, <2>1, CopyAccounted DEF IoInv
<1>13. CASE PollStores /\ stage \in Running
  <2>1. /\ Runs /\ StoreMeasurement("poll")
        /\ UNCHANGED <<processes, spent, reaped>>
    BY <1>13, <1>r DEF PollStores
  <2> QED BY <1>0, <1>a, <2>1, StoreAccounted DEF IoInv
<1>14. CASE PollFails /\ stage \in Running
  <2>1. /\ Runs /\ UNCHANGED <<processes, spent, reaped, counters>>
        /\ measurement' = [measurement EXCEPT !["poll"] = Idle]
    BY <1>14, <1>r DEF PollFails
  <2>2. Accounted => Accounted'
    <3> SUFFICES ASSUME Accounted PROVE Accounted'
      OBVIOUS
    <3>1. counters'.end_read <= spent
      BY <2>1 DEF Accounted
    <3> QED BY <1>0, <2>1, <3>1, IdleAccounted
  <2> QED BY <1>a, <2>1, <2>2 DEF IoInv
<1>15. ASSUME NEW a \in Measurers, NEW p \in Processes, ReadProc(a, p),
              stage \in Running
       PROVE  IoInv'
  <2>1. Runs /\ reaped' = reaped
    BY <1>15, <1>r DEF ReadProc
  <2>2. Accounted => Accounted'
    BY <1>15, ReadAccounted
  <2> QED BY <1>a, <2>1, <2>2 DEF IoInv
<1> QED BY <1>1, <1>2, <1>3, <1>4, <1>5, <1>7, <1>8, <1>9, <1>10, <1>11, <1>12,
           <1>13, <1>14, <1>15
        DEF Next, ProfilerCalls, Background, Tasks, Finished

-----------------------------------------------------------------------------
(* The theorems                                                            *)
-----------------------------------------------------------------------------

IInv == TypeInv /\ TaskInv /\ RootInv /\ BoundaryInv /\ IoInv

(***************************************************************************)
(* The inductive invariant holds in every behaviour.                       *)
(***************************************************************************)
THEOREM Invariance == Spec => []IInv
<1>1. Init => IInv
  BY InitType, InitTasks, InitRoot, InitBoundary, InitIo DEF IInv
<1>2. IInv /\ [Next]_vars => IInv'
  BY NextType, NextTasks, NextRoot, NextBoundary, NextIo DEF IInv
<1> QED BY <1>1, <1>2, PTL DEF Spec

(***************************************************************************)
(* The variables keep their types: among them, bounds that are ordered and *)
(* no measurement that is left over.                                       *)
(***************************************************************************)
THEOREM TypeCorrect == Spec => []TypeOK
<1>1. IInv => TypeOK
  <2> SUFFICES ASSUME IInv PROVE TypeOK
    OBVIOUS
  <2>1. TypeInv
    BY DEF IInv
  <2>2. ASSUME NEW a \in Measurers
        PROVE  /\ measurement[a].pids \cup measurement[a].present \subseteq Processes
               /\ ~ measurement[a].active => measurement[a] = Idle
    BY <2>1 DEF TypeInv, MeasurementRecords
  <2>3. /\ {counters.begin_read, counters.end_read} \subseteq Nat
        /\ counters.mem # NoBounds => counters.mem[1] <= counters.mem[2]
    BY <2>1 DEF TypeInv, Counters, Bounds
  <2> QED BY <2>1, <2>2, <2>3 DEF TypeInv, TypeOK
<1> QED BY <1>1, Invariance, PTL

(***************************************************************************)
(* While the source runs the command is among the processes to be measured *)
(* for as long as it lives, in whatever order measurements and discoveries *)
(* of any number of processes overwrite each other.                        *)
(***************************************************************************)
THEOREM RootIsDetected == Spec => []RootDetected
<1>1. IInv => RootDetected
  BY DEF IInv, RootInv, RootDetected
<1> QED BY <1>1, Invariance, PTL

(***************************************************************************)
(* What is reported of a phase encloses what its last boundary measured,   *)
(* the next phase begins no lower than that boundary, and in a first run   *)
(* in which no child exits no I/O is invented.                             *)
(***************************************************************************)
THEOREM PhaseIsBounded == Spec => []PhaseBounded
<1>1. IInv => PhaseBounded
  <2> SUFFICES ASSUME IInv PROVE PhaseBounded
    OBVIOUS
  <2>1. IoNotInvented
    BY DEF IInv, IoInv, Accounted, IoNotInvented
  <2> QED BY <2>1 DEF IInv, BoundaryInv, PhaseBounded
<1> QED BY <1>1, Invariance, PTL

=============================================================================
