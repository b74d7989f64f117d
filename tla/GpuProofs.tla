----------------------------- MODULE GpuProofs ------------------------------
(***************************************************************************)
(* Proofs about Gpu, for any levels of the memory and any bounds.  The     *)
(* invariant is built in layers: types, the calls and the polling task,    *)
(* what was read at a boundary, and the energy of the register.            *)
(***************************************************************************)
EXTENDS Gpu, TLAPS

-----------------------------------------------------------------------------
(* Operators                                                               *)
-----------------------------------------------------------------------------

Bounds == {b \in Levels \X Levels : b[1] <= b[2]}

(***************************************************************************)
(* Bounds that are updated enclose the new value and what they enclosed.   *)
(***************************************************************************)
LEMMA VramUpdateEncloses ==
    ASSUME NEW b \in Bounds \cup {NoBounds}, NEW v \in Levels
    PROVE  /\ VramUpdate(b, v) \in Bounds
           /\ VramUpdate(b, v) # NoBounds
           /\ v \in VramUpdate(b, v)[1] .. VramUpdate(b, v)[2]
           /\ b # NoBounds => \A w \in Levels : w \in b[1] .. b[2] =>
                  w \in VramUpdate(b, v)[1] .. VramUpdate(b, v)[2]
<1>1. Levels \subseteq Nat
  BY GpuAssumption
<1>2. ASSUME NEW x \in Nat, NEW y \in Nat
      PROVE  /\ Min({x, y}) = IF x <= y THEN x ELSE y
             /\ Max({x, y}) = IF x >= y THEN x ELSE y
  BY DEF Min, Max
<1>3. CASE b = NoBounds
  BY <1>1, <1>3 DEF VramUpdate, Bounds, NoBounds
<1>4. CASE b # NoBounds
  <2>1. b[1] \in Levels /\ b[2] \in Levels /\ b[1] <= b[2]
    BY <1>4 DEF Bounds
  <2> DEFINE lo == IF b[1] <= v THEN b[1] ELSE v
             hi == IF b[2] >= v THEN b[2] ELSE v
  <2>2. VramUpdate(b, v) = <<lo, hi>>
    BY <1>1, <1>2, <1>4, <2>1 DEF VramUpdate
  <2>3. v \in Nat /\ b[1] \in Nat /\ b[2] \in Nat
    BY <1>1, <2>1
  <2>4. lo \in Levels /\ hi \in Levels
    BY <2>1
  <2>5. lo <= v /\ v <= hi /\ lo <= b[1] /\ b[2] <= hi
    BY <2>3
  <2> HIDE DEF lo, hi
  <2>6. lo \in Nat /\ hi \in Nat
    BY <1>1, <2>4
  <2>7. <<lo, hi>> \in Bounds
    BY <2>3, <2>4, <2>5, <2>6 DEF Bounds
  <2>8. \A w \in Levels : w \in b[1] .. b[2] => w \in lo .. hi
    BY <2>3, <2>5, <2>6
  <2> QED BY <2>2, <2>3, <2>5, <2>6, <2>7, <2>8 DEF NoBounds
<1> QED BY <1>3, <1>4

-----------------------------------------------------------------------------
(* Types                                                                   *)
-----------------------------------------------------------------------------

Marks == [time : 0 .. MaxTime, vram : Levels]

\* Whatever the samples add up to.
Estimates == {ComputeEnergy(s) : s \in Seq(Samples)}

Reports == [energy  : Int \cup Estimates,
            vram    : Bounds \cup {NoBounds},
            samples : Seq(Samples)]

Flags == {energy_supported, cancelled, joining} \subseteq BOOLEAN

TypeInv ==
    /\ ReaderTypeOK
    /\ run \in 0 .. MaxRuns /\ now \in 0 .. MaxTime /\ vram \in Levels
    /\ energy_counter \in [begin : NotRead .. MaxTime, end : NotRead .. MaxTime]
    /\ vram_counter \in Bounds \cup {NoBounds}
    /\ power_counter \in Seq(Samples)
    /\ pending \in [Readers -> [vram  : Levels \cup {NotRead},
                                power : NotRead .. MaxTime]]
    /\ polling_task \in {"none", "waiting", "busy", "ended", "failed"}
    /\ marks \in Seq(Marks) /\ reported \in Seq(Reports)

(* Init has the types. *)
LEMMA InitType == Init => TypeInv
  BY GpuAssumption
     DEF Init, TypeInv, ReaderInit, ReaderTypeOK, Stages, Nothing,
         NotRead, NoBounds

(***************************************************************************)
(* Storing what a reader has read keeps the types, whoever reads.          *)
(***************************************************************************)
LEMMA StoreType ==
    ASSUME TypeInv, NEW r \in Readers, Store(r)
    PROVE  /\ energy_counter' = energy_counter
           /\ vram_counter' \in Bounds \cup {NoBounds}
           /\ power_counter' \in Seq(Samples)
           /\ pending' \in [Readers -> [vram  : Levels \cup {NotRead},
                                        power : NotRead .. MaxTime]]
<1> USE DEF TypeInv
<1> Samples' = Samples /\ Readers' = Readers /\ NotRead' = NotRead
  OBVIOUS
<1>0. pending[r] \in [vram : Levels \cup {NotRead}, power : NotRead .. MaxTime]
  OBVIOUS
<1>1. CASE StoreVram(r)
  <2>1. pending[r].vram \in Levels
    BY <1>0, <1>1 DEF StoreVram
  <2>2. vram_counter' \in Bounds
    BY <1>1, <2>1, VramUpdateEncloses DEF StoreVram
  <2> QED BY <1>0, <1>1, <2>2 DEF StoreVram
<1>2. CASE StorePower(r)
  <2>1. [timestamp |-> pending[r].power, by |-> r] \in Samples
    <3>1. pending[r].power \in NotRead .. MaxTime /\ pending[r].power # NotRead
      BY <1>0, <1>2 DEF StorePower
    <3> HIDE DEF TypeInv
    <3>2. pending[r].power \in 0 .. MaxTime
      BY <3>1, GpuAssumption DEF NotRead
    <3> QED BY <3>2 DEF Samples
  <2>2. power_counter' \in Seq(Samples)
    BY <1>2, <2>1 DEF StorePower
  <2>3. NotRead \in NotRead .. MaxTime
    BY GpuAssumption DEF NotRead
  <2>4. vram_counter \in Bounds \cup {NoBounds}
    OBVIOUS
  <2>5. pending' \in [Readers -> [vram  : Levels \cup {NotRead},
                                 power : NotRead .. MaxTime]]
    BY <1>0, <1>2, <2>3 DEF StorePower
  <2> QED BY <1>2, <2>2, <2>4, <2>5 DEF StorePower
<1> QED BY <1>1, <1>2 DEF Store

(* The energy of a phase is a number, or what the samples add up to. *)
LEMMA EnergyType ==
    ASSUME TypeInv
    PROVE  EnergyOf(energy_counter, power_counter) \in Int \cup Estimates
<1>1. ComputeEnergy(power_counter) \in Estimates
  BY DEF TypeInv, Estimates
<1>2. energy_counter.begin \in Int /\ energy_counter.end \in Int
  BY DEF TypeInv, NotRead
<1>3. EnergyDiff(energy_counter) \in Int
  BY <1>2 DEF EnergyDiff, NotRead
<1> QED BY <1>1, <1>3 DEF EnergyOf

(* What is read keeps the types. *)
LEMMA ReadType ==
    ASSUME TypeInv, NEW r \in Readers, ReadPolled(r)
    PROVE  pending' \in [Readers -> [vram  : Levels \cup {NotRead},
                                     power : NotRead .. MaxTime]]
<1>1. [vram |-> vram, power |-> IF energy_supported THEN NotRead ELSE now]
        \in [vram : Levels \cup {NotRead}, power : NotRead .. MaxTime]
  BY GpuAssumption DEF TypeInv, NotRead
<1> QED BY <1>1 DEF ReadPolled, TypeInv

(* Init has the types of the Boolean variables. *)
LEMMA InitFlags == Init => Flags
  BY Zenon DEF Init, Flags

(* Every step keeps the types of the Boolean variables. *)
LEMMA NextFlags == ASSUME Flags, [Next]_vars PROVE Flags'
<1> USE DEF Flags, deviceVars, taskVars
<1>1. CASE Device
  BY <1>1, Zenon DEF Device
<1>2. CASE ProfilerCalls
  BY <1>2, Zenon
     DEF ProfilerCalls, PreInit, InitSource, MeasureReads, MeasureStores,
         MeasureEnds, Retrieve, JoinBegins, PollJoined, PollJoinFails, Returned,
         Dropped
<1>3. CASE PollingTask
  BY <1>3, Zenon DEF PollingTask
<1>4. CASE UNCHANGED vars
  BY <1>4, Zenon DEF vars
<1> QED BY <1>1, <1>2, <1>3, <1>4, Zenon DEF Next, Finished

(* Every step keeps the types of the other variables. *)
LEMMA NextType == ASSUME TypeInv, [Next]_vars PROVE TypeInv'
<1> USE DEF TypeInv, ReaderTypeOK, Stages, readerVars, deviceVars,
            counterVars, taskVars, ghostVars
<1> Bounds' = Bounds /\ Reports' = Reports /\ Marks' = Marks
    /\ Samples' = Samples /\ Readers' = Readers /\ NoBounds' = NoBounds
    /\ NotRead' = NotRead
  OBVIOUS
<1>1. CASE Device
  <2>1. now' \in 0 .. MaxTime /\ vram' \in Levels
    BY <1>1, GpuAssumption DEF Device
  <2> QED BY <1>1, <2>1 DEF Device
<1>2. CASE PreInit
  <2>1. run' \in 0 .. MaxRuns
    BY <1>2, GpuAssumption DEF PreInit
  <2>2. ReaderTypeOK'
    BY <1>2 DEF PreInit, PreInitCall
  <2>3. marks' \in Seq(Marks) /\ reported' \in Seq(Reports)
    BY <1>2 DEF PreInit
  <2> QED BY <1>2, <2>1, <2>2, <2>3 DEF PreInit
<1>11. CASE InitSource
  <2>1. /\ InitCall /\ polling_task' = "waiting"
        /\ UNCHANGED <<deviceVars, run, counterVars, pending, ghostVars>>
    BY <1>11, Zenon DEF InitSource
  <2> QED BY <2>1 DEF InitCall
<1>3. CASE MeasureReads
  <2>1. [time |-> now, vram |-> vram] \in Marks
    BY DEF Marks
  <2>2. marks' \in Seq(Marks)
    BY <1>3, <2>1 DEF MeasureReads
  <2> QED BY <1>3, <2>2, ReadType DEF MeasureReads, Readers
<1>4. CASE MeasureStores
  BY <1>4, StoreType DEF MeasureStores, Readers, Bounds
<1>5. CASE MeasureEnds
  <2>1. marks # <<>> => Last(marks) \in Marks
    BY DEF Last
  <2>2. marks # <<>>
    BY <1>5 DEF MeasureEnds, Measuring
  <2>3. energy_counter' \in [begin : NotRead .. MaxTime, end : NotRead .. MaxTime]
    <3>1. Last(marks).time \in NotRead .. MaxTime
      BY <2>1, <2>2, GpuAssumption DEF Marks, NotRead
    <3> QED BY <1>5, <3>1 DEF MeasureEnds, EnergyUpdate
  <2> QED BY <1>5, <2>3 DEF MeasureEnds, MeasureCall
<1>6. CASE Retrieve
  <2> DEFINE e == EnergyOf(energy_counter, power_counter)
  <2>1. e \in Int \cup Estimates
    BY EnergyType
  <2> HIDE DEF e
  <2>2. [energy |-> e, vram |-> vram_counter, samples |-> power_counter]
          \in Reports
    BY <2>1 DEF Reports
  <2>3. reported' \in Seq(Reports)
    BY <1>6, <2>2 DEF Retrieve, e
  <2>4. energy_counter' \in [begin : NotRead .. MaxTime, end : NotRead .. MaxTime]
    BY <1>6 DEF Retrieve, EnergyReset
  <2> QED BY <1>6, <2>3, <2>4 DEF Retrieve, RetrieveCall
<1>7. CASE JoinBegins \/ PollJoined \/ PollJoinFails
  BY <1>7 DEF JoinBegins, PollJoined, PollJoinFails, JoinCall, Abandon
<1>8. CASE Returned \/ Dropped
  BY <1>8 DEF Returned, Dropped, GiveBack, Abandon
<1>9. CASE PollingTask
  <2>0. "poller" \in Readers
    BY DEF Readers
  <2>1. CASE PollReads
    BY <1>9, <2>0, <2>1, ReadType DEF PollingTask, PollReads
  <2>2. CASE PollStores
    BY <1>9, <2>0, <2>2, StoreType DEF PollingTask, PollStores, Bounds
  <2>3. CASE PollFails
    <3>1. Nothing \in [vram : Levels \cup {NotRead}, power : NotRead .. MaxTime]
      BY GpuAssumption DEF Nothing, NotRead
    <3>2. UNCHANGED <<readerVars, deviceVars, run, ghostVars>>
      BY <1>9, Zenon DEF PollingTask
    <3> QED BY <2>3, <3>1, <3>2 DEF PollFails
  <2>4. CASE PollDone \/ PollStops
    <3>1. /\ polling_task' = "waiting" \/ polling_task' = "ended"
          /\ UNCHANGED <<pending, counterVars>>
      BY <2>4, Zenon DEF PollDone, PollStops
    <3>2. UNCHANGED <<readerVars, deviceVars, run, ghostVars>>
      BY <1>9, Zenon DEF PollingTask
    <3> QED BY <3>1, <3>2
  <2> QED BY <1>9, <2>1, <2>2, <2>3, <2>4 DEF PollingTask
<1>10. CASE UNCHANGED vars
  BY <1>10 DEF vars
<1> QED
  BY <1>1, <1>2, <1>3, <1>4, <1>5, <1>6, <1>7, <1>8, <1>9, <1>10,
     <1>11 DEF Next, ProfilerCalls, Finished

-----------------------------------------------------------------------------
(* The calls and the polling task                                          *)
-----------------------------------------------------------------------------

(***************************************************************************)
(* There is a mark for each measurement and a report for each phase of a   *)
(* run; what a reader holds it holds inside measure() or inside a poll;    *)
(* and join() leaves no poll behind.                                       *)
(***************************************************************************)
CallsInv ==
    /\ stage \notin {"idle", "dropped"} => run >= 1
    /\ stage \in {"idle", "ready", "started", "dropped"} => taken = 0 /\ closed = 0
    /\ stage = "open" => taken = closed + 1
    /\ stage = "closing" => taken = closed + 2
    /\ stage \in {"started", "open"} =>
          Len(marks) = taken \/ Len(marks) = taken + 1
    /\ stage \in {"ready", "closing", "joined"} => Len(marks) = taken
    /\ stage \notin {"idle", "dropped"} => Len(reported) = closed
    /\ Len(reported) > 0 => Len(marks) > Len(reported)

TaskInv ==
    /\ joining => stage \in Running /\ Len(marks) = taken
    /\ pending["worker"] # Nothing /\ stage # "dropped" =>
          stage \in {"started", "open"} /\ Len(marks) = taken + 1
    /\ pending["poller"] # Nothing => polling_task = "busy"
    /\ NoLateStore

(* Before the first run nothing is marked or reported. *)
LEMMA InitCalls == Init => CallsInv
  BY DEF Init, ReaderInit, CallsInv

(* Marks and reports go along with the calls. *)
LEMMA NextCalls == ASSUME TypeInv, TaskInv, CallsInv, [Next]_vars PROVE CallsInv'
<1> USE DEF CallsInv, TypeInv, ReaderTypeOK, Stages, readerVars, ghostVars
<1>1. CASE Device
  BY <1>1 DEF Device
<1>2. CASE PreInit
  BY <1>2 DEF PreInit, PreInitCall
<1>3. CASE InitSource
  <2>1. InitCall /\ UNCHANGED <<run, ghostVars>>
    BY <1>3, Zenon DEF InitSource
  <2> QED BY <2>1 DEF InitCall
<1>4. CASE MeasureReads
  <2>1. [time |-> now, vram |-> vram] \in Marks
    BY DEF Marks
  <2>2. Len(marks') = Len(marks) + 1
    BY <1>4, <2>1 DEF MeasureReads
  <2>3. /\ stage \in {"started", "open"} /\ ~ (Len(marks) > taken)
        /\ UNCHANGED <<readerVars, run, reported>>
    BY <1>4 DEF MeasureReads, Measuring
  <2> QED BY <2>2, <2>3
<1>5. CASE MeasureStores
  BY <1>5 DEF MeasureStores
<1>6. CASE MeasureEnds
  BY <1>6 DEF MeasureEnds, MeasureCall, Measuring
<1>7. CASE Retrieve
  <2>1. /\ Len(reported') = Len(reported) + 1
        /\ RetrieveCall /\ UNCHANGED <<run, marks>>
    <3> DEFINE e == EnergyOf(energy_counter, power_counter)
    <3>1. e \in Int \cup Estimates
      BY EnergyType
    <3> HIDE DEF e
    <3>2. [energy |-> e, vram |-> vram_counter, samples |-> power_counter]
            \in Reports
      BY <3>1 DEF Reports
    <3> QED BY <1>7, <3>2 DEF Retrieve, e
  <2> QED BY <2>1 DEF RetrieveCall
<1>8. CASE JoinBegins
  BY <1>8 DEF JoinBegins
<1>9. CASE PollJoined
  <2>1. joining /\ JoinCall /\ UNCHANGED <<run, ghostVars>>
    BY <1>9 DEF PollJoined
  <2>2. Len(marks) = taken
    BY <2>1 DEF TaskInv
  <2> QED BY <2>1, <2>2 DEF JoinCall
<1>10. CASE PollJoinFails \/ Dropped
  <2>1. Abandon /\ UNCHANGED <<run, ghostVars>>
    BY <1>10 DEF PollJoinFails, Dropped
  <2> QED BY <2>1 DEF Abandon
<1>11. CASE Returned
  BY <1>11 DEF Returned, GiveBack
<1>12. CASE PollingTask
  BY <1>12 DEF PollingTask
<1>13. CASE UNCHANGED vars
  BY <1>13 DEF vars
<1> QED
  BY <1>1, <1>2, <1>3, <1>4, <1>5, <1>6, <1>7, <1>8, <1>9, <1>10, <1>11,
     <1>12, <1>13 DEF Next, ProfilerCalls, Finished

(* No polling task runs before the first run. *)
LEMMA InitTask == Init => TaskInv
  BY DEF Init, ReaderInit, TaskInv, NoLateStore, Readers

(* A polling task lives from init() to join() or the end of the run. *)
LEMMA NextTask ==
    ASSUME TypeInv, CallsInv, TaskInv, [Next]_vars PROVE TaskInv'
<1> USE DEF TaskInv, NoLateStore, Running, readerVars, ghostVars, taskVars
<1> "worker" \in Readers /\ "poller" \in Readers
  BY DEF Readers
<1> Nothing' = Nothing /\ Running' = Running
  OBVIOUS
<1>1. CASE Device
  BY <1>1 DEF Device
<1>2. CASE PreInit
  BY <1>2 DEF PreInit, PreInitCall, CallsInv
<1>3. CASE InitSource
  BY <1>3 DEF InitSource, InitCall, CallsInv
<1>4. CASE MeasureReads
  <2>1. Len(marks') = Len(marks) + 1
    <3>1. [time |-> now, vram |-> vram] \in Marks
      BY DEF Marks, TypeInv
    <3> QED BY <1>4, <3>1 DEF MeasureReads, TypeInv
  <2>2. pending'["poller"] = pending["poller"]
    BY <1>4 DEF MeasureReads, ReadPolled, TypeInv
  <2>3. Len(marks) = taken
    BY <1>4 DEF MeasureReads, Measuring, CallsInv, TypeInv, ReaderTypeOK
  <2> QED BY <1>4, <2>1, <2>2, <2>3 DEF MeasureReads
<1>5. CASE MeasureStores
  <2>1. pending["worker"] # Nothing
    BY <1>5 DEF MeasureStores, Store, StoreVram, StorePower, Nothing
  <2>2. pending'["poller"] = pending["poller"]
    BY <1>5 DEF MeasureStores, Store, StoreVram, StorePower, TypeInv
  <2> QED BY <1>5, <2>1, <2>2 DEF MeasureStores
<1>6. CASE MeasureEnds
  <2>1. ~ joining
    BY <1>6 DEF MeasureEnds, Measuring, TypeInv, ReaderTypeOK
  <2> QED BY <1>6, <2>1 DEF MeasureEnds, MeasureCall
<1>7. CASE Retrieve
  BY <1>7 DEF Retrieve, RetrieveCall
<1>8. CASE JoinBegins
  <2>1. Len(marks) = taken
    BY <1>8 DEF JoinBegins, Measuring, CallsInv, TypeInv, ReaderTypeOK
  <2> QED BY <1>8, <2>1 DEF JoinBegins
<1>9. CASE PollJoined
  BY <1>9 DEF PollJoined, JoinCall
<1>10. CASE PollJoinFails \/ Dropped
  BY <1>10 DEF PollJoinFails, Dropped, Abandon
<1>11. CASE Returned
  BY <1>11 DEF Returned, GiveBack
<1>12. CASE PollingTask
  <2>1. /\ UNCHANGED <<readerVars, joining, ghostVars>>
    BY <1>12, Zenon DEF PollingTask
  <2>2. pending'["worker"] = pending["worker"]
    BY <1>12 DEF PollingTask, PollReads, PollStores, PollDone, PollFails,
                 PollStops, ReadPolled, Store, StoreVram, StorePower, TypeInv
  <2>3. pending'["poller"] # Nothing => polling_task' = "busy"
    <3>1. CASE PollReads \/ PollDone \/ PollStops
      BY <3>1 DEF PollReads, PollDone, PollStops
    <3>2. CASE PollStores
      BY <3>2 DEF PollStores, Store, StoreVram, StorePower, Nothing
    <3>3. CASE PollFails
      BY <3>3 DEF PollFails, TypeInv
    <3> QED BY <1>12, <3>1, <3>2, <3>3 DEF PollingTask
  <2>4. stage \in {"joined", "idle", "ready"} =>
           polling_task' \in {"none", "ended"} /\ pending'["poller"] = Nothing
    <3> SUFFICES ASSUME stage \in {"joined", "idle", "ready"} PROVE FALSE
      BY DEF PollingTask
    <3>1. polling_task \in {"none", "ended"} /\ pending["poller"] = Nothing
      OBVIOUS
    <3> QED BY <1>12, <3>1 DEF PollingTask, PollReads, PollStores, PollDone,
                PollFails, PollStops, Store, StoreVram, StorePower, Nothing
  <2> QED BY <2>1, <2>2, <2>3, <2>4
<1>13. CASE UNCHANGED vars
  BY <1>13 DEF vars
<1> QED
  BY <1>1, <1>2, <1>3, <1>4, <1>5, <1>6, <1>7, <1>8, <1>9, <1>10, <1>11,
     <1>12, <1>13 DEF Next, ProfilerCalls, Finished

-----------------------------------------------------------------------------
(* What was read at a boundary                                             *)
-----------------------------------------------------------------------------

\* The last measurement is under way, or it closed a phase.
AtBoundary ==
    \/ stage \in {"started", "open"} /\ Len(marks) = taken + 1
    \/ stage = "closing"

Encloses(bounds, value) ==
    bounds # NoBounds /\ value \in bounds[1] .. bounds[2]

(***************************************************************************)
(* What the worker read at the boundary it holds still, or it was stored.  *)
(***************************************************************************)
BoundaryStored ==
    AtBoundary =>
        LET m == marks[Len(marks)]
            p == pending["worker"]
        IN  /\ IF p.vram = NotRead THEN Encloses(vram_counter, m.vram)
               ELSE p.vram = m.vram
            /\ energy_supported \/
               IF p.power = NotRead
               THEN [timestamp |-> m.time, by |-> "worker"] \in Range(power_counter)
               ELSE p.power = m.time

BoundaryInv == BoundaryStored /\ BoundarySampled

(* Nothing was read before the first run. *)
LEMMA InitBoundary == Init => BoundaryInv
  BY DEF Init, ReaderInit, BoundaryInv, BoundaryStored, AtBoundary,
         BoundarySampled

(***************************************************************************)
(* Nothing that is stored undoes what was.                                 *)
(***************************************************************************)
LEMMA StoreKeeps ==
    ASSUME TypeInv, NEW r \in Readers, Store(r), NEW v \in Levels, NEW t
    PROVE  /\ Encloses(vram_counter, v) => Encloses(vram_counter', v)
           /\ t \in Range(power_counter) => t \in Range(power_counter')
<1>0. pending[r] \in [vram : Levels \cup {NotRead}, power : NotRead .. MaxTime]
  BY DEF TypeInv
<1>1. CASE StoreVram(r)
  <2>1. pending[r].vram \in Levels
    BY <1>0, <1>1 DEF StoreVram
  <2>2. Encloses(vram_counter, v) => Encloses(vram_counter', v)
    BY <1>1, <2>1, VramUpdateEncloses DEF StoreVram, TypeInv, Encloses
  <2> QED BY <1>1, <2>2 DEF StoreVram
<1>2. CASE StorePower(r)
  <2>1. [timestamp |-> pending[r].power, by |-> r] \in Samples
    <3>1. pending[r].power \in NotRead .. MaxTime /\ pending[r].power # NotRead
      BY <1>0, <1>2 DEF StorePower
    <3> HIDE DEF TypeInv
    <3>2. pending[r].power \in 0 .. MaxTime
      BY <3>1, GpuAssumption DEF NotRead
    <3> QED BY <3>2 DEF Samples
  <2>2. \A i \in DOMAIN power_counter :
           i \in DOMAIN power_counter' /\ power_counter'[i] = power_counter[i]
    BY <1>2, <2>1 DEF StorePower, TypeInv
  <2>3. t \in Range(power_counter) => t \in Range(power_counter')
    BY <2>2 DEF Range
  <2> QED BY <1>2, <2>3 DEF StorePower
<1> QED BY <1>1, <1>2 DEF Store

(***************************************************************************)
(* What the worker stores is among what is kept of the phase.              *)
(***************************************************************************)
LEMMA StoreAdds ==
    ASSUME TypeInv, NEW r \in Readers
    PROVE  /\ StoreVram(r) => Encloses(vram_counter', pending[r].vram)
           /\ StorePower(r) =>
                 [timestamp |-> pending[r].power, by |-> r]
                     \in Range(power_counter')
<1>0. pending[r] \in [vram : Levels \cup {NotRead}, power : NotRead .. MaxTime]
  BY DEF TypeInv
<1>1. ASSUME StoreVram(r)
      PROVE  Encloses(vram_counter', pending[r].vram)
  <2>1. pending[r].vram \in Levels
    BY <1>0, <1>1 DEF StoreVram
  <2> QED BY <1>1, <2>1, VramUpdateEncloses DEF StoreVram, TypeInv, Encloses
<1>2. ASSUME StorePower(r)
      PROVE  [timestamp |-> pending[r].power, by |-> r] \in Range(power_counter')
  <2> DEFINE t == [timestamp |-> pending[r].power, by |-> r]
  <2>1. t \in Samples
    BY <1>0, <1>2, GpuAssumption DEF StorePower, Samples, NotRead
  <2>2. power_counter' = Append(power_counter, t) /\ power_counter \in Seq(Samples)
    BY <1>2 DEF StorePower, TypeInv
  <2> HIDE DEF t
  <2>3. /\ Len(power_counter) + 1 \in DOMAIN power_counter'
        /\ power_counter'[Len(power_counter) + 1] = t
    BY <2>1, <2>2
  <2>4. t \in Range(power_counter')
    BY <2>3 DEF Range
  <2> QED BY <2>4 DEF t
<1> QED BY <1>1, <1>2

(* What was read at a boundary is stored, or about to be. *)
LEMMA NextBoundaryStored ==
    ASSUME TypeInv, CallsInv, TaskInv, BoundaryStored, [Next]_vars
    PROVE  BoundaryStored'
<1> USE DEF BoundaryStored, AtBoundary, readerVars, deviceVars, counterVars,
            taskVars, ghostVars
<1> "worker" \in Readers /\ "poller" \in Readers
  BY DEF Readers
<1>0. marks # <<>> => marks[Len(marks)] \in Marks
  BY DEF TypeInv
<1>1. CASE Device
  BY <1>1 DEF Device, Encloses
<1>2. CASE PreInit
  BY <1>2 DEF PreInit, PreInitCall
<1>3. CASE InitSource
  BY <1>3 DEF InitSource, InitCall, CallsInv
<1>4. CASE MeasureReads
  <2> DEFINE m == [time |-> now, vram |-> vram]
  <2>1. m \in Marks
    BY DEF Marks, TypeInv
  <2>2. marks' = Append(marks, m) /\ marks \in Seq(Marks)
    BY <1>4 DEF MeasureReads, TypeInv
  <2>3. marks'[Len(marks')] = m
    BY <2>1, <2>2
  <2>4. pending'["worker"] =
           [vram |-> vram, power |-> IF energy_supported THEN NotRead ELSE now]
    BY <1>4 DEF MeasureReads, ReadPolled, TypeInv
  <2>5. vram # NotRead /\ now # NotRead
    <3>1. vram \in Levels /\ now \in 0 .. MaxTime
      BY DEF TypeInv
    <3> HIDE DEF TypeInv, CallsInv, TaskInv, BoundaryStored
    <3> QED BY <3>1, GpuAssumption DEF NotRead
  <2>6. energy_supported' = energy_supported
    BY <1>4, Zenon DEF MeasureReads
  <2> QED BY <2>3, <2>4, <2>5, <2>6
<1>5. CASE MeasureStores
  <2>1. /\ Store("worker")
        /\ UNCHANGED <<readerVars, energy_supported, marks>>
    BY <1>5 DEF MeasureStores
  <2>2. pending["worker"] # Nothing
    BY <2>1 DEF Store, StoreVram, StorePower, Nothing
  <2> SUFFICES ASSUME AtBoundary PROVE BoundaryStored'
    BY <2>1
  <2>3. marks[Len(marks)] \in Marks
    <3>1. stage # "dropped"
      OBVIOUS
    <3> QED BY <1>0, <2>2, <3>1 DEF TaskInv, TypeInv, ReaderTypeOK
  <2> DEFINE m == marks[Len(marks)]
             p == pending["worker"]
             t == [timestamp |-> m.time, by |-> "worker"]
  <2>4. m.vram \in Levels /\ m' = m
    BY <2>1, <2>3 DEF Marks
  <2>5. p \in [vram : Levels \cup {NotRead}, power : NotRead .. MaxTime]
    BY DEF TypeInv
  <2>6. CASE StoreVram("worker")
    <3>1. p.vram # NotRead /\ p.vram = m.vram
      BY <2>6 DEF StoreVram
    <3>2. pending'["worker"].vram = NotRead /\ pending'["worker"].power = p.power
      BY <2>5, <2>6 DEF StoreVram, TypeInv
    <3>3. Encloses(vram_counter', m.vram)
      BY <2>6, <3>1, StoreAdds
    <3>4. power_counter' = power_counter
      BY <2>6 DEF StoreVram
    <3> QED BY <2>1, <2>4, <3>2, <3>3, <3>4 DEF Encloses
  <2>7. CASE StorePower("worker")
    <3>1. p.vram = NotRead /\ p.power # NotRead
      BY <2>7 DEF StorePower
    <3>2. /\ pending'["worker"].vram = NotRead
          /\ pending'["worker"].power = NotRead
      BY <2>5, <2>7, <3>1 DEF StorePower, TypeInv
    <3>3. Encloses(vram_counter', m.vram)
      BY <2>7, <3>1 DEF StorePower
    <3>4. energy_supported \/ t \in Range(power_counter')
      BY <2>7, <3>1, StoreAdds
    <3> QED BY <2>1, <2>4, <3>2, <3>3, <3>4 DEF Encloses
  <2> QED BY <2>1, <2>6, <2>7 DEF Store
<1>6. CASE MeasureEnds
  <2>1. /\ pending["worker"] = Nothing
        /\ AtBoundary /\ MeasureCall /\ Len(marks) = taken + 1
        /\ UNCHANGED <<energy_supported, marks, vram_counter, power_counter, pending>>
    BY <1>6 DEF MeasureEnds, Measuring, MeasureCall, CallsInv, TypeInv, ReaderTypeOK
  <2> QED BY <2>1 DEF Encloses
<1>7. CASE Retrieve
  BY <1>7 DEF Retrieve, RetrieveCall, CallsInv, TypeInv, ReaderTypeOK
<1>8. CASE JoinBegins
  BY <1>8 DEF JoinBegins, Encloses
<1>9. CASE PollJoined \/ PollJoinFails \/ Dropped
  BY <1>9 DEF PollJoined, PollJoinFails, Dropped, JoinCall, Abandon
<1>10. CASE Returned
  BY <1>10 DEF Returned, GiveBack
<1>11. CASE PollingTask
  <2>1. /\ UNCHANGED <<readerVars, energy_supported, marks>>
    BY <1>11, Zenon DEF PollingTask
  <2>2. pending'["worker"] = pending["worker"]
    BY <1>11 DEF PollingTask, PollReads, PollStores, PollDone, PollFails,
                 PollStops, ReadPolled, Store, StoreVram, StorePower, TypeInv
  <2>3. CASE PollStores
    <3> SUFFICES ASSUME AtBoundary PROVE BoundaryStored'
      BY <2>1
    <3>1. marks[Len(marks)] \in Marks
      BY <1>0 DEF CallsInv, TypeInv, ReaderTypeOK
    <3>2. marks[Len(marks)].vram \in Levels
      BY <3>1 DEF Marks
    <3>3. Store("poller")
      BY <2>3 DEF PollStores
    <3> QED BY <2>1, <2>2, <3>2, <3>3, StoreKeeps DEF Encloses
  <2>4. CASE PollReads \/ PollDone \/ PollFails \/ PollStops
    <3>1. UNCHANGED counterVars
      BY <2>4, Zenon DEF PollReads, PollDone, PollFails, PollStops
    <3> QED BY <2>1, <2>2, <3>1 DEF Encloses
  <2> QED BY <1>11, <2>3, <2>4 DEF PollingTask
<1>12. CASE UNCHANGED vars
  BY <1>12 DEF vars, Encloses
<1> QED
  BY <1>1, <1>2, <1>3, <1>4, <1>5, <1>6, <1>7, <1>8, <1>9, <1>10, <1>11,
     <1>12 DEF Next, ProfilerCalls, Finished

\* What BoundarySampled says of one phase.
Sampled(report, mark) ==
    /\ Encloses(report.vram, mark.vram)
    /\ ~ energy_supported =>
          [timestamp |-> mark.time, by |-> "worker"] \in Range(report.samples)

(* A phase that is retrieved has what was stored at its boundary. *)
LEMMA NextBoundarySampled ==
    ASSUME TypeInv, CallsInv, TaskInv, BoundaryInv, [Next]_vars
    PROVE  BoundarySampled'
<1> USE DEF readerVars, deviceVars, counterVars, taskVars, ghostVars
<1>1. BoundarySampled <=>
         \A k \in 1 .. Len(reported) : Sampled(reported[k], marks[k + 1])
  BY DEF BoundarySampled, Sampled, Encloses
<1>2. BoundarySampled' <=>
         \A k \in 1 .. Len(reported') : Sampled(reported[k], marks[k + 1])'
  BY DEF BoundarySampled, Sampled, Encloses
<1>3. energy_supported' = energy_supported
  BY Zenon DEF Next, vars, Device, ProfilerCalls, PollingTask, Finished, PreInit,
       InitSource, MeasureReads, MeasureStores, MeasureEnds, Retrieve,
       JoinBegins, PollJoined, PollJoinFails, Returned, Dropped
<1>4. CASE UNCHANGED ghostVars
  BY <1>1, <1>2, <1>3, <1>4 DEF BoundaryInv, Sampled, Encloses
<1>5. CASE PreInit
  BY <1>2, <1>5 DEF PreInit
<1>6. CASE MeasureReads
  <2> DEFINE m == [time |-> now, vram |-> vram]
  <2>1. m \in Marks
    BY DEF Marks, TypeInv
  <2>2. marks' = Append(marks, m) /\ marks \in Seq(Marks) /\ reported' = reported
    BY <1>6 DEF MeasureReads, TypeInv
  <2>3. \A k \in 1 .. Len(reported) : marks'[k + 1] = marks[k + 1]
    BY <2>1, <2>2 DEF CallsInv, TypeInv
  <2> QED BY <1>1, <1>2, <1>3, <2>2, <2>3 DEF BoundaryInv, Sampled, Encloses
<1>7. CASE Retrieve
  <2> DEFINE e == EnergyOf(energy_counter, power_counter)
             new == [energy |-> e, vram |-> vram_counter, samples |-> power_counter]
  <2>1. e \in Int \cup Estimates
    BY EnergyType
  <2> HIDE DEF e
  <2>2. new \in Reports
    BY <2>1 DEF Reports, TypeInv
  <2>3. /\ reported' = Append(reported, new) /\ reported \in Seq(Reports)
        /\ marks' = marks
    BY <1>7 DEF Retrieve, TypeInv, e
  <2>4. Len(reported) = closed /\ closed \in Nat /\ Len(marks) = closed + 2
    BY <1>7 DEF Retrieve, RetrieveCall, CallsInv, TypeInv, ReaderTypeOK
  <2>5. Sampled(new, marks[closed + 2])
    <3>1. pending["worker"] = Nothing /\ AtBoundary
      BY <1>7 DEF Retrieve, RetrieveCall, TaskInv, AtBoundary
    <3>2. /\ pending["worker"].vram = NotRead
          /\ pending["worker"].power = NotRead
      BY <3>1 DEF Nothing
    <3> QED BY <2>4, <3>1, <3>2 DEF BoundaryInv, BoundaryStored, Sampled
  <2> HIDE DEF new
  <2>6. /\ Len(reported') = closed + 1
        /\ \A k \in 1 .. closed + 1 :
              reported'[k] = IF k = closed + 1 THEN new ELSE reported[k]
    BY <2>2, <2>3, <2>4
  <2>7. ASSUME NEW k \in 1 .. closed + 1
        PROVE  Sampled(reported'[k], marks[k + 1])
    BY <1>1, <2>4, <2>5, <2>6 DEF BoundaryInv
  <2> QED BY <1>2, <1>3, <2>3, <2>4, <2>6, <2>7 DEF Sampled, Encloses
<1> QED
  BY <1>4, <1>5, <1>6, <1>7
     DEF Next, vars, Device, ProfilerCalls, PollingTask, Finished, InitSource,
         MeasureStores, MeasureEnds, JoinBegins, PollJoined, PollJoinFails,
         Returned, Dropped

-----------------------------------------------------------------------------
(* The energy of the register                                              *)
-----------------------------------------------------------------------------

(***************************************************************************)
(* A mark is a time at which the register was read.                        *)
(***************************************************************************)
LEMMA MarkTime ==
    ASSUME TypeInv, NEW k \in 1 .. Len(marks)
    PROVE  marks[k].time \in Nat /\ marks[k].time # NotRead
<1>1. marks[k] \in Marks
  BY DEF TypeInv
<1> QED BY <1>1, GpuAssumption DEF Marks, NotRead

MarksOrdered ==
    \A i \in 1 .. Len(marks) :
        /\ marks[i].time <= now
        /\ \A j \in i .. Len(marks) : marks[i].time <= marks[j].time

(***************************************************************************)
(* The energy counter holds what was read at the boundary that opened the  *)
(* phase and, when it is closed, at the one that closed it.  In the first  *)
(* phase of a later run its begin is what the run before left.             *)
(***************************************************************************)
RegisterInv ==
    /\ run = 0 \/ (run = 1 /\ stage \in {"ready", "started"}) =>
          energy_counter.begin = NotRead
    /\ stage \in {"open", "closing"} => energy_counter.begin # NotRead
    /\ stage = "closing" => energy_counter.end = marks[closed + 2].time
    /\ stage \in {"open", "closing"} /\ (closed > 0 \/ run = 1) =>
          energy_counter.begin = marks[closed + 1].time

EnergyInv ==
    /\ MarksOrdered
    /\ energy_supported => RegisterInv
    /\ EnergyPhaseExact

(* Before the first run no energy is read. *)
LEMMA InitEnergy == Init => EnergyInv
  BY DEF Init, ReaderInit, EnergyInv, MarksOrdered, RegisterInv, EnergyPhaseExact

(* Marks are made one after the other. *)
LEMMA NextOrdered ==
    ASSUME TypeInv, MarksOrdered, [Next]_vars PROVE MarksOrdered'
<1> USE DEF readerVars, deviceVars, counterVars, taskVars, ghostVars
<1>1. CASE Device
  <2>1. marks' = marks /\ now' = now + 1 /\ now \in Int
        /\ \A i \in 1 .. Len(marks) : marks[i].time \in Int
    BY <1>1, MarkTime DEF Device, TypeInv
  <2> QED BY <2>1 DEF MarksOrdered
<1>2. CASE PreInit
  BY <1>2 DEF PreInit, MarksOrdered
<1>3. CASE MeasureReads
  <2> DEFINE m == [time |-> now, vram |-> vram]
  <2>1. m \in Marks /\ m.time = now /\ now \in Int
    BY DEF Marks, TypeInv
  <2>2. marks' = Append(marks, m) /\ marks \in Seq(Marks) /\ now' = now
    BY <1>3 DEF MeasureReads, TypeInv
  <2> HIDE DEF m
  <2>3. Len(marks') = Len(marks) + 1 /\ Len(marks) \in Nat
    BY <2>1, <2>2
  <2>4. \A k \in 1 .. Len(marks) + 1 :
           marks'[k] = IF k = Len(marks) + 1 THEN m ELSE marks[k]
    BY <2>1, <2>2
  <2> QED BY <2>1, <2>2, <2>3, <2>4 DEF MarksOrdered
<1>4. CASE UNCHANGED <<now, marks>>
  BY <1>4 DEF MarksOrdered
<1> QED
  BY <1>1, <1>2, <1>3, <1>4
     DEF Next, vars, ProfilerCalls, PollingTask, Finished, InitSource,
         MeasureStores, MeasureEnds, Retrieve, JoinBegins, PollJoined,
         PollJoinFails, Returned, Dropped

(* The register of a phase begins at its first mark and ends at its last. *)
LEMMA NextRegister ==
    ASSUME TypeInv, CallsInv, TaskInv, RegisterInv, energy_supported, [Next]_vars
    PROVE  RegisterInv'
<1> USE DEF RegisterInv, CallsInv, TypeInv, ReaderTypeOK, readerVars, deviceVars,
            counterVars, taskVars, ghostVars
<1>1. CASE PreInit
  BY <1>1 DEF PreInit, PreInitCall
<1>2. CASE InitSource
  <2>1. InitCall /\ UNCHANGED <<run, energy_counter, marks>>
    BY <1>2, Zenon DEF InitSource
  <2> QED BY <2>1 DEF InitCall
<1>3. CASE MeasureReads
  <2> DEFINE m == [time |-> now, vram |-> vram]
  <2>1. m \in Marks
    BY DEF Marks
  <2>2. marks' = Append(marks, m) /\ marks \in Seq(Marks)
    BY <1>3 DEF MeasureReads
  <2>3. \A k \in 1 .. Len(marks) : marks'[k] = marks[k]
    <3> HIDE DEF TypeInv, m
    <3> QED BY <2>1, <2>2
  <2>4. /\ stage \in {"started", "open"}
        /\ UNCHANGED <<readerVars, run, energy_counter>>
    BY <1>3 DEF MeasureReads
  <2>5. stage = "open" => marks'[closed + 1] = marks[closed + 1]
    <3>1. stage = "open" => closed + 1 \in 1 .. Len(marks)
      BY <2>2
    <3> HIDE DEF TypeInv, CallsInv, TaskInv, RegisterInv, m
    <3> QED BY <2>3, <3>1
  <2> HIDE DEF TypeInv
  <2> QED BY <2>4, <2>5
<1>4. CASE MeasureEnds
  <2>1. /\ MeasureCall /\ Len(marks) = taken + 1
        /\ UNCHANGED <<run, marks>>
    BY <1>4 DEF MeasureEnds, MeasureCall, Measuring
  <2>2. energy_counter' = EnergyUpdate(energy_counter, marks[taken + 1].time)
    BY <1>4, <2>1 DEF MeasureEnds, Last
  <2>3. marks[taken + 1].time \in Nat /\ marks[taken + 1].time # NotRead
    BY <2>1, MarkTime
  <2>4. CASE energy_counter.begin = NotRead
    <3>1. energy_counter'.begin = marks[taken + 1].time
      BY <2>2, <2>4 DEF EnergyUpdate
    <3>2. stage = "started" /\ stage' = "open" /\ closed' = 0 /\ taken = 0
      BY <2>1, <2>4 DEF MeasureCall
    <3> QED BY <2>1, <2>3, <3>1, <3>2
  <2>5. CASE energy_counter.begin # NotRead
    <3>1. /\ energy_counter'.begin = energy_counter.begin
          /\ energy_counter'.end = marks[taken + 1].time
      BY <2>2, <2>5 DEF EnergyUpdate
    <3>2. CASE stage = "started"
      <4>1. stage' = "open" /\ closed' = 0 /\ run # 1 /\ run # 0
        BY <2>1, <2>5, <3>2 DEF MeasureCall
      <4> QED BY <2>1, <2>5, <3>1, <4>1
    <3>3. CASE stage = "open"
      <4>1. stage' = "closing" /\ closed' = closed /\ taken = closed + 1
        BY <2>1, <3>3 DEF MeasureCall
      <4> QED BY <2>1, <2>5, <3>1, <3>3, <4>1
    <3> QED BY <2>1, <3>2, <3>3 DEF MeasureCall
  <2> QED BY <2>4, <2>5
<1>5. CASE Retrieve
  <2>1. /\ RetrieveCall /\ energy_counter' = EnergyReset(energy_counter)
        /\ UNCHANGED <<run, marks>>
    BY <1>5 DEF Retrieve
  <2>2. energy_counter'.begin = marks[closed + 2].time
    BY <2>1 DEF RetrieveCall, EnergyReset
  <2>3. marks[closed + 2].time \in Nat /\ marks[closed + 2].time # NotRead
    BY <2>1, MarkTime DEF RetrieveCall
  <2>4. run # 0
    BY <2>1 DEF RetrieveCall
  <2> QED BY <2>1, <2>2, <2>3, <2>4 DEF RetrieveCall
<1>6. CASE PollJoined
  BY <1>6 DEF PollJoined, JoinCall
<1>7. CASE PollJoinFails \/ Dropped
  BY <1>7 DEF PollJoinFails, Dropped, Abandon
<1>8. CASE Returned
  BY <1>8 DEF Returned, GiveBack
<1>9. CASE Device \/ MeasureStores \/ JoinBegins \/ PollingTask \/ UNCHANGED vars
  <2>1. UNCHANGED <<readerVars, run, energy_counter, marks>>
    <3>1. CASE Device \/ MeasureStores \/ JoinBegins \/ UNCHANGED vars
      BY <3>1, Zenon DEF Device, MeasureStores, Store, StoreVram, StorePower,
                  JoinBegins, vars
    <3>2. CASE PollingTask
      BY <3>2, Zenon DEF PollingTask, PollReads, PollStores, PollDone, PollFails,
                  PollStops, Store, StoreVram, StorePower
    <3> QED BY <1>9, <3>1, <3>2
  <2> QED BY <2>1
<1> QED
  BY <1>1, <1>2, <1>3, <1>4, <1>5, <1>6, <1>7, <1>8, <1>9
     DEF Next, ProfilerCalls, Finished

(* What is retrieved is what the register has told between two marks. *)
LEMMA NextEnergyExact ==
    ASSUME TypeInv, CallsInv, EnergyInv, [Next]_vars PROVE EnergyPhaseExact'
<1> USE DEF readerVars, deviceVars, counterVars, taskVars, ghostVars
<1>1. energy_supported' = energy_supported
  BY Zenon DEF Next, vars, Device, ProfilerCalls, PollingTask, Finished, PreInit,
       InitSource, MeasureReads, MeasureStores, MeasureEnds, Retrieve,
       JoinBegins, PollJoined, PollJoinFails, Returned, Dropped
<1> SUFFICES ASSUME energy_supported,
                    NEW k \in 1 .. Len(reported'), k > 1 \/ run' = 1
             PROVE  reported'[k].energy = marks'[k + 1].time - marks'[k].time
  BY <1>1 DEF EnergyPhaseExact
<1>2. CASE UNCHANGED <<run, ghostVars>>
  BY <1>2 DEF EnergyInv, EnergyPhaseExact
<1>3. CASE PreInit
  BY <1>3 DEF PreInit
<1>4. CASE MeasureReads
  <2> DEFINE m == [time |-> now, vram |-> vram]
  <2>1. m \in Marks
    BY DEF Marks, TypeInv
  <2>2. /\ marks' = Append(marks, m) /\ marks \in Seq(Marks)
        /\ UNCHANGED <<run, reported>>
    BY <1>4 DEF MeasureReads, TypeInv
  <2>3. marks'[k + 1] = marks[k + 1] /\ marks'[k] = marks[k]
    BY <2>1, <2>2 DEF CallsInv, TypeInv
  <2> QED BY <2>2, <2>3 DEF EnergyInv, EnergyPhaseExact
<1>5. CASE Retrieve
  <2> DEFINE e == EnergyOf(energy_counter, power_counter)
             new == [energy |-> e, vram |-> vram_counter, samples |-> power_counter]
  <2>1. e \in Int \cup Estimates
    BY EnergyType
  <2> HIDE DEF e
  <2>2. new \in Reports /\ new.energy = e
    BY <2>1 DEF Reports, TypeInv
  <2>3. /\ reported' = Append(reported, new) /\ reported \in Seq(Reports)
        /\ marks' = marks /\ run' = run
    BY <1>5 DEF Retrieve, TypeInv, e
  <2>4. /\ stage = "closing"
        /\ Len(reported) = closed /\ closed \in Nat /\ Len(marks) = closed + 2
    BY <1>5 DEF Retrieve, RetrieveCall, CallsInv, TypeInv, ReaderTypeOK
  <2>5. run = 1 \/ closed > 0 => e = marks[closed + 2].time - marks[closed + 1].time
    <3> SUFFICES ASSUME run = 1 \/ closed > 0
                 PROVE  e = marks[closed + 2].time - marks[closed + 1].time
      OBVIOUS
    <3>1. /\ energy_counter.begin = marks[closed + 1].time
          /\ energy_counter.end = marks[closed + 2].time
      BY <2>4 DEF EnergyInv, RegisterInv
    <3>2. marks[closed + 1].time <= marks[closed + 2].time
      BY <2>4 DEF EnergyInv, MarksOrdered
    <3>3. marks[closed + 1].time \in Nat /\ marks[closed + 2].time \in Nat
      BY <2>4, MarkTime
    <3>4. e = EnergyDiff(energy_counter)
      BY DEF e, EnergyOf
    <3> QED BY <3>1, <3>2, <3>3, <3>4 DEF EnergyDiff, NotRead
  <2> HIDE DEF new
  <2>6. /\ Len(reported') = closed + 1
        /\ \A i \in 1 .. closed + 1 :
              reported'[i] = IF i = closed + 1 THEN new ELSE reported[i]
    BY <2>2, <2>3, <2>4
  <2>7. CASE k = closed + 1
    <3>1. reported'[k].energy = e /\ (run = 1 \/ closed > 0)
      BY <2>2, <2>3, <2>4, <2>6, <2>7
    <3> QED BY <2>3, <2>4, <2>5, <2>7, <3>1
  <2>8. CASE k # closed + 1
    <3>1. k \in 1 .. Len(reported) /\ reported'[k] = reported[k]
      BY <2>4, <2>6, <2>8
    <3> QED BY <2>3, <3>1 DEF EnergyInv, EnergyPhaseExact
  <2> QED BY <2>7, <2>8
<1> QED
  BY <1>2, <1>3, <1>4, <1>5
     DEF Next, vars, Device, ProfilerCalls, PollingTask, Finished, InitSource,
         MeasureStores, MeasureEnds, JoinBegins, PollJoined, PollJoinFails,
         Returned, Dropped

-----------------------------------------------------------------------------
(* Theorems                                                                *)
-----------------------------------------------------------------------------

IInv == TypeInv /\ Flags /\ CallsInv /\ TaskInv /\ BoundaryInv /\ EnergyInv

(***************************************************************************)
(* The inductive invariant.                                                *)
(***************************************************************************)
THEOREM Invariance == Spec => []IInv
<1>1. Init => IInv
  BY InitType, InitFlags, InitCalls, InitTask, InitBoundary, InitEnergy DEF IInv
<1>2. IInv /\ [Next]_vars => IInv'
  <2> SUFFICES ASSUME IInv, [Next]_vars PROVE IInv'
    OBVIOUS
  <2> USE DEF IInv
  <2>1. TypeInv' /\ Flags' /\ CallsInv' /\ TaskInv'
    BY NextType, NextFlags, NextCalls, NextTask
  <2>2. BoundaryInv'
    BY NextBoundaryStored, NextBoundarySampled DEF BoundaryInv
  <2>3. EnergyInv'
    <3>1. energy_supported' => energy_supported
      BY Zenon DEF Next, vars, deviceVars, Device, ProfilerCalls, PollingTask,
         Finished, PreInit, InitSource, MeasureReads, MeasureStores,
         MeasureEnds, Retrieve, JoinBegins, PollJoined, PollJoinFails,
         Returned, Dropped
    <3> QED BY <3>1, NextOrdered, NextRegister, NextEnergyExact DEF EnergyInv
  <2> QED BY <2>1, <2>2, <2>3
<1> QED BY <1>1, <1>2, PTL DEF Spec

(***************************************************************************)
(* Type correctness.                                                       *)
(***************************************************************************)
THEOREM TypeCorrectness == Spec => []TypeOK
<1>1. IInv => TypeOK
  <2> SUFFICES ASSUME IInv PROVE TypeOK
    OBVIOUS
  <2>1. vram_counter # NoBounds =>
           vram_counter \in Levels \X Levels /\ vram_counter[1] <= vram_counter[2]
    BY DEF IInv, TypeInv, Bounds
  <2>2. {energy_supported, cancelled, joining} \subseteq BOOLEAN
    BY DEF IInv, Flags
  <2> QED BY <2>1, <2>2, Zenon DEF IInv, TypeInv, TypeOK
<1> QED BY <1>1, Invariance, PTL

(***************************************************************************)
(* The energy of a phase is what a device with a register consumed between *)
(* the measurements that delimit it.                                       *)
(***************************************************************************)
THEOREM PhasesExact == Spec => []EnergyPhaseExact
<1>1. IInv => EnergyPhaseExact
  BY DEF IInv, EnergyInv
<1> QED BY <1>1, Invariance, PTL

(***************************************************************************)
(* What was read at the boundary that closes a phase is in its report,     *)
(* whatever the polling task does meanwhile.                               *)
(***************************************************************************)
THEOREM BoundariesSampled == Spec => []BoundarySampled
<1>1. IInv => BoundarySampled
  BY DEF IInv, BoundaryInv
<1> QED BY <1>1, Invariance, PTL

(***************************************************************************)
(* Once a source is joined its polling task is over and stores no more.    *)
(***************************************************************************)
THEOREM JoinedMeansOver == Spec => []NoLateStore
<1>1. IInv => NoLateStore
  BY DEF IInv, TaskInv
<1> QED BY <1>1, Invariance, PTL

=============================================================================
