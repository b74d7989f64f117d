------------------------- MODULE PerfCountersProofs -------------------------
(***************************************************************************)
(* Proofs about PerfCounters and the pairs of SnapshotPair it extends, for *)
(* every set of keys, range of the counters and number of runs.            *)
(***************************************************************************)
EXTENDS PerfCounters, TLAPS

-----------------------------------------------------------------------------
(* Integers modulo m: counters start again at 0 when they reach their range *)
-----------------------------------------------------------------------------

Congruent(a, b, m) == \E k \in Int : a - b = k * m

(* Congruence is reflexive. *)
LEMMA CongruentRefl ==
    ASSUME NEW m \in Nat, NEW a \in Int PROVE Congruent(a, a, m)
<1>1. a - a = 0 * m
  OBVIOUS
<1> QED BY <1>1 DEF Congruent

(* Congruence is transitive. *)
LEMMA CongruentTrans ==
    ASSUME NEW m \in Nat, NEW a \in Int, NEW b \in Int, NEW c \in Int,
           Congruent(a, b, m), Congruent(b, c, m)
    PROVE  Congruent(a, c, m)
<1>1. PICK k \in Int : a - b = k * m
  BY DEF Congruent
<1>2. PICK j \in Int : b - c = j * m
  BY DEF Congruent
<1>3. a - c = (k + j) * m /\ k + j \in Int
  BY <1>1, <1>2
<1> QED BY <1>3 DEF Congruent

(* Congruences are subtracted. *)
LEMMA CongruentSub ==
    ASSUME NEW m \in Nat,
           NEW a \in Int, NEW b \in Int, NEW c \in Int, NEW d \in Int,
           Congruent(a, b, m), Congruent(c, d, m)
    PROVE  Congruent(a - c, b - d, m)
<1>1. PICK k \in Int : a - b = k * m
  BY DEF Congruent
<1>2. PICK j \in Int : c - d = j * m
  BY DEF Congruent
<1>3. (a - c) - (b - d) = (k - j) * m
  BY <1>1, <1>2
<1>4. k - j \in Int
  OBVIOUS
<1> QED BY <1>3, <1>4 DEF Congruent

(* In the range of a counter, congruent numbers are equal. *)
LEMMA CongruentEqual ==
    ASSUME NEW m \in Nat \ {0}, NEW a \in 0 .. m - 1, NEW b \in 0 .. m - 1,
           Congruent(a, b, m)
    PROVE  a = b
<1>1. PICK k \in Int : a - b = k * m
  BY DEF Congruent
<1>2. k = 0
  BY <1>1
<1> QED BY <1>1, <1>2

(* A remainder is in the range, and congruent to its number. *)
LEMMA ModCongruent ==
    ASSUME NEW m \in Nat \ {0}, NEW a \in Int
    PROVE  a % m \in 0 .. m - 1 /\ Congruent(a % m, a, m)
<1>1. a % m \in 0 .. m - 1
  OBVIOUS
<1>2. (a % m) - a = (- (a \div m)) * m /\ - (a \div m) \in Int
  OBVIOUS
<1> QED BY <1>1, <1>2 DEF Congruent

(* A counter modulo m and a number that are both counted up differ alike. *)
LEMMA CongruentCount ==
    ASSUME NEW m \in Nat \ {0},
           NEW c \in Int, NEW r \in Int, NEW n \in Int, NEW p \in Int,
           Congruent(c - r, n - p, m)
    PROVE  Congruent(((c + 1) % m) - r, (n + 1) - p, m)
<1> DEFINE x == (c + 1) % m
<1>1. x \in Int /\ Congruent(x, c + 1, m)
  BY ModCongruent
<1> HIDE DEF x
<1>2. PICK k \in Int : (c - r) - (n - p) = k * m
  BY DEF Congruent
<1>3. PICK j \in Int : x - (c + 1) = j * m
  BY <1>1 DEF Congruent
<1>4. (x - r) - ((n + 1) - p) = (k + j) * m /\ k + j \in Int
  BY <1>1, <1>2, <1>3
<1>5. Congruent(x - r, (n + 1) - p, m)
  BY <1>4 DEF Congruent
<1> QED BY <1>5 DEF x

-----------------------------------------------------------------------------
(* Pairs of snapshots                                                      *)
-----------------------------------------------------------------------------

(***************************************************************************)
(* The snapshots that a stage of the source can count on.  A phase that    *)
(* runs has its begin, taken in this run or left by the run before; one    *)
(* that was measured has its end too.                                      *)
(***************************************************************************)
PairInv ==
    /\ stage \in {"open", "closing"} => begin_snapshot # <<>>
    /\ stage = "closing" => end_snapshot # <<>>

(***************************************************************************)
(* A new source has no phase.                                              *)
(***************************************************************************)
LEMMA InitPair == Init => PairInv
  BY DEF Init, ReaderInit, PairInit, PairInv

(***************************************************************************)
(* measure() begins the first phase or ends the running one.               *)
(***************************************************************************)
LEMMA TakeSnapshotPair ==
    ASSUME PairInv, NEW new, TakeSnapshot(new)
    PROVE  PairInv'
<1>1. <<new>> # <<>>
  OBVIOUS
<1>2. CASE stage = "started" /\ stage' = "open"
  BY <1>1, <1>2 DEF PairInv, TakeSnapshot
<1>3. CASE stage = "open" /\ stage' = "closing"
  BY <1>1, <1>3 DEF PairInv, TakeSnapshot
<1> QED
  BY <1>2, <1>3 DEF TakeSnapshot, MeasureCall

(***************************************************************************)
(* retrieve() makes the end of a phase the begin of the next.              *)
(***************************************************************************)
LEMMA ClosePhasePair ==
    ASSUME PairInv, ClosePhase
    PROVE  PairInv'
<1>1. begin_snapshot # <<>> /\ end_snapshot # <<>>
  BY DEF PairInv, ClosePhase
<1>2. stage' = "open" /\ begin_snapshot' = end_snapshot
  BY <1>1 DEF ClosePhase, RetrieveCall
<1> QED
  BY <1>1, <1>2 DEF PairInv

(***************************************************************************)
(* Any other step leaves the snapshots alone, and opens no phase.          *)
(***************************************************************************)
LEMMA OtherStepsPair ==
    ASSUME PairInv, UNCHANGED <<begin_snapshot, end_snapshot>>,
           \/ stage' = stage
           \/ stage' \in {"idle", "ready", "started", "joined", "dropped"}
    PROVE  PairInv'
  BY DEF PairInv

(***************************************************************************)
(* PairInv is inductive.                                                   *)
(***************************************************************************)
LEMMA NextPair ==
    ASSUME PairInv, [Next]_vars
    PROVE  PairInv'
<1>1. ASSUME NEW key \in Keys, CountEvent(key) PROVE PairInv'
  BY <1>1, OtherStepsPair DEF CountEvent, readerVars, pairVars
<1>2. CASE PreInit
  BY <1>2, OtherStepsPair DEF PreInit, PreInitCall
<1>3. CASE InitSource
  BY <1>3, OtherStepsPair DEF InitSource, InitCall, pairVars
<1>4. CASE Measure
  BY <1>4, TakeSnapshotPair DEF Measure
<1>5. CASE Retrieve
  BY <1>5, ClosePhasePair DEF Retrieve
<1>6. CASE Join
  BY <1>6, OtherStepsPair DEF Join, JoinCall, pairVars
<1>7. CASE Returned
  BY <1>7, OtherStepsPair DEF Returned, GiveBack, pairVars
<1>8. CASE Dropped
  BY <1>8, OtherStepsPair DEF Dropped, Abandon, pairVars
<1>9. CASE UNCHANGED vars
  BY <1>9, OtherStepsPair DEF vars, readerVars, pairVars
<1> QED
  BY <1>1, <1>2, <1>3, <1>4, <1>5, <1>6, <1>7, <1>8, <1>9 DEF Next, Finished

(***************************************************************************)
(* retrieve() of the perf_event sources never lacks a snapshot, whatever   *)
(* is counted, for any counters and any number of runs.                    *)
(***************************************************************************)
THEOREM Samples == Spec => []EnoughSamples
<1>1. Init => PairInv
  BY InitPair
<1>2. PairInv /\ [Next]_vars => PairInv'
  BY NextPair
<1>3. PairInv => EnoughSamples
  BY DEF PairInv, EnoughSamples
<1> QED
  BY <1>1, <1>2, <1>3, PTL DEF Spec

-----------------------------------------------------------------------------
(* The values of counters                                                  *)
-----------------------------------------------------------------------------

(***************************************************************************)
(* Two readings of a counter tell what was counted between them if it was  *)
(* less than the range: wrapping_sub, even if the counter went round.      *)
(***************************************************************************)
LEMMA WrappingSubExact ==
    ASSUME NEW u \in Value, NEW v \in Value, NEW d \in 0 .. CounterRange - 1,
           Congruent(v - u, d, CounterRange)
    PROVE  WrappingSub(v, u) = d
<1>1. CounterRange \in Nat \ {0} /\ v - u \in Int /\ d \in Int
  BY RangeAssumption DEF Value
<1>2. /\ (v - u) % CounterRange \in 0 .. CounterRange - 1
      /\ Congruent((v - u) % CounterRange, v - u, CounterRange)
  BY <1>1, ModCongruent
<1>3. Congruent((v - u) % CounterRange, d, CounterRange)
  BY <1>1, <1>2, CongruentTrans
<1> QED BY <1>1, <1>2, <1>3, CongruentEqual DEF WrappingSub

(***************************************************************************)
(* The same of energy_diff of RAPL, unless the counter went round.         *)
(***************************************************************************)
LEMMA EnergyDiffExact ==
    ASSUME NEW u \in Value, NEW v \in Value, NEW d \in 0 .. CounterRange - 1,
           Congruent(v - u, d, CounterRange), ~ (v < u)
    PROVE  EnergyDiff(u, v) = d
<1>1. CounterRange \in Nat \ {0} /\ v - u \in 0 .. CounterRange - 1 /\ v >= u
  BY RangeAssumption DEF Value
<1> QED BY <1>1, CongruentEqual DEF EnergyDiff

-----------------------------------------------------------------------------
(* Types                                                                   *)
-----------------------------------------------------------------------------

\* What may be read at once: RAPL always reads all its domains.
Readings ==
    IF target = "rapl" THEN [Keys -> Value]
    ELSE UNION {[watched -> Value] : watched \in SUBSET Keys}

Optional == {<<>>} \cup {<<reading>> : reading \in Readings}

(***************************************************************************)
(* The types of the data, and which of them belong together: a mark for    *)
(* each measurement and a pair of readings for each phase of a run.        *)
(***************************************************************************)
DataOK ==
    /\ IF run = 0 THEN counters = <<>> ELSE counters \in Readings
    /\ begin_snapshot \in Optional /\ end_snapshot \in Optional
    /\ snapshots \in Seq([begin : Readings, end : Readings])
    /\ marks \in Seq([Keys -> Nat])

CallsInv ==
    /\ stage \notin {"idle", "dropped"} => run >= 1
    /\ stage \in {"idle", "ready", "started", "dropped"} => taken = 0 /\ closed = 0
    /\ stage = "open" => taken = closed + 1
    /\ stage = "closing" => taken = closed + 2
    /\ stage \in {"ready", "started", "open", "closing", "joined"} =>
          Len(marks) = taken /\ Len(snapshots) = closed
    /\ Len(snapshots) > 0 => Len(marks) > Len(snapshots)

BasicInv ==
    /\ ReaderTypeOK
    /\ target \in {"rapl", "pid", "cgroup"}
    /\ cpu_spec \in SUBSET Keys
    /\ run \in 0 .. MaxRuns
    /\ counted \in [Keys -> Nat]
    /\ DataOK
    /\ CallsInv

(* Init has the types. *)
LEMMA InitBasic == Init => BasicInv
  BY PerfBoundsAssumption
     DEF Init, ReaderInit, PairInit, BasicInv, ReaderTypeOK, Stages, DataOK,
         CallsInv, Optional

(***************************************************************************)
(* Counters that were just opened are a reading of zeros.                  *)
(***************************************************************************)
LEMMA OpenReading ==
    ASSUME NEW keys \in SUBSET Keys, OpenCounters(keys),
           target = "rapl" => keys = Keys
    PROVE  counters' \in Readings
<1>1. 0 \in Value
  BY RangeAssumption DEF Value
<1>2. counters' \in [keys -> Value]
  BY <1>1 DEF OpenCounters
<1> QED BY <1>2 DEF Readings

(* A source that watches a process has no counters before init(). *)
LEMMA NoReading == target # "rapl" => <<>> \in Readings
<1>1. <<>> \in [{} -> Value]
  OBVIOUS
<1> QED BY <1>1 DEF Readings

(* A counter that starts again at 0 keeps its type. *)
LEMMA CountEventBasic ==
    ASSUME BasicInv, NEW key \in Keys, CountEvent(key) PROVE BasicInv'
<1> USE DEF BasicInv, readerVars, pairVars
<1>1. /\ counted' = [counted EXCEPT ![key] = @ + 1]
      /\ counters' = [k \in DOMAIN counters |->
                        IF k = key THEN (counters[k] + 1) % CounterRange
                        ELSE counters[k]]
      /\ UNCHANGED <<readerVars, pairVars, target, cpu_spec, run, marks>>
  BY DEF CountEvent
<1>2. counted' \in [Keys -> Nat]
  BY <1>1
<1>3. Readings' = Readings /\ Optional' = Optional
  BY <1>1 DEF Readings, Optional
<1>4. run # 0 => counters' \in Readings
  <2>1. \A v \in Value : (v + 1) % CounterRange \in Value
    BY RangeAssumption DEF Value
  <2>2. ASSUME NEW watched \in SUBSET Keys, counters \in [watched -> Value]
        PROVE  counters' \in [watched -> Value]
    BY <1>1, <2>1, <2>2
  <2> QED BY <2>2 DEF DataOK, Readings
<1>5. run = 0 => counters' = <<>>
  BY <1>1 DEF DataOK
<1>6. DataOK'
  BY <1>1, <1>3, <1>4, <1>5 DEF DataOK
<1>7. CallsInv'
  BY <1>1 DEF CallsInv
<1> QED BY <1>1, <1>2, <1>6, <1>7 DEF ReaderTypeOK

(***************************************************************************)
(* A call that neither opens counters nor reads them keeps the types.      *)
(***************************************************************************)
LEMMA CallBasic ==
    ASSUME BasicInv, ReaderTypeOK', CallsInv',
           UNCHANGED <<begin_snapshot, end_snapshot, snapshots, target,
                       cpu_spec, run, counters, counted, marks>>
    PROVE  BasicInv'
<1>1. Readings' = Readings /\ Optional' = Optional
  BY DEF Readings, Optional
<1> QED BY <1>1 DEF BasicInv, DataOK

(* pre_init() keeps the types. *)
LEMMA PreInitBasic == ASSUME BasicInv, PreInit PROVE BasicInv'
<1> USE DEF BasicInv, pairVars
<1>1. Readings' = Readings /\ Optional' = Optional
  BY DEF PreInit, Readings, Optional
<1>2. run' = run + 1 /\ run' \in 1 .. MaxRuns /\ run \in Nat
  BY PerfBoundsAssumption DEF PreInit
<1>3. counters' \in Readings /\ cpu_spec' \in SUBSET Keys
  <2>1. CASE target = "rapl" /\ PreInitRapl
    BY <2>1, OpenReading DEF PreInitRapl
  <2>2. CASE target = "cgroup" /\ PreInitCgroup
    <3>1. (IF cpu_spec # {} THEN cpu_spec ELSE Keys) \in SUBSET Keys
      OBVIOUS
    <3> QED BY <2>2, <3>1, OpenReading DEF PreInitCgroup
  <2>3. CASE target = "pid" /\ UNCHANGED <<counters, cpu_spec>>
    BY <2>3, <1>2, NoReading DEF DataOK
  <2> QED BY <2>1, <2>2, <2>3 DEF PreInit
<1>4. DataOK'
  BY <1>1, <1>2, <1>3 DEF PreInit, DataOK
<1>5. CallsInv' /\ ReaderTypeOK'
  BY <1>2 DEF PreInit, PreInitCall, CallsInv, ReaderTypeOK, Stages
<1> QED BY <1>2, <1>3, <1>4, <1>5 DEF PreInit

(* init() keeps the types. *)
LEMMA InitSourceBasic == ASSUME BasicInv, InitSource PROVE BasicInv'
<1> USE DEF BasicInv, pairVars
<1>1. Readings' = Readings /\ Optional' = Optional
  BY DEF InitSource, Readings, Optional
<1>2. run # 0
  BY DEF InitSource, InitCall, CallsInv
<1>3. counters' \in Readings
  BY <1>2, OpenReading, KeysAssumption DEF InitSource, DataOK
<1>4. DataOK'
  BY <1>1, <1>2, <1>3 DEF InitSource, DataOK
<1>5. CallsInv' /\ ReaderTypeOK'
  BY DEF InitSource, InitCall, CallsInv, ReaderTypeOK, Stages
<1> QED BY <1>4, <1>5 DEF InitSource

(* measure() keeps the types. *)
LEMMA MeasureBasic == ASSUME BasicInv, Measure PROVE BasicInv'
<1> USE DEF BasicInv
<1>1. Readings' = Readings /\ Optional' = Optional
  BY DEF Measure, Readings, Optional
<1>2. MeasureCall /\ run # 0 /\ counters \in Readings
  BY DEF Measure, TakeSnapshot, MeasureCall, CallsInv, DataOK
<1>3. begin_snapshot' \in Optional /\ end_snapshot' \in Optional
  BY <1>2 DEF Measure, TakeSnapshot, DataOK, Optional
<1>4. marks' \in Seq([Keys -> Nat]) /\ Len(marks') = Len(marks) + 1
  BY DEF Measure, DataOK
<1>5. DataOK'
  BY <1>1, <1>2, <1>3, <1>4 DEF Measure, TakeSnapshot, DataOK
<1>6. CallsInv' /\ ReaderTypeOK'
  BY <1>2, <1>4 DEF Measure, TakeSnapshot, MeasureCall, CallsInv, ReaderTypeOK,
                    Stages
<1> QED BY <1>5, <1>6 DEF Measure

(* retrieve() keeps the types: its snapshots are there. *)
LEMMA RetrieveBasic == ASSUME BasicInv, PairInv, Retrieve PROVE BasicInv'
<1> USE DEF BasicInv
<1>1. Readings' = Readings /\ Optional' = Optional
  BY DEF Retrieve, Readings, Optional
<1>2. begin_snapshot # <<>> /\ end_snapshot # <<>>
  BY DEF PairInv, Retrieve, ClosePhase
<1>3. begin_snapshot[1] \in Readings /\ end_snapshot[1] \in Readings
  BY <1>2 DEF DataOK, Optional
<1>4. /\ RetrieveCall
      /\ begin_snapshot' = end_snapshot /\ end_snapshot' = <<>>
      /\ snapshots' = Append(snapshots, [begin |-> begin_snapshot[1],
                                         end   |-> end_snapshot[1]])
  BY <1>2 DEF Retrieve, ClosePhase
<1>5. /\ snapshots' \in Seq([begin : Readings, end : Readings])
      /\ Len(snapshots') = Len(snapshots) + 1
  BY <1>3, <1>4 DEF DataOK
<1>6. DataOK'
  BY <1>1, <1>4, <1>5 DEF Retrieve, DataOK, Optional
<1>7. CallsInv' /\ ReaderTypeOK'
  BY <1>4, <1>5 DEF Retrieve, RetrieveCall, CallsInv, ReaderTypeOK, Stages
<1> QED BY <1>6, <1>7 DEF Retrieve

(* Every step keeps the types. *)
LEMMA NextBasic == ASSUME BasicInv, PairInv, [Next]_vars PROVE BasicInv'
<1> USE DEF BasicInv, CallsInv, ReaderTypeOK, Stages, pairVars, readerVars
<1>1. ASSUME NEW key \in Keys, CountEvent(key) PROVE BasicInv'
  BY <1>1, CountEventBasic
<1>2. CASE PreInit
  BY <1>2, PreInitBasic
<1>3. CASE InitSource
  BY <1>3, InitSourceBasic
<1>4. CASE Measure
  BY <1>4, MeasureBasic
<1>5. CASE Retrieve
  BY <1>5, RetrieveBasic
<1>6. CASE Join
  BY <1>6, CallBasic DEF Join, JoinCall
<1>7. CASE Returned
  BY <1>7, CallBasic DEF Returned, GiveBack
<1>8. CASE Dropped
  BY <1>8, CallBasic DEF Dropped, Abandon
<1>9. CASE UNCHANGED vars
  BY <1>9, CallBasic DEF vars
<1> QED
  BY <1>1, <1>2, <1>3, <1>4, <1>5, <1>6, <1>7, <1>8, <1>9 DEF Next, Finished

-----------------------------------------------------------------------------
(* What phases count                                                       *)
-----------------------------------------------------------------------------

(***************************************************************************)
(* The counters have gone on from a reading as the true count did from m.  *)
(***************************************************************************)
Tracks(reading, m) ==
    /\ DOMAIN reading = DOMAIN counters
    /\ \A key \in DOMAIN counters :
          Congruent(counters[key] - reading[key], counted[key] - m[key],
                    CounterRange)

InRange(from, to) ==
    \A key \in Keys : to[key] - from[key] \in 0 .. CounterRange - 1

(***************************************************************************)
(* While a phase is open, its begin was read when the count was at the     *)
(* mark before it, unless a former run left it; when it was measured, so   *)
(* was its end.                                                            *)
(***************************************************************************)
OpenPhase ==
    /\ run = 0 \/ (run = 1 /\ stage \in {"ready", "started"}) =>
          begin_snapshot = <<>>
    /\ marks # <<>> => InRange(marks[Len(marks)], counted)
    /\ stage \in {"open", "closing"} /\ (closed > 0 \/ run = 1) =>
          Tracks(begin_snapshot[1], marks[closed + 1])
    /\ stage = "closing" =>
          /\ Tracks(end_snapshot[1], marks[closed + 2])
          /\ InRange(marks[closed + 1], marks[closed + 2])

\* The claim of PhaseCountExact, per key.
DiffsExact ==
    \A k \in 1 .. Len(snapshots) :
        /\ k > 1 \/ run = 1
        /\ target = "rapl" => ~ Overflowed(snapshots[k])
        => Diff(snapshots[k]) = Counted(k)

CountInv == OpenPhase /\ DiffsExact

(* Before the first run nothing is counted. *)
LEMMA InitCount == Init => CountInv
  BY DEF Init, ReaderInit, PairInit, CountInv, OpenPhase, DiffsExact

(***************************************************************************)
(* The differences of two readings that track the count are what was       *)
(* counted between them.                                                   *)
(***************************************************************************)
LEMMA PhaseExact ==
    ASSUME BasicInv, NEW phase \in [begin : Readings, end : Readings],
           NEW m \in [Keys -> Nat], NEW n \in [Keys -> Nat],
           counters \in Readings,
           Tracks(phase.begin, m), Tracks(phase.end, n), InRange(m, n),
           target = "rapl" => ~ Overflowed(phase)
    PROVE  Diff(phase) = [key \in DOMAIN phase.end |-> n[key] - m[key]]
<1> DEFINE b == phase.begin
           e == phase.end
<1>1. DOMAIN b = DOMAIN counters /\ DOMAIN e = DOMAIN counters
  BY DEF Tracks
<1>2. \A r \in Readings : DOMAIN r \subseteq Keys /\ \A key \in DOMAIN r : r[key] \in Value
  BY DEF Readings
<1>3. ASSUME NEW key \in DOMAIN e
      PROVE  Diff(phase)[key] = n[key] - m[key]
  <2> DEFINE u == b[key]
             v == e[key]
             c == counters[key]
             d == n[key] - m[key]
  <2>1. u \in Value /\ v \in Value /\ c \in Value /\ key \in Keys
    BY <1>1, <1>2
  <2>2. /\ m[key] \in Nat /\ n[key] \in Nat /\ counted[key] \in Nat
        /\ d \in 0 .. CounterRange - 1
    BY <2>1 DEF InRange, BasicInv
  <2>3. /\ Congruent(c - u, counted[key] - m[key], CounterRange)
        /\ Congruent(c - v, counted[key] - n[key], CounterRange)
    BY <1>1 DEF Tracks
  <2>4. Congruent(v - u, d, CounterRange)
    <3>1. /\ CounterRange \in Nat
          /\ u \in Int /\ v \in Int /\ c \in Int
      BY <2>1, RangeAssumption DEF Value
    <3> HIDE DEF u, v, c
    <3>2. Congruent((c - u) - (c - v),
                    (counted[key] - m[key]) - (counted[key] - n[key]),
                    CounterRange)
      BY <2>2, <2>3, <3>1, CongruentSub
    <3>3. /\ (c - u) - (c - v) = v - u
          /\ (counted[key] - m[key]) - (counted[key] - n[key]) = d
      BY <2>2, <3>1
    <3> QED BY <3>2, <3>3
  <2>5. CASE target = "rapl"
    <3>1. ~ (v < u)
      BY <2>5 DEF Overflowed
    <3>2. EnergyDiff(u, v) = d
      BY <2>1, <2>2, <2>4, <3>1, EnergyDiffExact
    <3> QED BY <2>5, <3>2 DEF Diff
  <2>6. CASE target # "rapl"
    <3>1. WrappingSub(v, u) = d
      BY <2>1, <2>2, <2>4, WrappingSubExact
    <3> QED BY <1>1, <2>6, <3>1 DEF Diff
  <2> QED BY <2>5, <2>6
<1>4. Diff(phase) = [key \in DOMAIN e |-> Diff(phase)[key]]
  BY DEF Diff
<1> QED BY <1>3, <1>4

(***************************************************************************)
(* What was retrieved stays what it is until a run begins.                 *)
(***************************************************************************)
LEMMA DiffsKept ==
    ASSUME BasicInv, DiffsExact, UNCHANGED <<target, run, snapshots>>,
           \/ marks' = marks
           \/ \E m \in [Keys -> Nat] : marks' = Append(marks, m)
    PROVE  DiffsExact'
<1>1. marks \in Seq([Keys -> Nat]) /\ Len(marks) \in Nat /\ Len(snapshots) \in Nat
  BY DEF BasicInv, DataOK
<1>2. \A k \in 1 .. Len(marks) : marks'[k] = marks[k]
  <2>1. ASSUME NEW m \in [Keys -> Nat], marks' = Append(marks, m)
        PROVE  \A k \in 1 .. Len(marks) : marks'[k] = marks[k]
    BY <1>1, <2>1
  <2> QED BY <2>1
<1>3. ASSUME NEW k \in 1 .. Len(snapshots)
      PROVE  Counted(k)' = Counted(k) /\ Diff(snapshots[k])' = Diff(snapshots[k])
  <2>1. k \in 1 .. Len(marks) /\ k + 1 \in 1 .. Len(marks)
    BY <1>1 DEF BasicInv, CallsInv
  <2> QED BY <1>2, <2>1 DEF Counted, Diff
<1> QED BY <1>3 DEF DiffsExact, Overflowed

(***************************************************************************)
(* Steps that neither count, read nor open counters.                       *)
(***************************************************************************)
LEMMA CallCount ==
    ASSUME BasicInv, CountInv,
           UNCHANGED <<begin_snapshot, end_snapshot, snapshots, target, run,
                       counters, counted, marks>>,
           \/ UNCHANGED readerVars
           \/ stage' \in {"idle", "joined", "dropped"} /\ stage # "ready"
                 /\ (stage = "idle" => stage' # "joined")
           \/ stage' = "dropped"
    PROVE  CountInv'
<1>1. DiffsExact'
  BY DiffsKept DEF CountInv
<1>2. OpenPhase'
  BY DEF CountInv, OpenPhase, Tracks, InRange, readerVars, BasicInv, CallsInv
<1> QED BY <1>1, <1>2 DEF CountInv

(***************************************************************************)
(* An event is counted by the counter, modulo its range, and in the phase  *)
(* under way.                                                              *)
(***************************************************************************)
LEMMA CountEventCount ==
    ASSUME BasicInv, PairInv, CountInv, NEW key \in Keys, CountEvent(key)
    PROVE  CountInv'
<1>1. /\ marks # <<>> => counted[key] + 1 - marks[Len(marks)][key] < CounterRange
      /\ counted' = [counted EXCEPT ![key] = @ + 1]
      /\ counters' = [k \in DOMAIN counters |->
                        IF k = key THEN (counters[k] + 1) % CounterRange
                        ELSE counters[k]]
      /\ UNCHANGED <<stage, taken, closed, begin_snapshot, end_snapshot,
                     snapshots, target, run, marks>>
  BY DEF CountEvent, readerVars, pairVars
<1>2. DiffsExact'
  BY <1>1, DiffsKept DEF CountInv
<1>3. counted \in [Keys -> Nat] /\ CounterRange \in Nat \ {0}
  BY RangeAssumption DEF BasicInv
<1>4. ASSUME NEW reading \in Readings, NEW m \in [Keys -> Nat],
             Tracks(reading, m), counters \in Readings
      PROVE  Tracks(reading, m)'
  <2>1. DOMAIN reading = DOMAIN counters /\ DOMAIN counters' = DOMAIN counters
    BY <1>1, <1>4 DEF Tracks
  <2>2. ASSUME NEW k \in DOMAIN counters
        PROVE  Congruent(counters'[k] - reading[k], counted'[k] - m[k], CounterRange)
    <3>1. /\ k \in Keys /\ counters[k] \in Int /\ reading[k] \in Int
          /\ m[k] \in Int /\ counted[k] \in Int
      BY <1>3, <1>4, <2>1 DEF Readings, Value
    <3>2. Congruent(counters[k] - reading[k], counted[k] - m[k], CounterRange)
      BY <1>4 DEF Tracks
    <3>3. CASE k # key
      BY <1>1, <1>3, <3>1, <3>2, <3>3
    <3>4. CASE k = key
      <4>1. Congruent(((counters[k] + 1) % CounterRange) - reading[k],
                      (counted[k] + 1) - m[k], CounterRange)
        BY <1>3, <3>1, <3>2, CongruentCount
      <4> QED BY <1>1, <1>3, <3>1, <3>4, <4>1
    <3> QED BY <3>3, <3>4
  <2> QED BY <2>1, <2>2 DEF Tracks
<1>5. marks # <<>> => InRange(marks[Len(marks)], counted')
  <2> SUFFICES ASSUME marks # <<>>, NEW k \in Keys
               PROVE  counted'[k] - marks[Len(marks)][k] \in 0 .. CounterRange - 1
    BY DEF InRange
  <2>1. counted[k] - marks[Len(marks)][k] \in 0 .. CounterRange - 1
    BY DEF CountInv, OpenPhase, InRange
  <2>2. marks[Len(marks)][k] \in Nat
    BY DEF BasicInv, DataOK
  <2>3. CASE k = key
    <3>1. counted'[k] = counted[k] + 1 /\ counted[k] \in Nat
      BY <1>1, <1>3, <2>3
    <3>2. counted[k] + 1 - marks[Len(marks)][k] < CounterRange
      BY <1>1, <2>3
    <3> QED BY <1>3, <2>1, <2>2, <3>1, <3>2
  <2>4. CASE k # key
    <3>1. counted'[k] = counted[k]
      BY <1>1, <1>3, <2>4
    <3> QED BY <2>1, <3>1
  <2> QED BY <2>3, <2>4
<1>6. stage \in {"open", "closing"} =>
        /\ counters \in Readings
        /\ begin_snapshot[1] \in Readings \/ begin_snapshot = <<>>
        /\ end_snapshot[1] \in Readings \/ end_snapshot = <<>>
        /\ marks[closed + 1] \in [Keys -> Nat]
        /\ stage = "closing" => marks[closed + 2] \in [Keys -> Nat]
  BY DEF BasicInv, DataOK, CallsInv, Optional, ReaderTypeOK
<1>7. OpenPhase'
  <2>1. marks # <<>> => InRange(marks[Len(marks)], counted)'
    BY <1>1, <1>5 DEF InRange
  <2>2. stage \in {"open", "closing"} /\ (closed > 0 \/ run = 1) =>
          Tracks(begin_snapshot[1], marks[closed + 1])'
    BY <1>1, <1>4, <1>6 DEF CountInv, OpenPhase, PairInv
  <2>3. stage = "closing" =>
          /\ Tracks(end_snapshot[1], marks[closed + 2])'
          /\ InRange(marks[closed + 1], marks[closed + 2])'
    BY <1>1, <1>4, <1>6 DEF CountInv, OpenPhase, InRange, PairInv
  <2> QED BY <1>1, <2>1, <2>2, <2>3 DEF CountInv, OpenPhase
<1> QED BY <1>2, <1>7 DEF CountInv

(***************************************************************************)
(* A run begins without marks, and its counters are opened before its      *)
(* first measurement.                                                      *)
(***************************************************************************)
LEMMA OpeningCount ==
    ASSUME BasicInv, CountInv, PreInit \/ InitSource PROVE CountInv'
<1>1. CASE PreInit
  <2>1. snapshots' = <<>> /\ marks' = <<>> /\ begin_snapshot' = begin_snapshot
    BY <1>1 DEF PreInit
  <2>2. stage = "idle" /\ stage' = "ready" /\ run' = run + 1 /\ run \in Nat
    BY <1>1, PerfBoundsAssumption DEF PreInit, PreInitCall, BasicInv
  <2> QED BY <2>1, <2>2 DEF CountInv, OpenPhase, DiffsExact
<1>2. CASE InitSource
  <2>1. DiffsExact'
    BY <1>2, DiffsKept DEF InitSource, pairVars, CountInv
  <2>2. OpenPhase'
    BY <1>2 DEF InitSource, InitCall, pairVars, CountInv, OpenPhase, InRange
  <2> QED BY <2>1, <2>2 DEF CountInv
<1> QED BY <1>1, <1>2

(* measure() reads counters that tell the count. *)
LEMMA MeasureCount ==
    ASSUME BasicInv, PairInv, CountInv, Measure PROVE CountInv'
<1>1. /\ MeasureCall /\ TakeSnapshot(counters)
      /\ marks' = Append(marks, counted)
      /\ UNCHANGED <<target, run, counters, counted, snapshots>>
  BY DEF Measure, TakeSnapshot
<1>2. /\ marks \in Seq([Keys -> Nat]) /\ counted \in [Keys -> Nat]
      /\ Len(marks) = taken /\ taken \in Nat /\ closed \in Nat
      /\ counters \in Readings
      /\ CounterRange \in Nat \ {0}
  BY <1>1, RangeAssumption
     DEF BasicInv, DataOK, CallsInv, MeasureCall, ReaderTypeOK
<1>3. /\ marks' # <<>> /\ Len(marks') = taken + 1
      /\ marks'[taken + 1] = counted
      /\ \A k \in 1 .. taken : marks'[k] = marks[k]
  <2>1. marks' \in Seq([Keys -> Nat]) /\ Len(marks') = taken + 1
    BY <1>1, <1>2
  <2>2. \A k \in 1 .. taken + 1 :
           marks'[k] = IF k = taken + 1 THEN counted ELSE marks[k]
    BY <1>1, <1>2
  <2> QED BY <1>2, <2>1, <2>2
<1>4. DiffsExact'
  BY <1>1, <1>2, DiffsKept DEF CountInv
<1>5. Tracks(counters, counted) /\ InRange(counted, counted)
  <2>1. ASSUME NEW key \in DOMAIN counters
        PROVE  /\ counters[key] - counters[key] = 0
               /\ counted[key] - counted[key] = 0
    BY <1>2 DEF Readings, Value
  <2>2. Congruent(0, 0, CounterRange)
    BY <1>2, CongruentRefl
  <2>3. InRange(counted, counted)
    BY <1>2 DEF InRange
  <2> QED BY <2>1, <2>2, <2>3 DEF Tracks
<1>6. Tracks(counters, counted)' /\ InRange(counted, counted)'
  BY <1>1, <1>5 DEF Tracks, InRange
<1>7. CASE stage = "started" /\ stage' = "open"
  <2>1. taken = 0 /\ closed' = 0 /\ closed = 0
    BY <1>1, <1>7 DEF BasicInv, CallsInv, MeasureCall
  <2>2. run = 1 => begin_snapshot' = <<counters>>
    BY <1>1, <1>7 DEF CountInv, OpenPhase, TakeSnapshot
  <2>3. run' = 1 => Tracks(begin_snapshot[1], marks[closed + 1])'
    BY <1>1, <1>3, <1>6, <2>1, <2>2 DEF Tracks
  <2>4. InRange(marks[Len(marks)], counted)'
    BY <1>1, <1>3, <1>6, <2>1 DEF InRange
  <2>5. run # 0
    BY <1>7 DEF BasicInv, CallsInv
  <2>6. OpenPhase'
    BY <1>1, <1>7, <2>1, <2>3, <2>4, <2>5 DEF OpenPhase
  <2> QED BY <1>4, <2>6 DEF CountInv
<1>8. CASE stage = "open" /\ stage' = "closing"
  <2>1. taken = closed + 1 /\ closed' = closed
    BY <1>1, <1>8 DEF BasicInv, CallsInv, MeasureCall
  <2>2. end_snapshot' = <<counters>> /\ begin_snapshot' = begin_snapshot
    BY <1>1, <1>8 DEF TakeSnapshot, PairInv
  <2>3. /\ marks'[closed + 1] = marks[closed + 1]
        /\ marks'[closed + 2] = counted
        /\ marks[Len(marks)] = marks[closed + 1] /\ marks # <<>>
    BY <1>2, <1>3, <2>1
  <2>4. closed > 0 \/ run = 1 => Tracks(begin_snapshot[1], marks[closed + 1])'
    BY <1>1, <1>8, <2>1, <2>2, <2>3 DEF CountInv, OpenPhase, Tracks
  <2>5. Tracks(end_snapshot[1], marks[closed + 2])'
    BY <1>1, <1>6, <2>1, <2>2, <2>3 DEF Tracks
  <2>6. InRange(marks[closed + 1], marks[closed + 2])'
    BY <1>1, <2>1, <2>3 DEF CountInv, OpenPhase, InRange
  <2>7. InRange(marks[Len(marks)], counted)'
    BY <1>1, <1>3, <1>6 DEF InRange
  <2>8. run # 0
    BY <1>8 DEF BasicInv, CallsInv
  <2>9. OpenPhase'
    BY <1>1, <1>8, <2>1, <2>4, <2>5, <2>6, <2>7, <2>8 DEF OpenPhase
  <2> QED BY <1>4, <2>9 DEF CountInv
<1> QED BY <1>1, <1>7, <1>8 DEF MeasureCall

(* What is retrieved tells what was counted between its two snapshots. *)
LEMMA RetrieveCount ==
    ASSUME BasicInv, PairInv, CountInv, Retrieve PROVE CountInv'
<1> DEFINE b == begin_snapshot[1]
           e == end_snapshot[1]
           phase == [begin |-> b, end |-> e]
<1>1. stage = "closing" /\ begin_snapshot # <<>> /\ end_snapshot # <<>>
  BY DEF PairInv, Retrieve, ClosePhase
<1>2. /\ stage' = "open" /\ closed' = closed + 1
      /\ begin_snapshot' = end_snapshot
      /\ snapshots' = Append(snapshots, phase)
      /\ UNCHANGED <<target, run, counters, counted, marks>>
  BY <1>1 DEF Retrieve, ClosePhase, RetrieveCall
<1>3. /\ b \in Readings /\ e \in Readings /\ counters \in Readings
      /\ snapshots \in Seq([begin : Readings, end : Readings])
      /\ closed \in Nat /\ Len(snapshots) = closed /\ Len(marks) = closed + 2
      /\ marks[closed + 1] \in [Keys -> Nat] /\ marks[closed + 2] \in [Keys -> Nat]
      /\ run # 0
  BY <1>1 DEF BasicInv, DataOK, CallsInv, ReaderTypeOK, Optional
<1>4. /\ Tracks(e, marks[closed + 2])
      /\ InRange(marks[closed + 1], marks[closed + 2])
      /\ InRange(marks[Len(marks)], counted)
      /\ closed > 0 \/ run = 1 => Tracks(b, marks[closed + 1])
  BY <1>1, <1>3 DEF CountInv, OpenPhase
<1>5. OpenPhase'
  <2>1. Tracks(begin_snapshot[1], marks[closed + 1])'
    BY <1>2, <1>3, <1>4 DEF Tracks
  <2>2. InRange(marks[Len(marks)], counted)'
    BY <1>2, <1>4 DEF InRange
  <2> QED BY <1>2, <1>3, <2>1, <2>2 DEF OpenPhase
<1>6. DiffsExact'
  <2> SUFFICES ASSUME NEW k \in 1 .. Len(snapshots'), k > 1 \/ run = 1,
                      target = "rapl" => ~ Overflowed(snapshots'[k])
               PROVE  (Diff(snapshots[k]) = Counted(k))'
    BY <1>2 DEF DiffsExact, Overflowed
  <2>1. /\ Len(snapshots') = closed + 1
        /\ \A i \in 1 .. closed + 1 :
              snapshots'[i] = IF i = closed + 1 THEN phase ELSE snapshots[i]
    <3>1. phase \in [begin : Readings, end : Readings]
      BY <1>3
    <3>4. /\ snapshots' = Append(snapshots, phase)
          /\ Len(snapshots) = closed /\ closed \in Nat
          /\ snapshots \in Seq([begin : Readings, end : Readings])
      BY <1>2, <1>3
    <3> HIDE DEF phase
    <3>2. Len(snapshots') = closed + 1
      BY <3>1, <3>4
    <3>3. \A i \in 1 .. closed + 1 :
             snapshots'[i] = IF i = closed + 1 THEN phase ELSE snapshots[i]
      BY <3>1, <3>4
    <3> QED BY <3>2, <3>3
  <2>2. CASE k <= closed
    <3>1. snapshots'[k] = snapshots[k]
      BY <1>3, <2>1, <2>2
    <3>2. Diff(snapshots[k]) = Counted(k)
      BY <1>3, <2>2, <3>1 DEF CountInv, DiffsExact
    <3> QED BY <1>2, <3>1, <3>2 DEF Diff, Counted
  <2>3. CASE k = closed + 1
    <3>1. snapshots'[k] = phase
      BY <1>3, <2>1, <2>3
    <3>2. Tracks(b, marks[closed + 1])
      BY <1>3, <1>4, <2>3
    <3> DEFINE m == marks[closed + 1]
               n == marks[closed + 2]
    <3>3. target = "rapl" => ~ Overflowed(phase)
      BY <3>1
    <3>4. /\ m \in [Keys -> Nat] /\ n \in [Keys -> Nat]
          /\ Tracks(b, m) /\ Tracks(e, n) /\ InRange(m, n)
      BY <1>3, <1>4, <3>2
    <3>5. Diff(phase) = [key \in DOMAIN e |-> n[key] - m[key]]
      <4>1. /\ phase \in [begin : Readings, end : Readings]
            /\ phase.begin = b /\ phase.end = e
        BY <1>3
      <4> HIDE DEF b, e, m, n, phase
      <4> QED BY <1>3, <3>3, <3>4, <4>1, PhaseExact
    <3> QED BY <1>2, <1>3, <2>3, <3>1, <3>5 DEF Diff, Counted
  <2> QED BY <1>3, <2>1, <2>2, <2>3
<1> QED BY <1>5, <1>6 DEF CountInv

(* Every step keeps the counts. *)
LEMMA NextCount ==
    ASSUME BasicInv, PairInv, CountInv, [Next]_vars PROVE CountInv'
<1> USE DEF pairVars
<1>1. ASSUME NEW key \in Keys, CountEvent(key) PROVE CountInv'
  BY <1>1, CountEventCount
<1>2. CASE PreInit \/ InitSource
  BY <1>2, OpeningCount
<1>3. CASE Measure
  BY <1>3, MeasureCount
<1>4. CASE Retrieve
  BY <1>4, RetrieveCount
<1>5. CASE Join
  BY <1>5, CallCount DEF Join, JoinCall
<1>6. CASE Returned
  BY <1>6, CallCount DEF Returned, GiveBack
<1>7. CASE Dropped
  BY <1>7, CallCount DEF Dropped, Abandon
<1>8. CASE UNCHANGED vars
  BY <1>8, CallCount DEF vars
<1> QED
  BY <1>1, <1>2, <1>3, <1>4, <1>5, <1>6, <1>7, <1>8 DEF Next, Finished

(***************************************************************************)
(* The metrics of a phase are what was counted between the measurements    *)
(* that delimit it, for any set of watched keys and any range.             *)
(***************************************************************************)
THEOREM PhasesCountedExactly == Spec => []PhaseCountExact
<1> DEFINE IInv == PairInv /\ BasicInv /\ CountInv
<1>1. Init => IInv
  BY InitPair, InitBasic, InitCount
<1>2. IInv /\ [Next]_vars => IInv'
  BY NextPair, NextBasic, NextCount
<1>3. IInv => PhaseCountExact
  BY DEF CountInv, DiffsExact, PhaseCountExact, Reported
<1> QED BY <1>1, <1>2, <1>3, PTL DEF Spec

=============================================================================
