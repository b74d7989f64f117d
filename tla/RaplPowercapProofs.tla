------------------------- MODULE RaplPowercapProofs -------------------------
(***************************************************************************)
(* Proofs about RaplPowercap, for every range of the counter and every     *)
(* number of runs and measurements.  The invariant is built in layers:     *)
(* types, the calls and tasks, the energy with and without polling, and    *)
(* the phases without it.                                                  *)
(***************************************************************************)
EXTENDS RaplPowercap, TLAPS

-----------------------------------------------------------------------------
(* Integers modulo m: counters start again at 0 when they reach their range *)
-----------------------------------------------------------------------------

Congruent(a, b, m) == \E k \in Int : a - b = k * m

(* Congruence is reflexive. *)
LEMMA CongruentRefl ==
    ASSUME NEW m \in Nat, NEW a \in Int PROVE Congruent(a, a, m)
<1>1. a - a = 0 * m
  OBVIOUS
<1> QED BY <1>1 DEF Congruent

(* Congruences are added. *)
LEMMA CongruentAdd ==
    ASSUME NEW m \in Nat,
           NEW a \in Int, NEW b \in Int, NEW c \in Int, NEW d \in Int,
           Congruent(a, b, m), Congruent(c, d, m)
    PROVE  Congruent(a + c, b + d, m)
<1>1. PICK k \in Int : a - b = k * m
  BY DEF Congruent
<1>2. PICK j \in Int : c - d = j * m
  BY DEF Congruent
<1>3. (a + c) - (b + d) = (k + j) * m
  BY <1>1, <1>2
<1>4. k + j \in Int
  OBVIOUS
<1> QED BY <1>3, <1>4 DEF Congruent

(* The difference of congruent numbers leaves no remainder. *)
LEMMA CongruentZero ==
    ASSUME NEW m \in Nat \ {0}, NEW a \in Int, NEW b \in Int,
           Congruent(a, b, m)
    PROVE  (a - b) % m = 0
<1>1. PICK k \in Int : a - b = k * m
  BY DEF Congruent
<1> QED BY <1>1

(* In the range of a counter, congruent numbers are equal. *)
LEMMA CongruentEqual ==
    ASSUME NEW m \in Nat \ {0}, NEW a \in 0 .. m - 1, NEW b \in 0 .. m - 1,
           Congruent(a, b, m)
    PROVE  a = b
<1>1. PICK k \in Int : a - b = k * m
  BY DEF Congruent
<1>2. k = 0
  BY <1>1
<1> QED BY <1>1, <1>2

(***************************************************************************)
(* energy_diff of two values of the counter is the energy between them,    *)
(* modulo MaxEnergy, whichever is the greater.                             *)
(***************************************************************************)
LEMMA DiffCongruent ==
    ASSUME NEW u \in 0 .. MaxEnergy - 1, NEW v \in 0 .. MaxEnergy - 1,
           NEW s \in Int, NEW t \in Int,
           Congruent(u, s, MaxEnergy), Congruent(v, t, MaxEnergy)
    PROVE  /\ EnergyDiff(u, v) \in 0 .. MaxEnergy - 1
           /\ Congruent(EnergyDiff(u, v), t - s, MaxEnergy)
<1>1. PICK k \in Int : u - s = k * MaxEnergy BY DEF Congruent
<1>2. PICK j \in Int : v - t = j * MaxEnergy BY DEF Congruent
<1>3. EnergyDiff(u, v) \in 0 .. MaxEnergy - 1
  BY MaxEnergyAssumption DEF EnergyDiff
<1>4. CASE v >= u
  <2>1. EnergyDiff(u, v) - (t - s) = (j - k) * MaxEnergy
    BY <1>1, <1>2, <1>4, MaxEnergyAssumption DEF EnergyDiff
  <2> QED BY <1>3, <2>1 DEF Congruent
<1>5. CASE ~ (v >= u)
  <2>1. EnergyDiff(u, v) - (t - s) = (j - k + 1) * MaxEnergy
    BY <1>1, <1>2, <1>5, MaxEnergyAssumption DEF EnergyDiff
  <2> QED BY <1>3, <2>1 DEF Congruent
<1> QED BY <1>3, <1>4, <1>5

(***************************************************************************)
(* The counter goes on with the energy, also where it goes round.          *)
(***************************************************************************)
LEMMA ConsumeCongruent ==
    ASSUME NEW u \in 0 .. MaxEnergy - 1, NEW t \in Int, Congruent(u, t, MaxEnergy)
    PROVE  Congruent(IF u + 1 = MaxEnergy THEN 0 ELSE u + 1, t + 1, MaxEnergy)
<1>1. PICK k \in Int : u - t = k * MaxEnergy BY DEF Congruent
<1>2. CASE u + 1 = MaxEnergy
  <2>1. 0 - (t + 1) = (k - 1) * MaxEnergy
    BY <1>1, <1>2, MaxEnergyAssumption
  <2> QED BY <1>2, <2>1 DEF Congruent
<1>3. CASE u + 1 # MaxEnergy
  <2>1. (u + 1) - (t + 1) = k * MaxEnergy
    BY <1>1, MaxEnergyAssumption
  <2> QED BY <1>3, <2>1 DEF Congruent
<1> QED BY <1>2, <1>3

-----------------------------------------------------------------------------
(* Types                                                                   *)
-----------------------------------------------------------------------------

PollerType == [Runs -> [state : PollerState, snapshot : Snapshot \cup {None}]]

(***************************************************************************)
(* A snapshot that is stored is one, and the counters stay natural.        *)
(***************************************************************************)
LEMMA UpdateType ==
    ASSUME TypeOK, NEW s \in Snapshot \cup {None}, UpdateCounters(s)
    PROVE  /\ last_snapshot' \in Snapshot \cup {None}
           /\ current_counters' \in Nat
           /\ origin' \in Nat \cup {-1}
           /\ collected' \in Nat
<1>1. s.uj \in -1 .. MaxEnergy - 1 /\ s.at \in Nat \cup {-1}
  BY MaxEnergyAssumption DEF Snapshot, None
<1>2. last_snapshot # None => last_snapshot.uj \in 0 .. MaxEnergy - 1
  BY DEF TypeOK, Snapshot
<1>3. last_snapshot # None => EnergyDiff(last_snapshot.uj, s.uj) \in Nat
  BY <1>1, <1>2, MaxEnergyAssumption DEF EnergyDiff
<1> QED BY <1>1, <1>3 DEF UpdateCounters, TypeOK

(* Init has the types. *)
LEMMA InitType == Init => TypeOK
  BY MaxEnergyAssumption, PowercapBoundsAssumption
     DEF Init, TypeOK, ReaderInit, ReaderTypeOK, Stages, Runs, NoPoller,
         PollerState

(* Every step keeps the types. *)
LEMMA NextType == ASSUME TypeOK, [Next]_vars PROVE TypeOK'
<1> USE DEF TypeOK, readerVars, counterVars, ghostVars, ReaderTypeOK, Stages
<1>0. ReadSnapshot \in Snapshot
  BY PowercapBoundsAssumption DEF ReadSnapshot, Snapshot
<1>1. CASE Consume
  BY <1>1, MaxEnergyAssumption, PowercapBoundsAssumption DEF Consume
<1>2. CASE PreInit
  BY <1>2, PowercapBoundsAssumption DEF PreInit, PreInitCall, Runs
<1>3. CASE InitSource
  BY <1>3 DEF InitSource, InitCall, PollerState
<1>4. CASE MeasureReads
  BY <1>0, <1>4 DEF MeasureReads
<1>5. CASE MeasureUpdates
  <2>1. new_snapshot.at \in Nat
    BY <1>5 DEF MeasureUpdates, Snapshot
  <2>2. marks' \in Seq(Nat) /\ new_snapshot' = None
    BY <1>5, <2>1 DEF MeasureUpdates
  <2>3. taken' \in Nat /\ UNCHANGED closed /\ stage' \in Stages
    BY <1>5 DEF MeasureUpdates, MeasureCall
  <2>4. UNCHANGED <<polling, run, counterVars, poller, reported>>
    BY <1>5 DEF MeasureUpdates, UpdateCounters
  <2> QED BY <1>5, <2>2, <2>3, <2>4, UpdateType DEF MeasureUpdates
<1>6. CASE Retrieve
  BY <1>6 DEF Retrieve, RetrieveCall
<1>7. CASE Join
  <2>1. \A task \in [state : PollerState, snapshot : Snapshot \cup {None}] :
           Abort(task) \in [state : PollerState, snapshot : Snapshot \cup {None}]
    BY DEF Abort, PollerState
  <2> QED BY <1>7, <2>1 DEF Join, JoinCall
<1>8. CASE JoinFails \/ Returned \/ Dropped
  BY <1>8 DEF JoinFails, Returned, Dropped, Abandon, GiveBack
<1>9. ASSUME NEW r \in Runs, PollReads(r) \/ PollFails(r) PROVE TypeOK'
  <2>1. CASE PollReads(r)
    BY <1>0, <2>1 DEF PollReads, PollerState
  <2>2. CASE PollFails(r)
    BY <2>2 DEF PollFails, PollerState
  <2> QED BY <1>9, <2>1, <2>2
<1>10. ASSUME NEW r \in Runs, PollUpdates(r) PROVE TypeOK'
  <2>1. poller[r].snapshot \in Snapshot \cup {None}
    OBVIOUS
  <2>2. poller' \in PollerType
    BY <1>10 DEF PollUpdates, PollerType, PollerState
  <2>3. UNCHANGED <<readerVars, polling, run, counterVars, new_snapshot,
                    marks, reported>>
    BY <1>10 DEF PollUpdates, UpdateCounters
  <2> QED BY <1>10, <2>1, <2>2, <2>3, UpdateType DEF PollUpdates, PollerType
<1>11. CASE UNCHANGED vars
  BY <1>11 DEF vars
<1> QED
  BY <1>1, <1>2, <1>3, <1>4, <1>5, <1>6, <1>7, <1>8, <1>9, <1>10, <1>11
     DEF Next, ProfilerCalls, Finished

-----------------------------------------------------------------------------
(* The calls and the tasks                                                 *)
-----------------------------------------------------------------------------

(***************************************************************************)
(* A run has its number, its task is spawned by init(), and there is a     *)
(* mark for each measurement and a report for each phase of it.            *)
(***************************************************************************)
CallsInv ==
    /\ stage \notin {"idle", "dropped"} => run >= 1
    /\ stage \in {"idle", "ready", "started", "dropped"} => taken = 0 /\ closed = 0
    /\ stage = "open" => taken = closed + 1
    /\ stage = "closing" => taken = closed + 2
    /\ stage \in {"ready", "started", "open", "closing", "joined"} =>
          Len(marks) = taken /\ Len(reported) = closed
    /\ Len(reported) > 0 => Len(marks) > Len(reported)
    /\ new_snapshot # None => stage \in {"started", "open"}
    /\ \A r \in Runs :
          ~ polling \/ r > run \/ (r = run /\ stage = "ready") =>
              poller[r].state = "none"

(* Before the first run nothing is marked or reported. *)
LEMMA InitCalls == Init => CallsInv
  BY DEF Init, ReaderInit, CallsInv, NoPoller

(* Marks and reports go along with the calls. *)
LEMMA NextCalls == ASSUME TypeOK, CallsInv, [Next]_vars PROVE CallsInv'
<1> USE DEF CallsInv, TypeOK, ReaderTypeOK, Stages, readerVars, ghostVars
<1>1. CASE Consume
  BY <1>1 DEF Consume
<1>2. CASE PreInit
  BY <1>2 DEF PreInit, PreInitCall, Runs
<1>3. CASE InitSource
  BY <1>3 DEF InitSource, InitCall
<1>4. CASE MeasureReads
  BY <1>4 DEF MeasureReads
<1>5. CASE MeasureUpdates
  <2>1. new_snapshot.at \in Nat
    BY <1>5 DEF MeasureUpdates, Snapshot
  <2>2. Len(marks') = Len(marks) + 1 /\ reported' = reported
    BY <1>5, <2>1 DEF MeasureUpdates, UpdateCounters
  <2>3. /\ MeasureCall /\ new_snapshot' = None
        /\ UNCHANGED <<run, polling, poller>>
    BY <1>5 DEF MeasureUpdates
  <2> QED BY <2>2, <2>3 DEF MeasureCall
<1>6. CASE Retrieve
  BY <1>6 DEF Retrieve, RetrieveCall
<1>7. CASE Join
  BY <1>7 DEF Join, JoinCall, Abort
<1>8. CASE JoinFails \/ Returned \/ Dropped
  BY <1>8 DEF JoinFails, Returned, Dropped, GiveBack, Abandon
<1>9. ASSUME NEW r \in Runs, PollReads(r) \/ PollFails(r) PROVE CallsInv'
  BY <1>9 DEF PollReads, PollFails
<1>10. ASSUME NEW r \in Runs, PollUpdates(r) PROVE CallsInv'
  BY <1>10 DEF PollUpdates, UpdateCounters
<1>11. CASE UNCHANGED vars
  BY <1>11 DEF vars
<1> QED
  BY <1>1, <1>2, <1>3, <1>4, <1>5, <1>6, <1>7, <1>8, <1>9, <1>10, <1>11
     DEF Next, ProfilerCalls, Finished

-----------------------------------------------------------------------------
(* The snapshots and the mutex                                             *)
-----------------------------------------------------------------------------

\* Task r holds the mutex of last_snapshot.
Locks(r) == poller[r].state \in {"updating", "aborted"}

\* A snapshot tells the energy at the moment it was taken.
Exact(s) == s # None => Congruent(s.uj, s.at, MaxEnergy) /\ s.at <= consumed

SnapshotsExact ==
    /\ Congruent(energy_uj, consumed, MaxEnergy)
    /\ Exact(last_snapshot) /\ Exact(new_snapshot)
    /\ \A r \in Runs : Exact(poller[r].snapshot)

(***************************************************************************)
(* At most one task holds the mutex, aborted or not, and what it has read  *)
(* is not older than the last snapshot, which only it can replace.         *)
(***************************************************************************)
Mutex ==
    /\ \A r, q \in Runs : Locks(r) /\ Locks(q) => r = q
    /\ \A r \in Runs : Locks(r) =>
          /\ poller[r].snapshot # None
          /\ last_snapshot # None =>
                last_snapshot.at <= poller[r].snapshot.at

Boundary ==
    marks # <<>> =>
        last_snapshot # None /\ last_snapshot.at >= marks[Len(marks)]

Conserved ==
    IF last_snapshot = None
    THEN origin = -1 /\ current_counters = 0 /\ collected = 0
    ELSE /\ origin \in Nat
         /\ Congruent(collected + current_counters, last_snapshot.at - origin, MaxEnergy)

EnergyInv == SnapshotsExact /\ Mutex /\ Boundary /\ Conserved

(***************************************************************************)
(* What is added at a snapshot is the energy since the last one.           *)
(***************************************************************************)
LEMMA UpdateConserved ==
    ASSUME TypeOK, Exact(last_snapshot), Conserved,
           NEW s \in Snapshot, Congruent(s.uj, s.at, MaxEnergy), UpdateCounters(s)
    PROVE  Conserved'
<1>1. s.uj \in 0 .. MaxEnergy - 1 /\ s.at \in Nat /\ s # None
  BY DEF Snapshot, None
<1>2. last_snapshot' = s /\ collected' = collected
  BY DEF UpdateCounters
<1>3. CASE last_snapshot = None
  <2>1. collected' + current_counters' = 0 /\ origin' = s.at
    BY <1>3 DEF UpdateCounters, Conserved
  <2>2. Congruent(0, s.at - s.at, MaxEnergy)
    BY <1>1, CongruentRefl, MaxEnergyAssumption
  <2> QED BY <1>1, <1>2, <2>1, <2>2 DEF Conserved
<1>4. CASE last_snapshot # None
  <2> DEFINE D == EnergyDiff(last_snapshot.uj, s.uj)
  <2>1. last_snapshot.uj \in 0 .. MaxEnergy - 1 /\ last_snapshot.at \in Nat
    BY <1>4 DEF TypeOK, Snapshot
  <2>2. D \in 0 .. MaxEnergy - 1 /\ Congruent(D, s.at - last_snapshot.at, MaxEnergy)
    BY <1>1, <1>4, <2>1, DiffCongruent DEF Exact
  <2>3. origin' = origin /\ current_counters' = current_counters + D
    BY <1>4 DEF UpdateCounters
  <2>4. /\ Congruent(collected + current_counters, last_snapshot.at - origin, MaxEnergy)
        /\ origin \in Nat /\ collected \in Nat /\ current_counters \in Nat
    BY <1>4 DEF Conserved, TypeOK
  <2> HIDE DEF D
  <2>5. Congruent(collected + current_counters + D,
                  (last_snapshot.at - origin) + (s.at - last_snapshot.at), MaxEnergy)
    BY <1>1, <2>1, <2>2, <2>4, CongruentAdd, MaxEnergyAssumption
  <2>6. /\ (last_snapshot.at - origin) + (s.at - last_snapshot.at) = s.at - origin
        /\ collected + current_counters + D = collected' + current_counters'
    BY <1>1, <1>2, <2>1, <2>2, <2>3, <2>4, MaxEnergyAssumption
  <2>7. Congruent(collected' + current_counters', s.at - origin', MaxEnergy)
    BY <2>3, <2>5, <2>6
  <2> QED BY <1>1, <1>2, <2>3, <2>4, <2>7 DEF Conserved
<1> QED BY <1>3, <1>4

(* Before the first run no snapshot is taken and nothing collected. *)
LEMMA InitEnergy == Init => EnergyInv
<1> SUFFICES ASSUME Init PROVE EnergyInv
  OBVIOUS
<1>1. Congruent(energy_uj, consumed, MaxEnergy)
  BY CongruentRefl, MaxEnergyAssumption DEF Init
<1> QED
  BY <1>1 DEF Init, EnergyInv, SnapshotsExact, Exact, Mutex, Locks, Boundary,
              Conserved, NoPoller

(***************************************************************************)
(* A step that stores nothing, and takes the mutex from or for nobody.     *)
(***************************************************************************)
LEMMA NothingStored ==
    ASSUME EnergyInv,
           UNCHANGED <<counterVars, last_snapshot, current_counters,
                       origin, collected>>,
           new_snapshot' \in {new_snapshot, None},
           marks' \in {marks, <<>>},
           \A r \in Runs : /\ Locks(r)' <=> Locks(r)
                           /\ poller'[r].snapshot = poller[r].snapshot
    PROVE  EnergyInv'
<1> USE DEF EnergyInv, counterVars
<1>1. SnapshotsExact'
  BY DEF SnapshotsExact, Exact
<1>2. Mutex'
  BY DEF Mutex
<1>3. Boundary' /\ Conserved'
  BY DEF Boundary, Conserved
<1> QED BY <1>1, <1>2, <1>3

(* Energy that is consumed is told by the register, not by a snapshot. *)
LEMMA ConsumeEnergy == ASSUME TypeOK, EnergyInv, Consume PROVE EnergyInv'
<1> USE DEF EnergyInv
<1>1. /\ consumed' = consumed + 1
      /\ energy_uj' = IF energy_uj + 1 = MaxEnergy THEN 0 ELSE energy_uj + 1
      /\ UNCHANGED <<last_snapshot, current_counters, new_snapshot, poller,
                     marks, origin, collected>>
  BY DEF Consume, ghostVars
<1>2. SnapshotsExact'
  <2>1. Congruent(energy_uj', consumed', MaxEnergy)
    BY <1>1, ConsumeCongruent DEF TypeOK, SnapshotsExact
  <2>2. consumed \in Nat
    BY DEF TypeOK
  <2>3. \A s \in Snapshot \cup {None} : Exact(s) => Exact(s)'
    BY <1>1, <2>2 DEF Exact, Snapshot
  <2> QED BY <1>1, <2>1, <2>3 DEF SnapshotsExact, TypeOK
<1>3. Mutex' /\ Boundary' /\ Conserved'
  BY <1>1 DEF Mutex, Locks, Boundary, Conserved
<1> QED BY <1>2, <1>3

(* What is read of the register is exact at that moment. *)
LEMMA ReadExact ==
    ASSUME TypeOK, SnapshotsExact
    PROVE  ReadSnapshot \in Snapshot /\ Exact(ReadSnapshot)
  BY DEF ReadSnapshot, Snapshot, Exact, SnapshotsExact, TypeOK

(* measure() reads the register before it takes the mutex. *)
LEMMA MeasureReadsEnergy ==
    ASSUME TypeOK, EnergyInv, MeasureReads PROVE EnergyInv'
<1>1. Exact(ReadSnapshot)
  BY ReadExact DEF EnergyInv
<1>2. SnapshotsExact'
  BY <1>1 DEF MeasureReads, EnergyInv, SnapshotsExact, Exact, counterVars
<1>3. Mutex' /\ Boundary' /\ Conserved'
  BY DEF MeasureReads, EnergyInv, Mutex, Locks, Boundary, Conserved, ghostVars
<1> QED BY <1>2, <1>3 DEF EnergyInv

(***************************************************************************)
(* measure() stores while nobody holds the mutex.                          *)
(***************************************************************************)
LEMMA MeasureUpdatesEnergy ==
    ASSUME TypeOK, EnergyInv, MeasureUpdates PROVE EnergyInv'
<1> USE DEF EnergyInv
<1>1. /\ new_snapshot \in Snapshot /\ Congruent(new_snapshot.uj, new_snapshot.at, MaxEnergy)
      /\ new_snapshot.at \in Nat
  BY DEF MeasureUpdates, TypeOK, SnapshotsExact, Exact, Snapshot
<1>2. Conserved'
  BY <1>1, UpdateConserved DEF MeasureUpdates, SnapshotsExact
<1>3. SnapshotsExact'
  BY DEF MeasureUpdates, UpdateCounters, SnapshotsExact, Exact, counterVars
<1>4. Mutex'
  BY DEF MeasureUpdates, LastLocked, Mutex, Locks
<1>5. Boundary'
  <2>1. marks' = Append(marks, new_snapshot.at) /\ marks \in Seq(Nat)
    BY DEF MeasureUpdates, TypeOK
  <2>2. marks'[Len(marks')] = new_snapshot.at
    BY <1>1, <2>1
  <2>3. last_snapshot' = new_snapshot /\ new_snapshot # None
    BY DEF MeasureUpdates, UpdateCounters
  <2> QED BY <1>1, <2>2, <2>3 DEF Boundary
<1> QED BY <1>2, <1>3, <1>4, <1>5

(* A polling task takes the mutex, then it reads. *)
LEMMA PollReadsEnergy ==
    ASSUME TypeOK, EnergyInv, NEW r \in Runs, PollReads(r) PROVE EnergyInv'
<1> USE DEF EnergyInv
<1>1. /\ poller'[r] = [state |-> "updating", snapshot |-> ReadSnapshot]
      /\ \A q \in Runs \ {r} : poller'[q] = poller[q]
      /\ \A q \in Runs : ~ Locks(q)
      /\ UNCHANGED <<counterVars, last_snapshot, current_counters,
                     new_snapshot, marks, origin, collected>>
  BY DEF PollReads, TypeOK, LastLocked, Locks, ghostVars
<1>2. ReadSnapshot \in Snapshot /\ Exact(ReadSnapshot) /\ ReadSnapshot # None
  BY ReadExact DEF None, Snapshot
<1>3. SnapshotsExact'
  <2>1. \A s : Exact(s)' <=> Exact(s)
    BY <1>1 DEF Exact, counterVars
  <2>2. ASSUME NEW q \in Runs PROVE Exact(poller'[q].snapshot)
    BY <1>1, <1>2 DEF SnapshotsExact
  <2> QED BY <1>1, <2>1, <2>2 DEF SnapshotsExact, counterVars
<1>4. Mutex'
  <2>1. last_snapshot # None => last_snapshot.at <= ReadSnapshot.at
    BY DEF SnapshotsExact, Exact, ReadSnapshot
  <2> QED BY <1>1, <1>2, <2>1 DEF Mutex, Locks
<1>5. Boundary' /\ Conserved'
  BY <1>1 DEF Boundary, Conserved
<1> QED BY <1>3, <1>4, <1>5

(* A polling task folds what it has read, and gives the mutex back. *)
LEMMA PollUpdatesEnergy ==
    ASSUME TypeOK, EnergyInv, NEW r \in Runs, PollUpdates(r) PROVE EnergyInv'
<1> USE DEF EnergyInv
<1> DEFINE s == poller[r].snapshot
<1>1. /\ Locks(r) /\ s # None /\ s \in Snapshot /\ Congruent(s.uj, s.at, MaxEnergy)
      /\ s.at \in Nat
  BY DEF PollUpdates, Locks, Mutex, TypeOK, SnapshotsExact, Exact, Snapshot
<1>2. /\ poller'[r].snapshot = None
      /\ poller'[r].state \in {"waiting", "ended"}
      /\ \A q \in Runs \ {r} : poller'[q] = poller[q]
  BY DEF PollUpdates, TypeOK
<1>3. last_snapshot' = s /\ UNCHANGED <<counterVars, new_snapshot, marks>>
  BY DEF PollUpdates, UpdateCounters
<1>4. Conserved'
  BY <1>1, UpdateConserved DEF PollUpdates, SnapshotsExact
<1>5. SnapshotsExact'
  <2>1. \A t : Exact(t)' <=> Exact(t)
    BY <1>3 DEF Exact, counterVars
  <2>2. Exact(s) /\ Exact(None)
    BY DEF SnapshotsExact, Exact
  <2>3. ASSUME NEW q \in Runs PROVE Exact(poller'[q].snapshot)
    BY <1>2, <2>2 DEF SnapshotsExact
  <2> QED BY <1>3, <2>1, <2>2, <2>3 DEF SnapshotsExact, counterVars
<1>6. Mutex'
  BY <1>1, <1>2 DEF Mutex, Locks
<1>7. Boundary'
  <2>1. marks # <<>> => marks[Len(marks)] \in Nat
    BY DEF TypeOK
  <2>2. last_snapshot # None => last_snapshot.at <= s.at /\ last_snapshot.at \in Nat
    BY <1>1 DEF Mutex, TypeOK, Snapshot
  <2> QED BY <1>1, <1>3, <2>1, <2>2 DEF Boundary
<1> QED BY <1>4, <1>5, <1>6, <1>7

(* No step loses energy or counts it twice. *)
LEMMA NextEnergy ==
    ASSUME TypeOK, CallsInv, EnergyInv, [Next]_vars PROVE EnergyInv'
<1> USE DEF Locks, readerVars, ghostVars
<1>1. CASE Consume
  BY <1>1, ConsumeEnergy
<1>2. CASE PreInit
  BY <1>2, NothingStored DEF PreInit
<1>3. CASE InitSource
  <2>1. \A r \in Runs : /\ Locks(r)' <=> Locks(r)
                        /\ poller'[r].snapshot = poller[r].snapshot
    BY <1>3 DEF InitSource, InitCall, TypeOK, CallsInv
  <2> QED BY <1>3, <2>1, NothingStored DEF InitSource
<1>4. CASE MeasureReads
  BY <1>4, MeasureReadsEnergy
<1>5. CASE MeasureUpdates
  BY <1>5, MeasureUpdatesEnergy
<1>6. CASE Retrieve
  <2>1. SnapshotsExact' /\ Mutex' /\ Boundary'
    BY <1>6 DEF Retrieve, EnergyInv, SnapshotsExact, Exact, Mutex, Boundary,
                counterVars
  <2>2. Conserved'
    BY <1>6 DEF Retrieve, EnergyInv, Conserved, TypeOK
  <2> QED BY <2>1, <2>2 DEF EnergyInv
<1>7. CASE Join
  <2>1. \A r \in Runs : /\ Locks(r)' <=> Locks(r)
                        /\ poller'[r].snapshot = poller[r].snapshot
    BY <1>7 DEF Join, Abort, TypeOK
  <2> QED BY <1>7, <2>1, NothingStored DEF Join
<1>8. CASE JoinFails \/ Returned \/ Dropped
  BY <1>8, NothingStored DEF JoinFails, Returned, Dropped
<1>9. ASSUME NEW r \in Runs, PollReads(r) PROVE EnergyInv'
  BY <1>9, PollReadsEnergy
<1>10. ASSUME NEW r \in Runs, PollFails(r) PROVE EnergyInv'
  <2>1. \A q \in Runs : /\ Locks(q)' <=> Locks(q)
                        /\ poller'[q].snapshot = poller[q].snapshot
    BY <1>10 DEF PollFails, TypeOK
  <2> QED BY <1>10, <2>1, NothingStored DEF PollFails
<1>11. ASSUME NEW r \in Runs, PollUpdates(r) PROVE EnergyInv'
  BY <1>11, PollUpdatesEnergy
<1>12. CASE UNCHANGED vars
  BY <1>12, NothingStored DEF vars
<1> QED
  BY <1>1, <1>2, <1>3, <1>4, <1>5, <1>6, <1>7, <1>8, <1>9, <1>10, <1>11,
     <1>12 DEF Next, ProfilerCalls, Finished

-----------------------------------------------------------------------------
(* Phases without polling                                                  *)
-----------------------------------------------------------------------------

(***************************************************************************)
(* Without polling the last snapshot is that of the last measurement, and  *)
(* less than MaxEnergy was consumed since then.  Once a phase is closed,   *)
(* and in a first run, current_counters is the energy of the open phase.   *)
(***************************************************************************)
Fresh ==
    /\ run = 0 \/ (run = 1 /\ stage \in {"ready", "started"}) =>
          last_snapshot = None
    /\ last_snapshot # None => consumed - last_snapshot.at < MaxEnergy
    /\ new_snapshot # None =>
          /\ consumed - new_snapshot.at < MaxEnergy
          /\ last_snapshot # None => last_snapshot.at <= new_snapshot.at
    /\ marks # <<>> =>
          last_snapshot # None /\ last_snapshot.at = marks[Len(marks)]

OpenPhase ==
    closed > 0 \/ run = 1 =>
        /\ stage = "open" => current_counters = 0
        /\ stage = "closing" =>
              current_counters = marks[closed + 2] - marks[closed + 1]

PhaseInv == (~ polling => Fresh /\ OpenPhase) /\ PhaseEnergyExact

(* Before the first run no phase is open. *)
LEMMA InitPhase == Init => PhaseInv
  BY DEF Init, ReaderInit, PhaseInv, Fresh, OpenPhase, PhaseEnergyExact

(***************************************************************************)
(* A step that reports nothing leaves what was reported exact, unless a    *)
(* run begins.                                                             *)
(***************************************************************************)
LEMMA ReportsKept ==
    ASSUME TypeOK, CallsInv, PhaseEnergyExact,
           UNCHANGED <<polling, run, reported>>,
           \/ marks' = marks
           \/ \E at \in Nat : marks' = Append(marks, at)
    PROVE  PhaseEnergyExact'
<1>1. \A k \in 1 .. Len(marks) : marks'[k] = marks[k]
  <2>1. ASSUME NEW at \in Nat, marks' = Append(marks, at)
        PROVE  \A k \in 1 .. Len(marks) : marks'[k] = marks[k]
    BY <2>1 DEF TypeOK
  <2> QED BY <2>1
<1>2. Len(reported) \in Nat /\ Len(marks) \in Nat
  BY DEF TypeOK
<1>3. \A k \in 1 .. Len(reported) : k \in 1 .. Len(marks) /\ k + 1 \in 1 .. Len(marks)
  BY <1>2 DEF CallsInv
<1> QED BY <1>1, <1>3 DEF PhaseEnergyExact

(***************************************************************************)
(* A measurement that opens a phase leaves nothing collected; the one that *)
(* closes it collects its energy.                                          *)
(***************************************************************************)
LEMMA MeasureUpdatesPhase ==
    ASSUME TypeOK, CallsInv, EnergyInv, Fresh, OpenPhase, ~ polling,
           MeasureUpdates
    PROVE  Fresh' /\ OpenPhase'
<1>1. /\ new_snapshot \in Snapshot /\ new_snapshot # None
      /\ new_snapshot.at \in Nat /\ new_snapshot.uj \in 0 .. MaxEnergy - 1
      /\ Congruent(new_snapshot.uj, new_snapshot.at, MaxEnergy)
      /\ new_snapshot.at <= consumed
  BY DEF MeasureUpdates, TypeOK, Snapshot, EnergyInv, SnapshotsExact, Exact
<1>2. /\ MeasureCall /\ new_snapshot' = None
      /\ last_snapshot' = new_snapshot
      /\ marks' = Append(marks, new_snapshot.at)
      /\ UNCHANGED <<run, consumed>>
  BY DEF MeasureUpdates, UpdateCounters, counterVars
<1>3. /\ Len(marks') = Len(marks) + 1
      /\ marks'[Len(marks')] = new_snapshot.at
      /\ marks # <<>> => marks'[Len(marks)] = marks[Len(marks)]
      /\ marks' # <<>>
  BY <1>1, <1>2 DEF TypeOK
<1>4. Fresh'
  BY <1>1, <1>2, <1>3 DEF Fresh, MeasureCall, CallsInv
<1>5. OpenPhase'
  <2> SUFFICES ASSUME closed > 0 \/ run = 1
               PROVE  /\ stage' = "open" => current_counters' = 0
                      /\ stage' = "closing" =>
                            current_counters' = marks'[closed + 2] - marks'[closed + 1]
    BY <1>2 DEF OpenPhase, MeasureCall
  <2>1. CASE stage = "started" /\ stage' = "open"
    <3>1. last_snapshot = None /\ current_counters = 0
      BY <2>1 DEF Fresh, EnergyInv, Conserved, CallsInv
    <3> QED BY <2>1, <3>1 DEF MeasureUpdates, UpdateCounters
  <2>2. CASE stage = "open" /\ stage' = "closing"
    <3>1. /\ Len(marks) = closed + 1 /\ closed \in Nat /\ marks # <<>>
          /\ current_counters = 0
      BY <2>2 DEF CallsInv, OpenPhase, TypeOK, ReaderTypeOK
    <3>2. /\ last_snapshot # None
          /\ last_snapshot.at = marks[closed + 1]
          /\ last_snapshot.at \in Nat /\ last_snapshot.uj \in 0 .. MaxEnergy - 1
          /\ Congruent(last_snapshot.uj, last_snapshot.at, MaxEnergy)
      BY <3>1 DEF Fresh, TypeOK, Snapshot, EnergyInv, SnapshotsExact, Exact
    <3>3. new_snapshot.at - last_snapshot.at \in 0 .. MaxEnergy - 1
      <4>1. /\ consumed - last_snapshot.at < MaxEnergy /\ consumed \in Nat
            /\ last_snapshot.at <= new_snapshot.at
        BY <1>1, <3>2 DEF Fresh, TypeOK
      <4> QED BY <1>1, <3>2, <4>1, MaxEnergyAssumption
    <3>4. EnergyDiff(last_snapshot.uj, new_snapshot.uj)
             = new_snapshot.at - last_snapshot.at
      <4>1. MaxEnergy \in Nat \ {0}
        BY MaxEnergyAssumption
      <4>2. /\ EnergyDiff(last_snapshot.uj, new_snapshot.uj) \in 0 .. MaxEnergy - 1
            /\ Congruent(EnergyDiff(last_snapshot.uj, new_snapshot.uj),
                         new_snapshot.at - last_snapshot.at, MaxEnergy)
        BY <1>1, <3>2, DiffCongruent
      <4> QED BY <3>3, <4>1, <4>2, CongruentEqual
    <3>5. current_counters' = new_snapshot.at - last_snapshot.at
      BY <1>1, <3>1, <3>2, <3>4 DEF MeasureUpdates, UpdateCounters
    <3> QED BY <1>3, <2>2, <3>1, <3>2, <3>5
  <2> QED BY <1>2, <2>1, <2>2 DEF MeasureCall
<1> QED BY <1>4, <1>5

(* What is retrieved was collected between the last two marks. *)
LEMMA RetrievePhase ==
    ASSUME TypeOK, CallsInv, PhaseInv, Retrieve PROVE PhaseInv'
<1>1. /\ stage = "closing" /\ stage' = "open" /\ closed' = closed + 1
      /\ reported' = Append(reported, current_counters)
      /\ current_counters' = 0
      /\ UNCHANGED <<polling, run, consumed, last_snapshot, new_snapshot, marks>>
  BY DEF Retrieve, RetrieveCall, counterVars
<1>2. ~ polling => Fresh' /\ OpenPhase'
  BY <1>1 DEF PhaseInv, Fresh, OpenPhase
<1>3. PhaseEnergyExact'
  <2> SUFFICES ASSUME ~ polling, NEW k \in 1 .. Len(reported'), k > 1 \/ run = 1
               PROVE  reported'[k] = marks[k + 1] - marks[k]
    BY <1>1 DEF PhaseEnergyExact
  <2>1. /\ Len(reported) = closed /\ Len(marks) = closed + 2
        /\ reported \in Seq(Nat) /\ current_counters \in Nat
    BY <1>1 DEF CallsInv, TypeOK
  <2>2. CASE k <= closed
    <3>1. reported'[k] = reported[k]
      BY <1>1, <2>1, <2>2
    <3> QED BY <2>1, <2>2, <3>1 DEF PhaseInv, PhaseEnergyExact
  <2>3. CASE k = closed + 1
    <3>1. reported'[k] = current_counters
      BY <1>1, <2>1, <2>3
    <3> QED BY <1>1, <2>3, <3>1 DEF PhaseInv, OpenPhase, TypeOK, ReaderTypeOK
  <2> QED BY <1>1, <2>1, <2>2, <2>3
<1> QED BY <1>1, <1>2, <1>3 DEF PhaseInv

(* Every step keeps the phases exact. *)
LEMMA NextPhase ==
    ASSUME TypeOK, CallsInv, EnergyInv, PhaseInv, [Next]_vars
    PROVE  PhaseInv'
<1> USE DEF readerVars, counterVars, ghostVars
<1>1. CASE Consume
  <2>1. PhaseEnergyExact'
    BY <1>1, ReportsKept DEF Consume, PhaseInv
  <2>2. ~ polling => Fresh'
    BY <1>1 DEF Consume, PhaseInv, Fresh, TypeOK, Snapshot
  <2>3. ~ polling => OpenPhase'
    BY <1>1 DEF Consume, PhaseInv, OpenPhase
  <2> QED BY <1>1, <2>1, <2>2, <2>3 DEF Consume, PhaseInv
<1>2. CASE PreInit
  <2>1. PhaseEnergyExact'
    BY <1>2 DEF PreInit, PhaseEnergyExact
  <2>2. ~ polling => Fresh' /\ OpenPhase'
    BY <1>2 DEF PreInit, PreInitCall, PhaseInv, Fresh, OpenPhase, TypeOK
  <2> QED BY <1>2, <2>1, <2>2 DEF PreInit, PhaseInv
<1>3. CASE InitSource
  <2>1. PhaseEnergyExact'
    BY <1>3, ReportsKept DEF InitSource, PhaseInv
  <2>2. ~ polling => Fresh' /\ OpenPhase'
    BY <1>3 DEF InitSource, InitCall, PhaseInv, Fresh, OpenPhase
  <2> QED BY <1>3, <2>1, <2>2 DEF InitSource, PhaseInv
<1>4. CASE MeasureReads
  <2>1. PhaseEnergyExact'
    BY <1>4, ReportsKept DEF MeasureReads, PhaseInv
  <2>2. ~ polling => Fresh'
    BY <1>4, MaxEnergyAssumption
       DEF MeasureReads, ReadSnapshot, PhaseInv, Fresh, EnergyInv,
           SnapshotsExact, Exact, TypeOK
  <2>3. ~ polling => OpenPhase'
    BY <1>4 DEF MeasureReads, PhaseInv, OpenPhase
  <2> QED BY <1>4, <2>1, <2>2, <2>3 DEF MeasureReads, PhaseInv
<1>5. CASE MeasureUpdates
  <2>1. new_snapshot.at \in Nat
    BY <1>5 DEF MeasureUpdates, TypeOK, Snapshot
  <2>2. PhaseEnergyExact'
    BY <1>5, <2>1, ReportsKept DEF MeasureUpdates, UpdateCounters, PhaseInv
  <2> QED BY <1>5, <2>2, MeasureUpdatesPhase DEF MeasureUpdates, PhaseInv
<1>6. CASE Retrieve
  BY <1>6, RetrievePhase
<1>7. CASE Join
  <2>1. PhaseEnergyExact'
    BY <1>7, ReportsKept DEF Join, PhaseInv
  <2>2. ~ polling => Fresh' /\ OpenPhase'
    BY <1>7 DEF Join, JoinCall, PhaseInv, Fresh, OpenPhase
  <2> QED BY <1>7, <2>1, <2>2 DEF Join, PhaseInv
<1>8. CASE JoinFails \/ Returned \/ Dropped
  <2>1. PhaseEnergyExact'
    BY <1>8, ReportsKept DEF JoinFails, Returned, Dropped, PhaseInv
  <2>2. ~ polling => Fresh'
    BY <1>8 DEF JoinFails, Returned, Dropped, GiveBack, Abandon, PhaseInv, Fresh
  <2>3. ~ polling => OpenPhase'
    BY <1>8 DEF JoinFails, Returned, Dropped, GiveBack, Abandon, OpenPhase
  <2> QED BY <1>8, <2>1, <2>2, <2>3 DEF JoinFails, Returned, Dropped, PhaseInv
<1>9. ASSUME NEW r \in Runs, PollReads(r) \/ PollFails(r) \/ PollUpdates(r)
      PROVE  PhaseInv'
  <2>1. polling /\ polling' = polling
    BY <1>9 DEF PollReads, PollFails, PollUpdates, CallsInv
  <2> QED BY <2>1 DEF PhaseInv, PhaseEnergyExact
<1>10. CASE UNCHANGED vars
  BY <1>10 DEF vars, PhaseInv, Fresh, OpenPhase, PhaseEnergyExact
<1> QED
  BY <1>1, <1>2, <1>3, <1>4, <1>5, <1>6, <1>7, <1>8, <1>9, <1>10
     DEF Next, ProfilerCalls, Finished

-----------------------------------------------------------------------------

(***************************************************************************)
(* The inductive invariant, and that it is one.                            *)
(***************************************************************************)
IInv == TypeOK /\ CallsInv /\ EnergyInv /\ PhaseInv

(* IInv holds in every state. *)
THEOREM Invariance == Spec => []IInv
<1>1. Init => IInv
  BY InitType, InitCalls, InitEnergy, InitPhase DEF IInv
<1>2. IInv /\ [Next]_vars => IInv'
  BY NextType, NextCalls, NextEnergy, NextPhase DEF IInv
<1> QED BY <1>1, <1>2, PTL DEF Spec

(* No variable ever leaves its type: the register stays in its range. *)
THEOREM TypeCorrectness == Spec => []TypeOK
  BY Invariance, PTL DEF IInv

(***************************************************************************)
(* Without polling, a phase is what was consumed between the measurements  *)
(* that delimit it, for every range of the counter and number of calls.    *)
(***************************************************************************)
THEOREM PhasesExact == Spec => []PhaseEnergyExact
<1>1. IInv => PhaseEnergyExact
  BY DEF IInv, PhaseInv
<1> QED BY <1>1, Invariance, PTL

(***************************************************************************)
(* No energy is lost or counted twice, with any number of polling tasks    *)
(* at any point of their loop, aborted or not.                             *)
(***************************************************************************)
THEOREM Conservation == Spec => []EnergyConserved
<1>1. IInv => EnergyConserved
  <2> SUFFICES ASSUME IInv, last_snapshot # None
               PROVE  (collected + current_counters - (last_snapshot.at - origin))
                         % MaxEnergy = 0
    BY DEF EnergyConserved
  <2>1. /\ Congruent(collected + current_counters, last_snapshot.at - origin, MaxEnergy)
        /\ origin \in Nat /\ collected \in Nat /\ current_counters \in Nat
        /\ last_snapshot.at \in Nat
    BY DEF IInv, EnergyInv, Conserved, TypeOK, Snapshot
  <2> DEFINE a == collected + current_counters
             b == last_snapshot.at - origin
  <2>2. MaxEnergy \in Nat \ {0} /\ a \in Int /\ b \in Int
    BY <2>1, MaxEnergyAssumption
  <2>3. Congruent(a, b, MaxEnergy)
    BY <2>1
  <2> HIDE DEF a, b
  <2>4. (a - b) % MaxEnergy = 0
    BY <2>2, <2>3, CongruentZero
  <2> QED BY <2>1, <2>4, MaxEnergyAssumption DEF a, b
<1> QED BY <1>1, Invariance, PTL

(***************************************************************************)
(* No poll that read before a boundary replaces its snapshot.              *)
(***************************************************************************)
THEOREM BoundariesKept == Spec => []BoundaryKept
<1>1. IInv => BoundaryKept
  BY DEF IInv, EnergyInv, Boundary, BoundaryKept
<1> QED BY <1>1, Invariance, PTL

=============================================================================
