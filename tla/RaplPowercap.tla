---------------------------- MODULE RaplPowercap ----------------------------
(***************************************************************************)
(* The RAPL source that reads the powercap files                           *)
(* (sources/rapl/src/powercap/mod.rs and compute.rs).                      *)
(*                                                                         *)
(* A domain's energy_uj file is a counter that goes back to 0 when it      *)
(* reaches max_energy_uj.  measure() reads it, adds the difference to the  *)
(* last snapshot to current_counters and becomes the last snapshot;        *)
(* retrieve() takes current_counters.  With a poll interval, a task does   *)
(* what measure() does at every tick, so that a counter does not go round  *)
(* unseen.  The two share last_snapshot and current_counters, each under a *)
(* mutex.  Domains are read and added up independently: one is modelled.   *)
(*                                                                         *)
(* The mutex of last_snapshot is held by a task that is "updating".  That  *)
(* of current_counters is only ever held for one step, so it needs no      *)
(* state.  A snapshot carries, beside the value read, the true energy at   *)
(* that moment, for the properties only.                                   *)
(***************************************************************************)
EXTENDS MetricReader, Integers, Sequences

CONSTANTS
    MaxEnergy,    \* max_energy_uj of the domain
    MaxRuns,      \* bound: runs of the profiler with this source
    MaxMeasures,  \* bound: measure() calls in a run
    MaxConsumed   \* bound: energy the domain consumes altogether

ASSUME MaxEnergyAssumption == MaxEnergy \in Nat \ {0, 1}
ASSUME PowercapBoundsAssumption ==
    MaxRuns \in Nat /\ MaxMeasures \in Nat /\ MaxConsumed \in Nat

VARIABLES
    polling,           \* poll_interval is set
    run,               \* runs so far
    energy_uj,         \* the counter, as the file shows it
    consumed,          \* the true energy since the counter was last at 0
    last_snapshot,     \* the last snapshot stored, or None
    current_counters,  \* the energy of the phase so far
    new_snapshot,      \* what a measure() under way has read, or None
    poller,            \* poller[r]: the polling task spawned in run r
    marks,             \* true energy at each measure() of this run
    reported,          \* what retrieve() returned in this run
    origin,            \* true energy at the first snapshot of all, or None
    collected          \* sum of all that retrieve() ever returned

counterVars == <<energy_uj, consumed>>
ghostVars   == <<marks, reported, origin, collected>>
vars == <<readerVars, polling, run, counterVars, last_snapshot,
          current_counters, new_snapshot, poller, ghostVars>>

None == [uj |-> -1, at |-> -1]
Snapshot == [uj : 0 .. MaxEnergy - 1, at : Nat]
Runs == 1 .. MaxRuns

\* aborted: abort() was called while the task was between two ticks' awaits.
PollerState == {"none", "waiting", "updating", "aborted", "failed", "ended"}
NoPoller == [state |-> "none", snapshot |-> None]

TypeOK ==
    /\ ReaderTypeOK
    /\ polling \in BOOLEAN
    /\ run \in 0 .. MaxRuns
    /\ energy_uj \in 0 .. MaxEnergy - 1
    /\ consumed \in 0 .. MaxConsumed
    /\ last_snapshot \in Snapshot \cup {None}
    /\ current_counters \in Nat
    /\ new_snapshot \in Snapshot \cup {None}
    /\ poller \in [Runs -> [state : PollerState,
                            snapshot : Snapshot \cup {None}]]
    /\ marks \in Seq(Nat)
    /\ reported \in Seq(Nat)
    /\ origin \in Nat \cup {-1}
    /\ collected \in Nat

-----------------------------------------------------------------------------

\* Seeded fault: one more is lost at the overflow.
EnergyDiffOffByOne(start, end) ==
    IF end >= start THEN end - start ELSE (MaxEnergy - 1 - start) + end

\* energy_diff: an end below the start is a counter that overflowed once.
EnergyDiff(start, end) ==
    IF end >= start THEN end - start ELSE (MaxEnergy - start) + end

ReadSnapshot == [uj |-> energy_uj, at |-> consumed]

\* Somebody holds the mutex of last_snapshot.
LastLocked == \E r \in Runs : poller[r].state \in {"updating", "aborted"}

\* compute_measurement_from_snapshots, *counters += metrics, *last = new.
UpdateCounters(new) ==
    /\ last_snapshot' = new
    /\ current_counters' =
          IF last_snapshot = None THEN current_counters
          ELSE current_counters + EnergyDiff(last_snapshot.uj, new.uj)
    /\ origin' = IF last_snapshot = None THEN new.at ELSE origin
    /\ UNCHANGED <<reported, collected>>

(***************************************************************************)
(* The domain consumes energy.  It is assumed not to consume max_energy_uj *)
(* between two snapshots it stores: else nothing that the source reads     *)
(* could tell.                                                             *)
(***************************************************************************)
Consume ==
    /\ consumed < MaxConsumed
    /\ \A s \in {last_snapshot, new_snapshot} \ {None} :
          consumed + 1 - s.at < MaxEnergy
    /\ consumed' = consumed + 1
    /\ energy_uj' = IF energy_uj + 1 = MaxEnergy THEN 0 ELSE energy_uj + 1
    /\ UNCHANGED <<readerVars, polling, run, last_snapshot, current_counters,
                   new_snapshot, poller, ghostVars>>

-----------------------------------------------------------------------------
(* The calls of the profiler                                               *)
-----------------------------------------------------------------------------

\* The trait's default: nothing happens, a run begins.
PreInit ==
    /\ run < MaxRuns
    /\ PreInitCall
    /\ run' = run + 1
    /\ marks' = <<>> /\ reported' = <<>>
    /\ UNCHANGED <<polling, counterVars, last_snapshot, current_counters,
                   new_snapshot, poller, origin, collected>>

InitSource ==
    /\ InitCall
    /\ poller' = IF polling
                 THEN [poller EXCEPT ![run].state = "waiting"] ELSE poller
    /\ UNCHANGED <<polling, run, counterVars, last_snapshot, current_counters,
                   new_snapshot, ghostVars>>

\* measure() reads the files first, and only then waits for the mutex.
MeasureReads ==
    /\ stage \in {"started", "open"}
    /\ taken < MaxMeasures
    /\ new_snapshot = None
    /\ new_snapshot' = ReadSnapshot
    /\ UNCHANGED <<readerVars, polling, run, counterVars, last_snapshot,
                   current_counters, poller, ghostVars>>

\* Seeded fault: measure() does not take the mutex of last_snapshot.
MeasureUpdatesUnlocked ==
    /\ new_snapshot # None
    /\ MeasureCall
    /\ UpdateCounters(new_snapshot)
    /\ marks' = Append(marks, new_snapshot.at)
    /\ new_snapshot' = None
    /\ UNCHANGED <<polling, run, counterVars, poller>>

MeasureUpdates ==
    /\ new_snapshot # None
    /\ ~ LastLocked
    /\ MeasureCall
    /\ UpdateCounters(new_snapshot)
    /\ marks' = Append(marks, new_snapshot.at)
    /\ new_snapshot' = None
    /\ UNCHANGED <<polling, run, counterVars, poller>>

\* Seeded fault: the counters are copied out, not taken.
RetrieveCopies ==
    /\ RetrieveCall
    /\ reported' = Append(reported, current_counters)
    /\ collected' = collected + current_counters
    /\ UNCHANGED <<polling, run, counterVars, last_snapshot, current_counters,
                   new_snapshot, poller, marks, origin>>

Retrieve ==
    /\ RetrieveCall
    /\ reported' = Append(reported, current_counters)
    /\ collected' = collected + current_counters
    /\ current_counters' = 0
    /\ UNCHANGED <<polling, run, counterVars, last_snapshot, new_snapshot,
                   poller, marks, origin>>

\* abort() takes effect at the task's next await, the tick.
Abort(task) ==
    CASE task.state = "waiting"  -> [task EXCEPT !.state = "ended"]
      [] task.state = "updating" -> [task EXCEPT !.state = "aborted"]
      [] OTHER                   -> task

Join ==
    /\ new_snapshot = None
    /\ JoinCall
    /\ poller[run].state # "failed"
    /\ poller' = [poller EXCEPT ![run] = Abort(@)]
    /\ UNCHANGED <<polling, run, counterVars, last_snapshot, current_counters,
                   new_snapshot, ghostVars>>

\* A task that finished can only have failed: its error is that of join().
JoinFails ==
    /\ new_snapshot = None
    /\ stage \in {"started", "open", "closing"}
    /\ poller[run].state = "failed"
    /\ Abandon
    /\ UNCHANGED <<polling, run, counterVars, last_snapshot, current_counters,
                   new_snapshot, poller, ghostVars>>

Returned ==
    /\ GiveBack
    /\ UNCHANGED <<polling, run, counterVars, last_snapshot, current_counters,
                   new_snapshot, poller, ghostVars>>

\* Also a read that fails in measure().  Nobody aborts the task then.
Dropped ==
    /\ Abandon
    /\ new_snapshot' = None
    /\ UNCHANGED <<polling, run, counterVars, last_snapshot,
                   current_counters, poller, ghostVars>>

-----------------------------------------------------------------------------
(* The polling task.  A tick that finds the mutex taken does nothing.      *)
-----------------------------------------------------------------------------

PollReads(r) ==
    /\ poller[r].state = "waiting"
    /\ ~ LastLocked
    /\ poller' = [poller EXCEPT ![r] = [state    |-> "updating",
                                        snapshot |-> ReadSnapshot]]
    /\ UNCHANGED <<readerVars, polling, run, counterVars, last_snapshot,
                   current_counters, new_snapshot, ghostVars>>

PollFails(r) ==
    /\ poller[r].state = "waiting"
    /\ ~ LastLocked
    /\ poller' = [poller EXCEPT ![r].state = "failed"]
    /\ UNCHANGED <<readerVars, polling, run, counterVars, last_snapshot,
                   current_counters, new_snapshot, ghostVars>>

\* Seeded fault: the guard of last_snapshot lives across the next await.
PollUpdatesKeepsLock(r) ==
    /\ poller[r].state \in {"updating", "aborted"}
    /\ UpdateCounters(poller[r].snapshot)
    /\ poller' = [poller EXCEPT ![r] = [state    |-> poller[r].state,
                                        snapshot |-> ReadSnapshot]]
    /\ UNCHANGED <<readerVars, polling, run, counterVars, new_snapshot, marks>>

PollUpdates(r) ==
    /\ poller[r].state \in {"updating", "aborted"}
    /\ UpdateCounters(poller[r].snapshot)
    /\ poller' = [poller EXCEPT ![r] =
                    [state    |-> IF poller[r].state = "updating"
                                  THEN "waiting" ELSE "ended",
                     snapshot |-> None]]
    /\ UNCHANGED <<readerVars, polling, run, counterVars, new_snapshot, marks>>

Init ==
    /\ ReaderInit
    /\ polling \in BOOLEAN
    /\ run = 0
    /\ energy_uj = 0 /\ consumed = 0
    /\ last_snapshot = None /\ current_counters = 0 /\ new_snapshot = None
    /\ poller = [r \in Runs |-> NoPoller]
    /\ marks = <<>> /\ reported = <<>> /\ origin = -1 /\ collected = 0

\* No call is left to make: the only states in which the system may rest.
Finished ==
    /\ stage = "dropped" \/ (stage = "idle" /\ run = MaxRuns)
    /\ UNCHANGED vars

ProfilerCalls ==
    \/ PreInit \/ InitSource \/ MeasureReads \/ MeasureUpdates \/ Retrieve
    \/ Join \/ JoinFails \/ Returned \/ Dropped

Next ==
    \/ Consume
    \/ ProfilerCalls
    \/ \E r \in Runs : PollReads(r) \/ PollFails(r) \/ PollUpdates(r)
    \/ Finished

Spec == Init /\ [][Next]_vars

(***************************************************************************)
(* Fairness.  A task that holds the mutex does not await, so it goes on.   *)
(* The worker's lock() succeeds if the mutex is free again and again: the  *)
(* polling task takes it at most once per tick.                            *)
(***************************************************************************)
FairSpec ==
    /\ Spec
    /\ \A r \in Runs : WF_vars(PollUpdates(r))
    /\ SF_vars(MeasureUpdates)

-----------------------------------------------------------------------------

(***************************************************************************)
(* Without polling, the energy of a phase is what the domain consumed      *)
(* between the two measurements that delimit it, through overflows of the  *)
(* counter and whatever the phases before it were.  (The first phase of a  *)
(* second run also holds what was consumed since the first run.)           *)
(***************************************************************************)
PhaseEnergyExact ==
    ~ polling =>
        \A k \in 1 .. Len(reported) :
            k > 1 \/ run = 1 => reported[k] = marks[k + 1] - marks[k]

(***************************************************************************)
(* No energy is lost or counted twice, modulo max_energy_uj, whatever the  *)
(* interleaving of measure(), retrieve(), polls, aborts and runs: what was *)
(* returned and what is held add up to the energy between the first and    *)
(* the last snapshot stored.                                               *)
(***************************************************************************)
EnergyConserved ==
    last_snapshot # None =>
        (collected + current_counters - (last_snapshot.at - origin))
            % MaxEnergy = 0

(***************************************************************************)
(* Once a measurement is stored nothing older replaces it: the snapshot    *)
(* the next phase starts from is the one that closed this one, or a later  *)
(* poll, never a poll that read before the boundary and wrote after it.    *)
(***************************************************************************)
BoundaryKept ==
    marks # <<>> /\ stage # "dropped" =>
        last_snapshot.at >= marks[Len(marks)]

(***************************************************************************)
(* A measurement waits for the mutex of a poll that is under way, never    *)
(* for ever: no poll, aborted or not, keeps last_snapshot locked.          *)
(***************************************************************************)
MeasureEnds == new_snapshot # None ~> new_snapshot = None

=============================================================================
