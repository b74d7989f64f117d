---------------------------- MODULE PerfCounters ----------------------------
(***************************************************************************)
(* The two sources that count with perf_event: RAPL domains                *)
(* (sources/rapl/src/perf) and hardware events (sources/perf_event/src).   *)
(* They delimit phases alike (SnapshotPair) and differ in three things:    *)
(* when counters are opened and for which keys, how two readings are       *)
(* subtracted, and whether the differences are summed.                     *)
(*                                                                         *)
(*  rapl    opened by pre_init(), a key per domain and socket; each is     *)
(*          reported on its own (the factor to microjoules is left out).   *)
(*  pid     opened by init() on the process, which is spawned by then; a   *)
(*          single key.                                                    *)
(*  cgroup  opened by pre_init() on an existing cgroup, a key per CPU; the *)
(*          differences are summed.                                        *)
(*                                                                         *)
(* Events are independent of each other: one is modelled.  All keys are    *)
(* read in one step: each only matters to its own difference.              *)
(***************************************************************************)
EXTENDS SnapshotPair, Integers, FiniteSetsExt

CONSTANTS
    Keys,          \* online CPUs, or domains of the sockets
    CounterRange,  \* counters are modulo CounterRange, 2^64 in the code
    MaxRuns,       \* bound: runs of the profiler with this source
    MaxMeasures,   \* bound: measure() calls in a run
    MaxCounted     \* bound: what is counted altogether

PID_CPU == 0

ASSUME KeysAssumption == PID_CPU \in Keys /\ IsFiniteSet(Keys)
ASSUME RangeAssumption == CounterRange \in Nat \ {0, 1}
ASSUME PerfBoundsAssumption ==
    MaxRuns \in Nat /\ MaxMeasures \in Nat /\ MaxCounted \in Nat

VARIABLES
    target,     \* what is counted: "rapl", "pid" or "cgroup"
    cpu_spec,   \* the CPUs configured for a cgroup, {} when none are
    run,        \* runs so far
    counters,   \* the open counters: a function from keys to values
    counted,    \* the true count per key
    marks       \* counted at each measure() of this run

vars == <<readerVars, pairVars, target, cpu_spec, run, counters, counted, marks>>

Value == 0 .. CounterRange - 1

\* energy_diff of RAPL, with u64::MAX = CounterRange - 1.
EnergyDiff(start, end) ==
    IF end >= start THEN end - start ELSE (CounterRange - 1 - start) + end

\* Seeded fault: a difference below zero is taken for zero.
WrappingSubSaturates(current, prev) ==
    IF current >= prev THEN current - prev ELSE 0

WrappingSub(current, prev) == (current - prev) % CounterRange

\* Per key.  In perf_event, a CPU that begin does not know counts from 0.
Diff(phase) ==
    [key \in DOMAIN phase.end |->
        CASE target = "rapl" ->
                EnergyDiff(phase.begin[key], phase.end[key])
          [] target # "rapl" /\ key \in DOMAIN phase.begin ->
                WrappingSub(phase.end[key], phase.begin[key])
          [] OTHER -> phase.end[key]]

\* The metrics of a phase: one per domain, or the total of an event.
Metrics(values) ==
    IF target = "rapl" THEN values
    ELSE <<MapThenSumSet(LAMBDA key : values[key], DOMAIN values)>>

\* to_metrics, on the phases accumulated so far.
Reported(k) == Metrics(Diff(snapshots[k]))

TypeOK ==
    /\ ReaderTypeOK
    /\ target \in {"rapl", "pid", "cgroup"}
    /\ cpu_spec \in SUBSET Keys
    /\ run \in 0 .. MaxRuns
    /\ DOMAIN counters \subseteq Keys
    /\ \A key \in DOMAIN counters : counters[key] \in Value
    /\ counted \in [Keys -> 0 .. MaxCounted]
    /\ \A k \in 1 .. Len(snapshots) :
          \A key \in DOMAIN snapshots[k].end : Diff(snapshots[k])[key] \in Value

-----------------------------------------------------------------------------

(***************************************************************************)
(* Something is counted.  A counter is assumed not to go round in one      *)
(* phase: then nothing the source reads could tell.                        *)
(***************************************************************************)
CountEvent(key) ==
    /\ MapThenSumSet(LAMBDA k : counted[k], Keys) < MaxCounted
    /\ target = "pid" => key = PID_CPU
    /\ marks # <<>> => counted[key] + 1 - marks[Len(marks)][key] < CounterRange
    /\ counted' = [counted EXCEPT ![key] = @ + 1]
    /\ counters' = [k \in DOMAIN counters |->
                      IF k = key THEN (counters[k] + 1) % CounterRange
                      ELSE counters[k]]
    /\ UNCHANGED <<readerVars, pairVars, target, cpu_spec, run, marks>>

\* New counters, at 0, in place of those of the run before.
OpenCounters(keys) == counters' = [key \in keys |-> 0]

PreInitRapl == OpenCounters(Keys) /\ UNCHANGED cpu_spec

\* cpu_spec.take(): what is left is None, all online CPUs.
PreInitCgroup ==
    /\ OpenCounters(IF cpu_spec # {} THEN cpu_spec ELSE Keys)
    /\ cpu_spec' = {}

PreInit ==
    /\ run < MaxRuns
    /\ PreInitCall
    /\ run' = run + 1
    /\ snapshots' = <<>> /\ marks' = <<>>
    /\ \/ target = "rapl" /\ PreInitRapl
       \/ target = "cgroup" /\ PreInitCgroup
       \/ target = "pid" /\ UNCHANGED <<counters, cpu_spec>>
    /\ UNCHANGED <<begin_snapshot, end_snapshot, target, counted>>

InitSource ==
    /\ InitCall
    /\ IF target = "pid" THEN OpenCounters({PID_CPU}) ELSE UNCHANGED counters
    /\ UNCHANGED <<pairVars, target, cpu_spec, run, counted, marks>>

Measure ==
    /\ taken < MaxMeasures
    /\ TakeSnapshot(counters)
    /\ marks' = Append(marks, counted)
    /\ UNCHANGED <<target, cpu_spec, run, counters, counted>>

Retrieve ==
    /\ ClosePhase
    /\ UNCHANGED <<target, cpu_spec, run, counters, counted, marks>>

\* The trait's default: nothing to do, and nothing is forgotten.
Join ==
    /\ JoinCall
    /\ UNCHANGED <<pairVars, target, cpu_spec, run, counters, counted, marks>>

Returned ==
    /\ GiveBack
    /\ UNCHANGED <<pairVars, target, cpu_spec, run, counters, counted, marks>>

\* Also a counter that cannot be opened or read.
Dropped ==
    /\ Abandon
    /\ UNCHANGED <<pairVars, target, cpu_spec, run, counters, counted, marks>>

Init ==
    /\ ReaderInit /\ PairInit
    /\ target \in {"rapl", "pid", "cgroup"}
    /\ cpu_spec \in IF target = "cgroup" THEN SUBSET Keys ELSE {{}}
    /\ run = 0
    /\ counters = <<>>
    /\ counted = [key \in Keys |-> 0]
    /\ marks = <<>>

\* No call is left to make: the only states in which the system may rest.
Finished ==
    /\ stage = "dropped" \/ (stage = "idle" /\ run = MaxRuns)
    /\ UNCHANGED vars

Next ==
    \/ \E key \in Keys : CountEvent(key)
    \/ PreInit \/ InitSource \/ Measure \/ Retrieve
    \/ Join \/ Returned \/ Dropped
    \/ Finished

Spec == Init /\ [][Next]_vars

-----------------------------------------------------------------------------

\* What was counted between the measurements that delimit phase k, per key.
Counted(k) ==
    [key \in DOMAIN snapshots[k].end |-> marks[k + 1][key] - marks[k][key]]

Overflowed(phase) ==
    \E key \in DOMAIN phase.end : phase.end[key] < phase.begin[key]

(***************************************************************************)
(* The metrics of a phase are what was counted between its two             *)
(* measurements on the keys that are watched: for events also when a       *)
(* counter goes round, for RAPL when none does; in the first run, and in   *)
(* every later phase of the runs that follow.                              *)
(***************************************************************************)
PhaseCountExact ==
    \A k \in 1 .. Len(snapshots) :
        /\ k > 1 \/ run = 1
        /\ target = "rapl" => ~ Overflowed(snapshots[k])
        => Reported(k) = Metrics(Counted(k))

=============================================================================
