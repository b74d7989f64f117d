-------------------------------- MODULE Gpu ---------------------------------
(***************************************************************************)
(* The sources of GPU statistics, NVML and AMD SMI (sources/nvml/src and   *)
(* sources/amdsmi/src), which are the same program over two libraries.     *)
(* A device has an energy register, and then the energy of a phase is the  *)
(* difference of two of its values, or it only tells its power, and then   *)
(* the energy is estimated from the samples of the phase.  The worker      *)
(* takes samples in measure() and a polling task takes them in between:    *)
(* both read the device first, and then lock one counter after the other.  *)
(*                                                                         *)
(* One device is modelled, and of the two counters that keep the bounds of *)
(* a phase the one of the memory; utilization is handled alike.  The       *)
(* device draws one unit of power all the time: its register shows the     *)
(* time, and a sample of its power is the time at which it was taken.      *)
(***************************************************************************)
EXTENDS MetricReader, Integers, Sequences, FiniteSetsExt, SequencesExt

CONSTANTS
    Levels,       \* values of the used memory
    MaxTime,      \* bound: units of time
    MaxRuns,      \* bound: runs of the profiler with this source
    MaxMeasures,  \* bound: measure() calls in a run
    MaxSamples,   \* bound: samples of a phase when a poll begins
    Modulus       \* integers are counted modulo Modulus (2^64)

ASSUME GpuAssumption ==
    /\ Levels # {} /\ Levels \subseteq Nat /\ IsFiniteSet(Levels)
    /\ {MaxTime, MaxRuns, MaxMeasures, MaxSamples, Modulus} \subseteq Nat
    /\ Modulus > MaxTime + 1

VARIABLES
    energy_supported, \* the device has an energy register
    run,              \* runs so far
    now,              \* the time, and the energy register
    vram,             \* the memory in use
    energy_counter,   \* [begin, end], values of the register or NotRead
    vram_counter,     \* the bounds of the phase, or NoBounds
    power_counter,    \* the samples of the phase, as [timestamp, by]
    pending,          \* what each reader has read and not stored yet
    polling_task,     \* state of the polling task
    cancelled,        \* its token is cancelled
    joining,          \* join() awaits it
    marks,            \* [time, vram] at each measure() of this run
    reported          \* what retrieve() returned in this run

deviceVars   == <<energy_supported, now, vram>>
counterVars  == <<energy_counter, vram_counter, power_counter>>
taskVars     == <<polling_task, cancelled, joining>>
ghostVars    == <<marks, reported>>
vars == <<readerVars, deviceVars, run, counterVars, pending, taskVars, ghostVars>>

Readers  == {"worker", "poller"}
NotRead  == -1
NoBounds == <<>>
Nothing  == [vram |-> NotRead, power |-> NotRead]
Running  == {"started", "open", "closing"}

Samples == [timestamp : 0 .. MaxTime, by : Readers]

TypeOK ==
    /\ ReaderTypeOK
    /\ energy_supported \in BOOLEAN
    /\ run \in 0 .. MaxRuns /\ now \in 0 .. MaxTime /\ vram \in Levels
    /\ energy_counter \in [begin : NotRead .. MaxTime, end : NotRead .. MaxTime]
    /\ vram_counter # NoBounds =>
          vram_counter \in Levels \X Levels /\ vram_counter[1] <= vram_counter[2]
    /\ power_counter \in Seq(Samples)
    /\ pending \in [Readers -> [vram  : Levels \cup {NotRead},
                                power : NotRead .. MaxTime]]
    /\ polling_task \in {"none", "waiting", "busy", "ended", "failed"}
    /\ cancelled \in BOOLEAN /\ joining \in BOOLEAN

-----------------------------------------------------------------------------
(* Counters                                                                *)
-----------------------------------------------------------------------------

VramUpdate(bounds, value) ==
    IF bounds = NoBounds THEN <<value, value>>
    ELSE <<Min({bounds[1], value}), Max({bounds[2], value})>>

EnergyUpdate(c, value) ==
    IF c.begin = NotRead THEN [c EXCEPT !.begin = value]
    ELSE [c EXCEPT !.end = value]

\* Seeded fault: both values are cleared, as the other counters are.
EnergyResetClears(c) == [begin |-> NotRead, end |-> NotRead]

EnergyReset(c) == [c EXCEPT !.begin = c.end]

EnergyDiff(c) ==
    IF NotRead \in {c.begin, c.end} THEN NotRead
    ELSE IF c.end >= c.begin THEN c.end - c.begin ELSE 0

(***************************************************************************)
(* compute_energy: the trapezoids between successive samples.  Timestamps  *)
(* are subtracted as unsigned integers; what does not fit, a difference    *)
(* below zero among it, becomes the greatest integer, and the sum wraps.   *)
(***************************************************************************)
DurationUs(p1, p2) ==
    IF p2.timestamp >= p1.timestamp THEN p2.timestamp - p1.timestamp
    ELSE Modulus - 1

ComputeEnergy(samples) ==
    LET Trapezoids == [i \in 1 .. Len(samples) - 1 |->
                          DurationUs(samples[i], samples[i + 1])]
    IN  FoldSeq(LAMBDA d, energy : (energy + d) % Modulus, 0, Trapezoids)

\* to_metrics
EnergyOf(counter, samples) ==
    IF energy_supported THEN EnergyDiff(counter) ELSE ComputeEnergy(samples)

-----------------------------------------------------------------------------
(* The device                                                              *)
-----------------------------------------------------------------------------

Device ==
    /\ stage \in Running
    /\ now < MaxTime
    /\ now' = now + 1 /\ vram' \in Levels
    /\ UNCHANGED <<readerVars, energy_supported, run, counterVars, pending,
                   taskVars, ghostVars>>

-----------------------------------------------------------------------------
(* read_polled_counters, called by the worker and by the polling task      *)
-----------------------------------------------------------------------------

\* The blocking calls; power is read only of a device without register.
ReadPolled(r) ==
    /\ pending[r] = Nothing
    /\ pending' = [pending EXCEPT ![r] =
          [vram |-> vram, power |-> IF energy_supported THEN NotRead ELSE now]]

StoreVram(r) ==
    /\ pending[r].vram # NotRead
    /\ vram_counter' = VramUpdate(vram_counter, pending[r].vram)
    /\ pending' = [pending EXCEPT ![r].vram = NotRead]
    /\ UNCHANGED <<energy_counter, power_counter>>

StorePower(r) ==
    /\ pending[r].vram = NotRead /\ pending[r].power # NotRead
    /\ power_counter' =
          Append(power_counter, [timestamp |-> pending[r].power, by |-> r])
    /\ pending' = [pending EXCEPT ![r].power = NotRead]
    /\ UNCHANGED <<energy_counter, vram_counter>>

Store(r) == StoreVram(r) \/ StorePower(r)

-----------------------------------------------------------------------------
(* The calls of the profiler                                               *)
-----------------------------------------------------------------------------

\* The worker is inside measure(): it has read the device.
Measuring == Len(marks) > taken

PreInit ==
    /\ run < MaxRuns
    /\ PreInitCall
    /\ run' = run + 1
    /\ marks' = <<>> /\ reported' = <<>>
    /\ UNCHANGED <<deviceVars, counterVars, pending, taskVars>>

InitSource ==
    /\ InitCall
    /\ polling_task' = "waiting" /\ cancelled' = FALSE
    /\ UNCHANGED <<deviceVars, run, counterVars, pending, joining, ghostVars>>

\* The energy is read at the same time, by other blocking calls.
MeasureReads ==
    /\ stage \in {"started", "open"} /\ taken < MaxMeasures
    /\ ~ Measuring /\ ~ joining
    /\ ReadPolled("worker")
    /\ marks' = Append(marks, [time |-> now, vram |-> vram])
    /\ UNCHANGED <<readerVars, deviceVars, run, counterVars, taskVars, reported>>

MeasureStores ==
    /\ Store("worker")
    /\ UNCHANGED <<readerVars, deviceVars, run, taskVars, ghostVars>>

MeasureEnds ==
    /\ Measuring /\ pending["worker"] = Nothing
    /\ MeasureCall
    /\ energy_counter' = IF energy_supported
                         THEN EnergyUpdate(energy_counter, Last(marks).time)
                         ELSE energy_counter
    /\ UNCHANGED <<deviceVars, run, vram_counter, power_counter, pending,
                   taskVars, ghostVars>>

\* Seeded fault: the samples are taken after they were reset.
RetrieveResetsFirst ==
    /\ ~ joining
    /\ RetrieveCall
    /\ reported' = Append(reported,
          [energy  |-> EnergyOf(energy_counter, <<>>),
           vram    |-> vram_counter, samples |-> <<>>])
    /\ energy_counter' = EnergyReset(energy_counter)
    /\ vram_counter' = NoBounds /\ power_counter' = <<>>
    /\ UNCHANGED <<deviceVars, run, pending, taskVars, marks>>

\* The locks are held to the end: no counter is stored in between.
Retrieve ==
    /\ ~ joining
    /\ RetrieveCall
    /\ reported' = Append(reported,
          [energy  |-> EnergyOf(energy_counter, power_counter),
           vram    |-> vram_counter, samples |-> power_counter])
    /\ energy_counter' = EnergyReset(energy_counter)
    /\ vram_counter' = NoBounds /\ power_counter' = <<>>
    /\ UNCHANGED <<deviceVars, run, pending, taskVars, marks>>

JoinBegins ==
    /\ stage \in Running /\ ~ joining /\ ~ Measuring
    /\ joining' = TRUE /\ cancelled' = TRUE
    /\ UNCHANGED <<readerVars, deviceVars, run, counterVars, pending,
                   polling_task, ghostVars>>

\* Seeded fault: the task is cancelled and not awaited.
PollJoinedDetached ==
    /\ joining
    /\ joining' = FALSE
    /\ JoinCall
    /\ UNCHANGED <<deviceVars, run, counterVars, pending, polling_task,
                   cancelled, ghostVars>>

PollJoined ==
    /\ joining /\ polling_task = "ended"
    /\ joining' = FALSE
    /\ JoinCall
    /\ UNCHANGED <<deviceVars, run, counterVars, pending, polling_task,
                   cancelled, ghostVars>>

\* join() returns the error of the polling task.
PollJoinFails ==
    /\ joining /\ polling_task = "failed"
    /\ joining' = FALSE
    /\ Abandon
    /\ UNCHANGED <<deviceVars, run, counterVars, pending, polling_task,
                   cancelled, ghostVars>>

Returned ==
    /\ GiveBack
    /\ UNCHANGED <<deviceVars, run, counterVars, pending, taskVars, ghostVars>>

\* Also an error of this source; the task goes on, for nobody.
Dropped ==
    /\ Abandon
    /\ joining' = FALSE
    /\ UNCHANGED <<deviceVars, run, counterVars, pending, polling_task,
                   cancelled, ghostVars>>

-----------------------------------------------------------------------------
(* The polling task                                                        *)
-----------------------------------------------------------------------------

PollReads ==
    /\ polling_task = "waiting" /\ polling_task' = "busy"
    /\ Len(power_counter) < MaxSamples
    /\ ReadPolled("poller")
    /\ UNCHANGED counterVars

PollStores ==
    /\ Store("poller")
    /\ UNCHANGED polling_task

PollDone ==
    /\ polling_task = "busy" /\ pending["poller"] = Nothing
    /\ polling_task' = "waiting"
    /\ UNCHANGED <<pending, counterVars>>

\* A reading that failed ends the task where its value is due.
PollFails ==
    /\ pending["poller"] # Nothing
    /\ polling_task' = "failed"
    /\ pending' = [pending EXCEPT !["poller"] = Nothing]
    /\ UNCHANGED counterVars

PollStops ==
    /\ polling_task = "waiting" /\ cancelled
    /\ polling_task' = "ended"
    /\ UNCHANGED <<pending, counterVars>>

\* The task of a source that is dropped shares its counters with nobody.
PollingTask ==
    /\ stage # "dropped"
    /\ PollReads \/ PollStores \/ PollDone \/ PollFails \/ PollStops
    /\ UNCHANGED <<readerVars, deviceVars, run, cancelled, joining, ghostVars>>

Init ==
    /\ ReaderInit
    /\ energy_supported \in BOOLEAN
    /\ run = 0 /\ now = 0 /\ vram \in Levels
    /\ energy_counter = [begin |-> NotRead, end |-> NotRead]
    /\ vram_counter = NoBounds /\ power_counter = <<>>
    /\ pending = [r \in Readers |-> Nothing]
    /\ polling_task = "none" /\ cancelled = FALSE /\ joining = FALSE
    /\ marks = <<>> /\ reported = <<>>

ProfilerCalls ==
    \/ PreInit \/ InitSource \/ MeasureReads \/ MeasureStores \/ MeasureEnds
    \/ Retrieve \/ JoinBegins \/ PollJoined \/ PollJoinFails
    \/ Returned \/ Dropped

\* No call is left to make: the only states in which the system may rest.
Finished ==
    /\ stage = "dropped" \/ (stage = "idle" /\ run = MaxRuns)
    /\ UNCHANGED vars

Next == Device \/ ProfilerCalls \/ PollingTask \/ Finished

Spec == Init /\ [][Next]_vars

-----------------------------------------------------------------------------

(***************************************************************************)
(* The energy of a phase of a device with a register is what it consumed   *)
(* between the two measurements that delimit the phase: in the first run,  *)
(* and in every later phase of the runs that follow.                       *)
(***************************************************************************)
EnergyPhaseExact ==
    energy_supported =>
        \A k \in 1 .. Len(reported) :
            k > 1 \/ run = 1 =>
                reported[k].energy = marks[k + 1].time - marks[k].time

(***************************************************************************)
(* What the worker read at the boundary that closes a phase is among what  *)
(* is reported of the phase: no poll that was under way undoes it, and no  *)
(* reset comes before it is copied.                                        *)
(***************************************************************************)
BoundarySampled ==
    \A k \in 1 .. Len(reported) :
        LET bounds == reported[k].vram
        IN  /\ bounds # NoBounds
            /\ marks[k + 1].vram \in bounds[1] .. bounds[2]
            /\ ~ energy_supported =>
                  [timestamp |-> marks[k + 1].time, by |-> "worker"]
                      \in Range(reported[k].samples)

(***************************************************************************)
(* A source that was joined has no polling task left that could still      *)
(* store what it read, in the next run if it comes late enough: whatever   *)
(* the task was doing when join() began, it did it to the end.             *)
(***************************************************************************)
NoLateStore ==
    stage \in {"joined", "idle", "ready"} =>
        polling_task \in {"none", "ended"} /\ pending["poller"] = Nothing

(***************************************************************************)
(* sources/nvml/src/counters.rs:96, compute_energy: "Estimates the        *)
(* consumed energy by integrating power samples using the trapezoidal      *)
(* rule".  The estimate of a phase is at most what the device consumed     *)
(* since the source exists.                                                *)
(***************************************************************************)
EstimateBounded == \A k \in 1 .. Len(reported) : reported[k].energy <= now

=============================================================================
