# Joule Profiler: TLA+ specifications and proofs

Joule Profiler runs a command, reads its standard output line by line, and cuts
the run into *phases* at the lines that match a regular expression. At every
boundary each *metric source* (RAPL, perf_event, procfs, cgroup, NVML, AMD SMI)
takes a measurement; the result is a table of metrics per phase. This directory
holds TLA+ modules of the program, the TLC configurations that check them, and
TLAPS proofs of the properties that matter most. Paths below are relative to
the root of the repository.

    tlc -config MCProfile.cfg MCJouleProfiler      # one of the runs
    tlapm JouleProfilerProofs.tla                  # the proofs, some minutes each
    tlapm RaplPowercapProofs.tla                   # and those of the sources:
                                                   # PerfCounters, Gpu, Cgroup, Procfs,
                                                   # and of Sensors, CommandLine

## 1. Inventory

| part | code | state | operations | modelled in |
|---|---|---|---|---|
| profiler | `core/src/profiler/mod.rs` | the registered sources, the child process, the orchestrator of the call | `add_source`, `list_sensors`, `profile` | `JouleProfiler` |
| reader thread | same file, `measure_phases_blocking`, `read_and_detect_phases` | owns the orchestrator while the command runs, the detected boundaries, the output sink | first measure, resume, read, two broadcasts per token, last boundary | `JouleProfiler` |
| orchestrator | `core/src/orchestrator/mod.rs` | sources before `run()`; one sender and one join handle per worker after it | `pre_init`, `init`, `run`, `measure_blocking`, `new_phase_blocking`, `finalize` | `Orchestrator` |
| merge | `core/src/aggregate/sensor_result.rs` | none | `merge`, `try_add` | `Orchestrator` |
| worker of a source | `core/src/source/runtime.rs`, `accumulator.rs` | the source, its accumulated phases, the receiving end of its channel | one per event, `join`, `to_metrics` | `MetricSourceRuntime` |
| profiled command | external | running, stopped, exited, reaped; its stdout pipe | writes, closes stdout, exits, is killed | `JouleProfiler` |
| RAPL through powercap | `sources/rapl/src/powercap` | last snapshot, counters of the open phase, a polling task over both | `init`, `measure`, `retrieve`, `join`, poll | `RaplPowercap` |
| RAPL through perf_event | `sources/rapl/src/perf` | open counters, begin and end snapshot | `pre_init`, `measure`, `retrieve` | `PerfCounters`, `SnapshotPair` |
| perf_event | `sources/perf_event/src` | open counters, begin and end snapshot, the CPU list | `pre_init`, `init`, `measure`, `retrieve` | `PerfCounters`, `SnapshotPair` |
| procfs | `sources/procfs/src` | counters of the phase, the set of detected processes, a polling and a discovery task | `init`, `measure`, `retrieve`, `join`, poll, discover | `Procfs` |
| NVML, AMD SMI | `sources/nvml/src`, `sources/amdsmi/src` | per device an energy pair, memory and utilization bounds, power samples; a polling task | `init`, `measure`, `retrieve`, `join`, poll | `Gpu` |
| cgroup | `sources/cgroup/src` | the cgroup on disk, counters of the phase, a polling task | `pre_init`, `init`, `measure`, `retrieve`, `join`, poll | `Cgroup` |
| command line, configuration, overrides | `cli/src/bin/main.rs`, `cli/src/lib.rs`, `cli/src/config`, `cli/src/commands` | the document, the table with the sections not yet taken | load, override, read, `apply_cli`, `build_source`, `ensure_sources_are_known`, `to_config` | `ConfigTable`, `CommandLine` |
| output formats | `cli/src/output` | the result file | create, `display_results`, `list_sensors` | `Displayers`, `CommandLine` |
| units, metrics, sensors | `core/src/unit.rs`, `sensor.rs`, `aggregate/`, discovery in each source | what a source found and opened | `from_config`, `list_sensors`, `to_metrics` | `MetricUnit`, `RaplDomains`, `GpuDevices`, `Sensors` |

How they interact. `profile()` is an async function on the caller's task. It
moves the sources into an orchestrator, spawns and stops the command, lets each
source initialise in a tokio task of its own under a common timeout, starts one
worker task per source with a bounded channel (16 slots), and hands the
orchestrator to a reader thread. That thread blocks on the command's pipe and on
the channels (`blocking_send`). A worker calls its source for each event. When
the pipe closes the thread sends the orchestrator back over a oneshot channel;
the caller waits for the command, sends `JoinWorker` to every worker, awaits
them, merges their results and takes the sources back for the next call.

What is hard: four kinds of processes interleave; every operation of a source
may fail or panic, before, between or after sends; a broadcast that stops half
way leaves workers with different numbers of events; a timeout does not cancel
what it timed out on; full channels make the command wait for its own profiler;
phases are matched with boundaries by position alone; several errors compete for
one return value; sources outlive a call and are used again. The list with
lines is under `hazards` in `PROJECT.json`.

## 2. Modules

* **`MetricSourceRuntime`**: the worker. `queue[s]`, `worker[s]`, `measured[s]`,
  `phases[s]` are the channel, the program counter of `run_worker`, the number of
  snapshots since the worker started and the accumulator; `owner[s]` says who
  holds the boxed source (profiler, orchestrator, init task, worker, or nobody:
  it was dropped); `initialised[s]` that `init()` succeeded and `join()` has not
  been called since. A snapshot is abstracted to its rank and a phase to the rank
  of the snapshot that closed it, which is what alignment is about. One action
  per step of the worker, one per failure; a failure ends the worker and drops
  the receiver with what it buffers.
* **`Orchestrator`** (extends it): effects of the orchestrator's methods.
  `DropOrchestrator` is what Rust does when an early return drops it: detached
  init tasks and workers keep running, everything that already ended is dropped.
  `Merge` is `SensorResult::merge` on phase counts.
* **`JouleProfiler`** (extends it): `profile()` from await to await, the reader
  thread from blocking call to blocking call, the command. `main` and `reader`
  are the two program counters; `cursor` is the position in the loop of
  `send_event_blocking`, so that a broadcast interleaves with everything else one
  send at a time. `Next` groups the actions of the caller (`CallerStep`,
  `FinalizeStep`), the reader (`ReaderStep`), the sources (`SourceStep`) and the
  command (`ChildStep`). `Finished` lets the system rest when no call is left.
* **`PhaseProfiling`**: the abstract specification, what a user of the library
  sees: a call refuses, or passes boundaries and succeeds with one phase more
  than boundaries, keeping its sources, or fails and loses them.
* **`JouleProfilerInduction`**: the inductive invariant `IInv`.
* **`JouleProfilerRefinement`**: the two refinement mappings, from the state of
  `JouleProfiler` to `PhaseProfiling` and, for each source, to `MetricReader`, and
  the invariant `MappingInv` they rest on.
* **`JouleProfilerProofs`**: the proofs of the properties and of the two mappings.
* **`MCJouleProfiler`**: fault sets, and a claim of the documentation that the code
  does not keep.
* **`MetricReader`**: the calls the profiler makes on one source, as a small
  protocol over `stage`. The models of the sources extend it and assume nothing
  else of the profiler. `JouleProfilerRefinement` maps the state of the profiler to
  the stage of each source (`Stage`); that it implements the protocol
  (`CallsSourcesInOrder`) is checked and proved.
* **`RaplPowercap`**: one domain, as domains do not influence each other.
  `measure()` is two steps, because it reads the file before it takes the mutex;
  a poll is two steps under the mutex. `poller[r]` is the task spawned in run
  `r`; an aborted task finishes its iteration. Snapshots carry the true energy
  as a ghost, which the properties compare with what is reported.
  **`RaplPowercapProofs`** holds the proofs.
* **`SnapshotPair`**: the pair of snapshots both perf_event sources delimit their
  phases with, the same code in both crates. **`PerfCounters`** extends it with
  what is counted: RAPL domains, a process, or a cgroup on a set of CPUs
  (`target`), which differ in who opens the counters, and in how two readings are
  subtracted and summed. **`PerfCountersProofs`** holds its proofs.
* **`Procfs`**: the worker and two background tasks share the counters and the
  set of detected processes. `measurement[a]` is a call of
  `measure_and_update_pids` under way, by the worker or by the polling task: the
  pids are copied, each process is read in a step of its own, and what was added
  up is stored in a last step. The command and its children start, read and exit
  in between; a child's I/O moves to its parent when it is waited for.
  **`ProcfsProofs`** holds the proofs.
* **`Gpu`**: `read_polled_counters`, called by the worker and by the polling task,
  in three steps: read the device (`pending[r]` is what reader `r` then holds),
  store the memory, store the power, each under its own lock. A device has an
  energy register or only tells its power, never both.
  **`GpuProofs`** holds the proofs.
* **`Cgroup`**: `cgroup` is the directory on disk, `files` what the files of the
  command's cgroup and of the root cgroup say, `hierarchy` the controllers the
  kernel has and enables. The source creates the cgroup or finds it, moves the
  command into it (`config`), and removes it in `join()`; somebody else may remove
  it at any time. `measure()` is one action per file (`Reads`), because the
  command runs on in between. Memory is a pair of bounds per cgroup, shared with
  the polling task; CPU, I/O and timestamps are pairs of a begin and an end.
  **`CgroupProofs`** holds the proofs.
* **`MetricUnit`**: units and prefixes, how they are displayed and read back, and
  the selection of sockets. **`RaplDomains`**: what the two backends of RAPL find on
  a machine: zones of powercap with their name, range and readability; sockets,
  CPUs and events of perf. **`GpuDevices`**: what a device answers, and the unit of
  every value on the way from the library to the metric.
* **`Sensors`** extends them with the life of one source: discovery in
  `from_config`, `list_sensors` before and after the counters are open, opening,
  access check, measurement, `to_metrics`. The machine is a variable that `Init`
  chooses, and it does not change. A list of domains that was filtered is the set of
  what is left with the place each had, so that one that occurs twice stays two.
  **`SensorsProofs`** holds the proofs.
* **`ConfigTable`**: a TOML document as a tree of tables and scalars, the `-D`
  overrides, the keys and their kinds, `apply_cli`, and what `build_source` makes of
  a section. **`Displayers`**: the rows that each format tells of the results.
* **`CommandLine`**: `main()` statement by statement, with the result and output
  files. `JouleProfiler` is a step that fails or has results; what it does is the
  subject of the other modules.

Failures are a constant: `Faults` is the set of operations that may fail in an
instance (a panic of a worker or of the reader included), so that runs without
failures, with some and with all of them share one specification, and the proofs
hold for every set. Definitions commented "Seeded fault" are plausible bugs of
the definition they stand before. Nothing refers to them; each is put in place
of the real definition to see that a property notices.

## 3. Runs

| run | instance | question |
|---|---|---|
| `profile` | 2 sources, 1-slot channels, 2 lines, 2 calls, everything may fail | are phases aligned with their boundaries; does any combination of failures misalign the merge, hide an error, return sources that cannot be used again, or call a source out of order; is `PhaseProfiling` implemented? |
| `liveness` | 2 sources, 1 slot, 1 line, 1 call, an init that hangs, failing workers | does `profile()` return, do abandoned workers end? |
| `lost_sources` | 1 source, one fault | counterexample, see section 6 |
| `powercap` | with and without polling, 2 runs, 3 measures, counter modulo 3, 4 units, fairness | is a phase exact, is energy lost or counted twice through overflows and polls, does a measurement wait for ever? |
| `powercap_stale` | 1 run with polling | counterexample, see section 6 |
| `perf` | all three targets, 2 keys, 2 runs, 3 measures, counters modulo 3, 5 events | does a phase hold what was counted between its measurements, also when counters go round? |
| `procfs` | 1 run, 2 measures, one child, fairness | do the three tasks lose a process or move I/O between phases; does `join()` return? |
| `gpu` | 2 runs, 3 measures, 2 units of time, at most 2 samples before a poll | are register phases exact, do boundary samples stay in their phase, is a poll over when `join()` is? |
| `gpu_order` | 1 run | counterexample, see section 6 |
| `cgroup` | both cgroups, 2 runs, 3 measures, 2 changes from outside, 2 memory levels, every hierarchy and configuration | does a phase hold what its reads delimit; is a cause that an error names there, and is no phase told without its controllers; is the cgroup removed? |
| `sensors` | four sources; 2 sockets with up to 4 CPUs, one of them offline; 1 to 3 packages in 6 kinds of zones, up to 2 flawed; 2 GPUs with any abilities; every selection | is what is listed also reported, is everything selected reported, no energy twice, and every value in its unit? |
| `command_line` | 7 files, at most 2 of 18 overrides, 6 command lines, 3 sets of sources that cannot be built, 1 or 2 phases | where does each key come from, is every source asked for there, does a misspelled key stop the program wherever it is written, does a rejected configuration touch anything, is everything told? |

Bounds. Two sources are the least that can differ (one dead, one alive; one
before the cursor, one after). One-slot channels fill at the first event, which
makes every wait in a send reachable; the capacity 16 of the code only makes them
rarer, and the proofs hold for any. Two lines give up to three phases, so that a
phase follows a phase while workers lag. Two calls reach the reuse of sources
after a success, and after a failure. `MaxLines` and `MaxRuns` are the only
bounds, in the guards of `ChildWrites` and of the actions that start a call. The
sources are bounded by `MaxRuns`, `MaxMeasures` and what the kernel or the device
may count (`MaxConsumed`, `MaxCounted`, `MaxIo`, `MaxTime`, `MaxChanges`); three measurements
make two phases, the least that shows how one is carried into the next, and two
runs show what is carried from run to run. `MaxSamples` of `Gpu` stops the polls
of a phase, whose samples would otherwise grow without bound. `Sensors` and
`CommandLine` have no counters but `MaxPhases`: they are bounded by the machines,
files and arguments their MC modules list. Two sockets, two devices and two
sources that fail are the least of which one can be right and the other wrong;
two overrides the least of which one can replace, extend or contradict the other.

Fairness (`FairSpec`). Weak fairness of the caller's steps, the reader's steps,
each worker and each pending send: tokio polls every ready task, the reader is
an OS thread, and an operation of a *running* source is assumed to end, as the
code itself has no timeout there. `InitTimeout` is fair because the timer fires;
an init task is not fair, it may hang. Nothing is assumed of the command, which
may run or keep its stdout open for ever, and `ProfileReturns` says so. No other
failure is fair. `RaplPowercap` and `Procfs` state the fairness of their tasks at
`FairSpec`: tasks are polled, reads end, and `select!`, which picks at random, does
not ignore a cancelled token for ever (strong fairness of the steps that stop).

## 4. Properties

Stated with their reasons in the modules. The central ones: `PhasesAligned`
(phase k of every source is the difference of its snapshots k and k + 1, and
there is one per pair of boundaries), `NeverMisaligned` (`PhaseMismatch` cannot
be returned, whatever fails when), `SendErrorSurfaced` (a failed send is replaced
by the error of a dead worker), `SuccessMeansAllJoined`, `SourcesReusable`,
`AbandonedSourceJoined`, `FirstMeasureSubmitted`, `ProfileReturns`,
`AbandonedWorkersEnd`, and the refinement `ImplementsPhaseProfiling`.

Each module with variables has a type invariant `TypeOK`. The run `profile` lists the one
of the core; those of the other modules hold in their instances too, and are left
out of their runs in favour of properties that say more.

`RaplPowercap`: `PhaseEnergyExact` without polling; with polling a phase boundary
is only as sharp as the last poll, and what holds is `EnergyConserved` (modulo
the range of the counter) and `BoundaryKept`. The environment is assumed not to
consume `max_energy_uj` between two snapshots that are stored, which the source
could not tell.

`PerfCounters`: `PhaseCountExact` in the first run and in every later phase of the
runs that follow; `EnoughSamples` (the error of `retrieve()` is unreachable, in any
run). Counters of 64 bits are modelled modulo a small range so that they go round.

`Procfs`: `RootDetected` and `ChildDetected` say what survives of "the processes
discovered so far", which measurements that started earlier overwrite;
`PhaseBounded` that a phase holds what was measured at its closing boundary,
whatever the poller stores late, and no more than the processes did; `JoinEnds` is a liveness property over the
two tasks that `join()` cancels and awaits one after the other.

`Gpu`: `EnergyPhaseExact` for devices with a register; `BoundarySampled`;
`NoLateStore`, which holds here because `join()` awaits the task (in powercap,
which aborts it, a late store is possible and harmless: `EnergyConserved`).

`Cgroup`: `PhaseExact` relates the CPU counters with the timestamps they are
divided by, which are reset by different code, and says exactly what becomes of
I/O when `io.stat` is empty at the begin of a phase (nothing is reported, but for
the counter that a removed cgroup of an earlier run may leave);
`FailureNamesCause` that no phase is reported without its controllers, and that an
error that names a missing hierarchy, cgroup or controller is true when it is told.
Other errors keep their cause and claim nothing (`IoPath` and `FailedToAttachPid`:
a read, a creation or an attachment that fails for a reason of its own). The
cgroup is taken to be directly below the root, and only the source creates it;
`NoCgroupLeft` is an action property of the step that ends `join()`.

`Sensors`: `ListedAreReported` and `SelectedAreReported` compare three pieces of code
that each decide which sensors there are (discovery, opening, reporting);
`EnergyToldOnce` that no name adds up one energy twice; `UnitsTellValues` adds up
the powers of ten along every path to a metric, and includes the law between
`Display` and `TryFrom` of units and domains.

`CommandLine`: `Precedence` says for each key where it must come from, without
following the code: the flag, the last override that wrote it or a table above it,
the file, the default. `FileIsOverrides` says that a file is worth the overrides
with its keys. `UnknownKeysStop` says that a key nobody knows never gets to a run, be it written
in the file, in the path of an override or in a table that is an override's value,
unless a later override replaces it; the code drops unknown keys *within* the
section of a source, and nothing is said of those. `OnlyNamedFilesTouched` says
that nothing is created, emptied or started unless the configuration was accepted
(`Accepted`, which lists everything that could be objected to), and that later only
files it names are touched. A creation may fail half-way and leave an emptied file
(`CreateFileFails`): a program that fails with no displayer may have touched the
result file, but only for an accepted configuration. `SourcesAsAsked` and
`SuccessTellsEverything` follow a key to the sources, the files and the rows.

## 5. Proofs

`JouleProfilerProofs` proves, for every number of sources, every capacity, every
bound and every set of failures, `Spec => []IInv` and from it `TypeOK`,
`PhasesAligned`, `NeverMisaligned`, `RetrieveHasTwoSnapshots`,
`SendErrorSurfaced`, `SuccessMeansAllJoined`, `SourcesReusable`,
`AbandonedSourceJoined` and the action property `FirstMeasureSubmitted`. The only
assumptions are those on the constants: `N` and `ChannelSize` are positive,
`MaxLines` and `MaxRuns` natural, `Faults` a set of fault kinds.

The properties speak of states in which `profile()` has returned; none is
inductive. `IInv` adds:

* `Control`: which program counters go together (the caller awaits while the
  reader runs; JoinWorker is only sent by `finalize`);
* `Handles`: a sender and a join handle for every source while the call runs;
* `Ownership`, `Held`: who may hold a source and in which state;
* `Progress(s)`: events form the fixed sequence Measure, Measure, NewPhase,
  Measure, NewPhase, ...; what `s` has received is a prefix of it and what its
  queue holds comes next, so `measured[s]` and `phases[s]` are functions of the
  number of events received;
* `Submission`: every worker that has not failed has received, or will, exactly
  `Base` events, plus one if the cursor of the current broadcast is past it, plus
  JoinWorker; a reader that stopped with a failed send stopped because a worker
  failed.

Two workers that end well have then received the same number of events, so they
closed the same number of phases (`DoneTookAll`, `DoneAligned`, `MergeAligned`),
and if the reader succeeded that number is the number of boundaries minus one
(`ResultsAligned`). One lemma per action, or per group of actions with the same
effect on the invariant, shows preservation.

Its last part proves the two refinements. `Refinement`: every step
of `JouleProfiler` is a step of `PhaseProfiling` or a stutter; a boundary is passed
when the last worker was sent its `NewPhase`, `Abort` and the panic of the reader
are `Fail`, and that `ReturnResults` is `Succeed` rests on `ResultsAligned`.
`SourcesInOrder`: every step is, for each source separately, a step of its
`MetricReader` or a stutter. `MappingInv` adds to `IInv` that no call has an outcome
while it is in progress, and what the holder of a source tells of its life (`Life`:
with the orchestrator it is initialised only in `run`, with its worker until
`join()`, and the source of a worker that ended well is there to be taken back).
The models of the sources assume `MetricReader` and nothing else, so what is proved
of them holds under the profiler.

`RaplPowercapProofs` proves `PhaseEnergyExact`, `EnergyConserved` and
`BoundaryKept` for every range of the counter and any number of runs. A snapshot
carries the true energy as a ghost; the invariant says that every register value,
also those that tasks hold, is that energy modulo the range, that at most one task,
aborted or not, holds the mutex, and that what it has read is not older than
`last_snapshot` (`Mutex`). Then the counters, those of the open phase and those
collected, are congruent to the energy since the first snapshot (`Conserved`).
Without polling, `Fresh` turns the congruences into equalities: less than the
range is consumed between two stored snapshots, which is the guard of `Consume`.
Both this module and `PerfCountersProofs` begin with the lemmas they need on integers
modulo the range of a counter.

`PerfCountersProofs` proves `EnoughSamples` of the perf_event sources, for any set
of keys, range of the counters and number of runs. By itself it is not inductive;
`PairInv` ties the pair of snapshots to the stage of the source: the begin is set
while a phase runs, be it left by the run before, and the end when the phase was
measured. No assumption on the constants is used.

It also proves `PhaseCountExact`. A reading is a function from the keys that were
open to values modulo `CounterRange`; `Tracks(reading, mark)` says that it is
congruent, key by key, to what was counted at the mark, relative to the counters as
they are open now. `OpenPhase` states it of the begin and the end of the running
phase, with the exception that the property names: the begin that a former run
left. `CallsInv` relates `taken` and `closed` with the number of marks and of
snapshots. That a difference is the number of events (`WrappingSubExact`,
`EnergyDiffExact`) needs that less than `CounterRange` was counted in a phase, the
guard of `CountEvent`: a counter of 64 bits does not go round twice. The part of
`TypeOK` that bounds `counted` by `MaxCounted` sums over the keys, and stays with
TLC; the proof has the types it needs in `BasicInv`.

`ProcfsProofs` proves `TypeOK`, `RootDetected` and `PhaseBounded` for any number of
children, any sizes and any bounds. `TaskInv` says that only a task that is busy
measures, and that a source that does not run has nothing under way. `RootInv`
strengthens `RootDetected` with what others are about to store: while the command
lives it is among the pids that each measurement under way has still to read or has
found present, and in what the discovery task has collected. `BoundaryInv` follows
the values of a boundary from the counters to the report: polls that store between
the measurement and `retrieve()` only widen bounds and raise the end. `IoInv` is why no
I/O is invented: what a measurement has added up, and what the processes it has
still to read have read, is together no more than was read at all. The sum over
processes is a cardinality (each byte a pair of its reader and its number,
`BytesOf`), so that the facts about finite sets of the library replace an induction.
As in the property, it is only said of a first run in which no child has exited.

`GpuProofs` proves `EnergyPhaseExact`, `BoundarySampled` and `NoLateStore` for any
levels of the memory and any bounds. `BoundaryStored` says that what the worker
read at a boundary is either still in its hands (`pending`) or in the counters, for
memory and power separately, because each is stored under a lock of its own and a
poll may come between the two; `TaskInv` that the poller only holds a reading while
it is busy, and the worker only between `measure()` and its end; `RegisterInv` that
the pair of the energy register is the pair of the marks of the phase. The samples
that a poll puts in between do not matter for what is proved; their order is the
subject of the run `gpu_order`.

`CgroupProofs` proves `PhaseExact`, `BoundaryWithinBounds`, `FailureNamesCause` and
the action property `NoCgroupLeft`, for any levels of the memory and any number of
runs and changes. `measure()` is six reads and may be interrupted after each, so
the invariant is about a measurement that is half done: `Place` is where a file
comes in the order of the reads, and a counter is a pair of readings of the two
marks *as far as `reading` has come* (`CpuInv`, `IoInv`), with the timestamps of
the phase in `StampInv`. `OrderInv` says that what was read later is not smaller.
`MemoryInv` keeps the value of a boundary within the bounds, from its own read to
`retrieve()`; `CauseInv` says what each read that succeeded shows of the
controllers, and that an error that names a cause, also one that the polling task
met and `join()` has still to return, is true of the hierarchy (`NamesCause`); with
`Joining` it gives the two properties about failures. The case
of `IoPhaseExact` for a later run whose cgroup is created anew was found by the
proof (section 6).

`SensorsProofs` proves `ListedAreReported`, `SelectedAreReported`, `EnergyToldOnce`,
`UnitsTellValues` and `TypeOK` of `Sensors`, for machines with any number of sockets,
CPUs, zones and devices and for any selection. That the two lists of `list_sensors()`
and the metrics agree is not inductive: when the counters are opened nothing says yet
what will be reported. `IInv` says where each comes from. What `from_config()` found is
a function of the machine and the selection (`FoundInv`), what `pre_init()` opened one
of what was found (`OpenedInv`), and so are the sensors that were listed (`ListedInv`,
with one value for both stages) and the metrics (`MetricsInv`); a powercap source that
measured could read all of its domains (`MeasuredInv`). The rest compares these
functions: discovery and opening walk the same list of types by different code
(`TopologyTypes`, `OpenedSockets`); every device that answers a query has a sensor and
a metric for it, and the NVML sensors are a superset (`DeviceSensed`, `GpuSensed`). The
lemmas on units show that no symbol of a prefix is that of another one or of a unit, so
that a displayed unit reads back as itself unless it is a prefixed count.

The machine is assumed to be one the kernel can show (`SensorsAssumption`): a nested
zone is a zone, a device answers only queries there are, and no two zones of powercap
have the same socket and type. The last one is needed because `powercap/compute.rs`
adds up all domains of one index and never checks that there is one; it is what the
kernel promises, and without it `EnergyToldOnce` would say something of the kernel.
The names of packages may be any set of names of which none is the name of another
domain (`PackageNamesAssumption`); in the code they are those that begin with
`package`.

`CommandLineProofs` proves `Precedence`, `SourcesAsAsked`, `UnknownKeysStop`,
`OnlyNamedFilesTouched`, `FilesTellEverything` (the part of `SuccessTellsEverything`
about files) and `TypeOK` of `CommandLine` for any arguments, for documents
and overrides of any depth, and for any sources that fail. It assumes what is assumed of
the constants: that a document is a tree whose keys are strings, that flags and
sources are among those the arguments can name, and that a path has a segment.
The first part is about documents alone: what `NodeAt` finds at a path after `Apply`
wrote another one, for every way two paths can lie (the same, one above the other,
or apart). `Apply` and `NodeAt` walk a path of any length; since induction over a
path cannot be cited here, a lemma about a walk takes the least position at which it
fails (`LeastNat`). The second part follows what was asked for. `Precedence` speaks
of the last override that wrote a key, which no single step of `load_global_config()`
knows; `DocumentInv` says that the document is, at every path, what the file and the
overrides applied *so far* ask for, and that is what one more override preserves.
`TableInv` and `SourcesInv` say the same of the table, from which each source takes
its section, and of the sources registered, skipped or failed so far; `CliInv` of the
arguments, `FilesInv` of the files, which are untouched up to the step that makes
the displayer. `IInv` is the five together. That a key which is in the document is
known follows from the checks of `TableInv` (`KnownFollows`); that the
configuration is accepted once the last source is registered, from those of
`SourcesInv` (`AcceptedFollows`), and no later step takes it back (`AcceptedStays`). For what the files
hold in the end, `ContentsInv` follows the file of the displayer, created empty before
the command starts, and that of the command's output, which may be the same.

Only model-checked remain:

* the liveness properties `ProfileReturns`, `AbandonedWorkersEnd`, `ChildDetected`,
  `JoinEnds` and `MeasureEnds`: liveness under fairness, and `ENABLED`, are out of
  reach of TLAPS;
* `FileIsOverrides` of `CommandLine`: it takes a document apart into one override per
  leaf (it looks for leaves three keys deep, which is as deep as what the program
  reads) and folds them over the empty document. That the fold gives the document
  back is an induction over data, whose theorems take an operator as a parameter that
  none of the provers can instantiate;
* `RowsTellEverything`, the other part of `SuccessTellsEverything`: the rows of the
  displayers are folded, flattened and filtered from results of any number of phases
  and sources, again an induction over data.

The runs check these on the documents and results of the instances.

## 6. Findings

Each is a run that TLC must find violated; the property quotes the line it
contradicts, and `findings` in `PROJECT.json` gives the lines of the code.

* **Sources are lost after an error of the reader** (`lost_sources`). `finalize()`
  may hand the joined sources back, but `Ok(_) => err` drops them; the next call
  says that no source is configured.
* **A poll during `measure()` reads as an overflow** (`powercap_stale`).
  `measure()` reads the files, then waits for the mutex. If the polling task
  stores a later value in between, the difference is negative, `energy_diff`
  takes it for an overflow and adds `max_energy_uj` to the phase.
* **Power samples out of order** (`gpu_order`). A poll reads the power, the worker
  reads and appends its own sample, then the poll appends the older one.
  `compute_energy` subtracts the timestamps unchecked: a panic in a debug build,
  `u64::MAX` microseconds otherwise.

Seen while modelling, without a run of their own:

* The error of the sink is hidden: `profile()` maps an error of the reader to that
  of `finalize()` whenever that fails too, and before the first phase is closed it
  does. An output file that cannot be created is reported as `AllSourcesEmpty`
  (`core/src/profiler/mod.rs:160`).
* The perf sources start a second run from the end of the first
  (`sources/rapl/src/perf/mod.rs:139`, `sources/perf_event/src/lib.rs:126`),
  although the counters were opened anew at 0: its first phase is a difference of
  unrelated counters. cgroup, NVML and AMD SMI keep their pairs over runs in the
  same way, and powercap its last snapshot.
* Durations are `u128` differences of wall-clock timestamps
  (`core/src/profiler/mod.rs:193`): a clock that is set back between two boundaries
  underflows.
* The timeout of `init()` drops the join handles of the init tasks, which detaches
  them (`core/src/orchestrator/mod.rs:83`); they are not aborted, as
  `core/src/config.rs:60` has it. The model has the detached tasks.
* `energy_diff` of the perf backend of RAPL is one short when a counter goes
  through `u64::MAX` (`sources/rapl/src/perf/compute.rs:79`); `PhaseCountExact`
  leaves these phases out.
* perf_event uses up its CPU list in the first run
  (`sources/perf_event/src/lib.rs:104`): a second run counts on all CPUs.
* procfs: a measurement that met a dead process overwrites what discovery stored
  meanwhile (`sources/procfs/src/lib.rs:226`); an error of the polling task leaves
  the discovery task running (`lib.rs:289`); a child reaped between two parallel
  reads is counted twice; the I/O counters of a second run begin at the highest
  value of the first; children whose parent exited are not detected.
* cgroup: an error of the polling task, or a run that fails before `join()`, leaves
  the cgroup on disk (`sources/cgroup/src/lib.rs:283`); the first phase divides the
  CPU time since the first measurement by the time since `init()`.
* NVML and AMD SMI: the sample of a boundary belongs to the phase it closes only.
  The energy estimated for the next phase begins with its first poll.
* cgroup lists sensors by names without prefix (`usage_usec`, `anon_min`), while
  a profile reports `proc_...` and `global_...`; a missing controller is only found
  by the first measurement, when the cgroup has been created and the command
  moved into it, and the cgroup then stays; the first entry of `io.stat` is the
  begin of its counter, so the I/O it already tells is in no phase. Nor are the I/O
  counters reset between runs (`sources/cgroup/src/lib.rs:149`): when a later run
  creates its cgroup anew, the value left from the removed one is the begin of the
  first phases until `io.stat` has an entry, and the difference is too small. (TLC
  shows it with three changes from outside; the run has two, because three at two
  levels of memory take longer than a run should.) procfs lists
  the memory of the machine also on kernels that do not tell it.
* RAPL: with the zones of `/sys/class/powercap`, which also shows nested zones at
  its top, powercap finds nested zones twice and adds them up
  (`powercap/domain.rs:82`); and their `device` links lead to the zone they are in
  once more, which the model leaves out. The platform is on socket 0 in perf and on
  the index of its zone in powercap. A selection that matches nothing is `NoDomains` in powercap
  and a source without metrics in perf. One zone with an unknown name fails the
  discovery of all. `check_rapl_access` looks at the top directories only.
* NVML lists five sensors for every device, whatever it supports. The comment of
  `compute_energy` says microjoules (`sources/nvml/src/counters.rs:99`); it returns
  millijoules, which is also the unit it is told in.
* Command line: `--sources` is joined with the sections of the configuration, and
  its default enables RAPL even if the configuration has other sources only;
  `--use-root` is an OR. (`README.md:49` says that the command line always
  overrides.) A `-D` value that reads as TOML of another kind
  (`-D profiler.stdout_file=2024`) is rejected. A section that does not read fails
  in spite of `ignore_on_failure`, and unknown keys of a section are dropped. The
  result file is emptied before the command runs and stays empty if it fails, also
  if only its permissions or its owner cannot be set (`core/src/util/fs.rs:39`); if
  it is also the file of the command's output, both are written into it.
* The help of `--token-pattern` calls the captured group the name of the token
  (`cli/src/commands/profile.rs:11`); the whole match is.

## 7. What is not modelled, and the plan

Left out of the core: token text, timestamps, durations and line numbers;
`StdOutCaptureFail` (the stdout is always piped); the privileges of the command
(`init_command`). Left out of the sources: the syntax of the files of `/proc`,
`/sys` and of cgroups, the other fields of each (they are read and folded like
the one that is modelled), the calls into NVML, AMD SMI and perf_event beyond
their outcome, and the events of perf_event by name. In `Procfs` a file of I/O that
may not be read is left out (`sources/procfs/src/backend.rs:60`: it counts as no
I/O), and in `Cgroup` the cause that an error keeps. Of the
sections of sources, the keys of cgroup and the selection of sockets are there, the
others not: the check of their values is the same. Left out of the command line: the
syntax of TOML and of the arguments, logging, and the layout of what is
displayed; lines of the command that are not UTF-8, which are skipped in the file of its
output (`core/src/profiler/mod.rs:313`). The lookup of users (`core/src/util/sys.rs`) is a single system call. None of these
has state or ordering of its own.

Done in this order: the core (`MetricSourceRuntime`, `Orchestrator`,
`JouleProfiler`), its abstract specification and its proofs; the protocol between
profiler and sources (`MetricReader`); the sources (`RaplPowercap`,
`SnapshotPair` and `PerfCounters`, `Procfs`, `Cgroup`, `Gpu`); their sensors
(`MetricUnit`, `RaplDomains`, `GpuDevices`, `Sensors`); the command line
(`ConfigTable`, `Displayers`, `CommandLine`); the proofs of all five models of sources;
the two refinements as theorems; the proofs of the command line and of the sensors.

What could come next: larger instances, with deeper process trees and orphans in
`Procfs`, and its two runs; the order of timestamps (a clock that is set back) in the
core; the rows of the displayers as functions of a position rather than folds, so that
`RowsTellEverything` could be proved.
