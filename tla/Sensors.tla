------------------------------ MODULE Sensors -------------------------------
(***************************************************************************)
(* The life of a source as far as its sensors are concerned: it finds them *)
(* on the machine in from_config(), lists them (list_sensors() may be      *)
(* called before or after the counters are open), opens them in            *)
(* pre_init(), checks in init() that it may read them, measures a phase,   *)
(* and turns the phase into metrics.  RAPL has two backends that share     *)
(* nothing of this, the GPUs two libraries.                                *)
(***************************************************************************)
EXTENDS RaplDomains, GpuDevices

CONSTANTS
    Machines, \* function from a source to the machines it may meet
    Specs     \* function from a source to its sockets_spec or gpus_spec

RaplSources == {"perf", "powercap"}
Sources     == RaplSources \cup Libraries

(***************************************************************************)
(* A zone that is nested is a zone, and a device answers the queries there *)
(* are.  The kernel has one zone for what a socket measures: which is why  *)
(* the powercap backend may add up what has the same index, and does not   *)
(* check it.                                                               *)
(***************************************************************************)
ASSUME SensorsAssumption ==
    /\ Sources \subseteq DOMAIN Machines
    /\ Sources \subseteq DOMAIN Specs
    /\ \A m \in Machines["powercap"] :
          /\ m.nested \subseteq DOMAIN m.zones
          /\ \A y, z \in DOMAIN m.zones :
                /\ y[1] = z[1] /\ TryFromName(y[2]) = TryFromName(z[2])
                /\ TryFromName(y[2]) # UnknownDomain
                => y = z
    /\ \A l \in Libraries : \A m \in Machines[l] :
          \A i \in DOMAIN m.answers : m.answers[i] \subseteq Queries

VARIABLES
    source,     \* the source, a member of Sources
    machine,    \* the machine it runs on
    spec,       \* which sockets or devices are selected
    stage,      \* built, opened, ready, measured, reported or failed
    discovered, \* domains, sockets or devices that from_config() found
    opened,     \* sockets that pre_init() opened (perf)
    listed,     \* the sensors list_sensors() told, by the stage it was called in
    metrics     \* what to_metrics() made of the phase

vars == <<source, machine, spec, stage, discovered, opened, listed, metrics>>

NotListed == <<>>
Stages == {"new", "built", "opened", "ready", "measured", "reported", "failed"}

TypeOK ==
    /\ source \in Sources
    /\ stage \in Stages
    /\ stage = "new" => discovered = {}
    /\ stage \in {"new", "built"} \/ source # "perf" => opened = {}
    /\ DOMAIN listed = {"built", "opened"}
    /\ stage # "reported" => metrics = {}
    /\ source = "powercap" => \A d \in discovered : d.type \in DomainTypes
    /\ source \in Libraries =>
          \A d \in discovered : /\ d.support \in (SUBSET Queries) \ {{}}
                                /\ ~ {"Energy", "Power"} \subseteq d.support

-----------------------------------------------------------------------------

\* from_config() of the source.
Discovery ==
    CASE source = "powercap" -> PowercapDomains(machine, spec)
      [] source = "perf" ->
            LET t == PerfTopology(machine, spec)
            IN  [ok |-> t.ok, domains |-> t.sockets]
      [] source = "nvml" ->
            [ok |-> machine.driver, domains |-> InitDevices(machine, spec)]
      [] source = "amdsmi" ->
            [ok |-> machine.driver, domains |-> InitProcessors(machine, spec)]

FromConfig ==
    /\ stage = "new"
    /\ IF Discovery.ok
       THEN stage' = "built" /\ discovered' = Discovery.domains
       ELSE stage' = "failed" /\ UNCHANGED discovered
    /\ UNCHANGED <<source, machine, spec, opened, listed, metrics>>

(***************************************************************************)
(* get_sensors of perf: what was opened, or what was found as long as      *)
(* nothing was opened.                                                     *)
(***************************************************************************)
PerfSensors ==
    IF opened # {}
    THEN UNION {{RaplSensor(d[2], s.id) : d \in s.domains} : s \in opened}
    ELSE UNION {{RaplSensor(d[2], s.id) : d \in s.types} : s \in discovered}

\* get_sensors of powercap
PowercapSensors == {RaplSensor(d.type, d.socket) : d \in discovered}

GetSensors ==
    CASE source = "powercap" -> PowercapSensors
      [] source = "perf"     -> PerfSensors
      [] source = "nvml"     -> NvmlSensors(discovered)
      [] source = "amdsmi"   -> AmdSmiSensors(discovered)

\* JouleProfiler::list_sensors, which asks every source.
ListSensors ==
    /\ stage \in {"built", "opened"} /\ listed[stage] = NotListed
    /\ listed' = [listed EXCEPT ![stage] = <<GetSensors>>]
    /\ UNCHANGED <<source, machine, spec, stage, discovered, opened, metrics>>

PreInit ==
    /\ stage = "built"
    /\ IF source # "perf" THEN stage' = "opened" /\ UNCHANGED opened
       ELSE LET result == OpenCounters(machine, discovered)
            IN  IF machine.paranoid_known /\ result.ok
                THEN stage' = "opened" /\ opened' = result.sockets
                ELSE stage' = "failed" /\ UNCHANGED opened
    /\ UNCHANGED <<source, machine, spec, discovered, listed, metrics>>

InitSource ==
    /\ stage = "opened"
    /\ \E granted \in IF source = "powercap" THEN AccessResults(machine) ELSE {TRUE} :
          stage' = IF granted THEN "ready" ELSE "failed"
    /\ UNCHANGED <<source, machine, spec, discovered, opened, listed, metrics>>

(***************************************************************************)
(* The measurements that delimit a phase.  One reading that fails makes    *)
(* measure() fail, and the source with it.                                 *)
(***************************************************************************)
Measure ==
    /\ stage = "ready"
    /\ stage' \in
         IF source = "powercap"
         THEN {IF ReadsAll(machine, discovered) THEN "measured" ELSE "failed"}
         ELSE {"measured", "failed"}
    /\ UNCHANGED <<source, machine, spec, discovered, opened, listed, metrics>>

(***************************************************************************)
(* to_metrics of perf: the energy of each opened domain in joules, scaled, *)
(* and then in microjoules.                                                *)
(***************************************************************************)
PerfMetrics ==
    UNION {{MetricOf(RaplSensor(d[2], s.id), -6) : d \in s.domains} : s \in opened}

\* to_metrics of powercap: one metric for an index, in what energy_uj tells.
PowercapMetrics ==
    {MetricOf(RaplSensor(i[1], i[2]), -6) : i \in DOMAIN EnergyByIndex(discovered)}

ToMetrics ==
    /\ stage = "measured"
    /\ stage' = "reported"
    /\ metrics' = CASE source = "powercap" -> PowercapMetrics
                    [] source = "perf"     -> PerfMetrics
                    [] source = "nvml"     -> NvmlMetrics(discovered)
                    [] source = "amdsmi"   -> AmdSmiMetrics(discovered)
    /\ UNCHANGED <<source, machine, spec, discovered, opened, listed>>

Init ==
    /\ source \in Sources
    /\ machine \in Machines[source]
    /\ spec \in Specs[source]
    /\ stage = "new" /\ discovered = {} /\ opened = {} /\ metrics = {}
    /\ listed = [s \in {"built", "opened"} |-> NotListed]

\* The source reported, or the run failed: nothing is left to do.
Finished == stage \in {"reported", "failed"} /\ UNCHANGED vars

Next ==
    \/ FromConfig \/ ListSensors \/ PreInit \/ InitSource
    \/ Measure \/ ToMetrics \/ Finished

Spec == Init /\ [][Next]_vars

-----------------------------------------------------------------------------

Reported == stage = "reported"

Sensed == {m.sensor : m \in metrics}

(***************************************************************************)
(* What list_sensors() tells is what a profile then reports, name by name  *)
(* and unit by unit, although other code finds the sensors than the one    *)
(* that opens them, and before and after the opening alike.  NVML lists    *)
(* for each device all that some device has.                               *)
(***************************************************************************)
ListedAreReported ==
    /\ NotListed \notin {listed["built"], listed["opened"]} =>
          listed["built"] = listed["opened"]
    /\ Reported =>
          \A s \in DOMAIN listed :
              listed[s] # NotListed =>
                  /\ Sensed \subseteq listed[s][1]
                  /\ source # "nvml" => Sensed = listed[s][1]

(***************************************************************************)
(* A profile leaves out nothing of what was selected: every domain of a    *)
(* selected socket of which the kernel counts or shows the energy is       *)
(* reported, and everything that a selected and identified device          *)
(* answers.  It reports nothing else.                                      *)
(***************************************************************************)
PerfSelection ==
    UNION {{RaplSensor(t, s) : t \in {t \in DomainTypes :
                ToPerfEvent[t] \in machine.events /\ (t = "Psys" => s = 0)}}
             : s \in {s \in {machine.cpu[c] : c \in DOMAIN machine.cpu} :
                         Selected(spec, s)}}

PowercapSelection ==
    {RaplSensor(TryFromName(z[2]), z[1]) :
        z \in {z \in DOMAIN machine.zones :
                  /\ Selected(spec, z[1])
                  /\ machine.zones[z] = "ok"}}

AnswersOf(i) == {m.sensor.name[2] : m \in {m \in metrics : m.sensor.name[1] = i}}

SelectedAreReported ==
    Reported =>
        /\ source = "perf" => Sensed = PerfSelection
        /\ source = "powercap" => Sensed = PowercapSelection
        /\ source \in Libraries =>
            /\ \A i \in DOMAIN machine.answers :
                  AnswersOf(i) =
                    IF machine.identified[i] /\ Selected(spec, i)
                    THEN {[Energy |-> "energy", Power |-> "energy", Vram |-> "vram",
                           Utilization |-> "utilization"][q] : q \in machine.answers[i]}
                    ELSE {}
            /\ {m.sensor.name[1] : m \in metrics} \subseteq DOMAIN machine.answers

(***************************************************************************)
(* No energy is told twice under one name.  The name of the platform has   *)
(* no socket: it must not be opened once for each of them, though any      *)
(* socket could.  In powercap, domains of one name are added up: each is   *)
(* to be found once in the default directory.                              *)
(***************************************************************************)
EnergyToldOnce ==
    Reported =>
        /\ source = "perf" =>
              \A s1, s2 \in opened :
                  \A d1 \in s1.domains, d2 \in s2.domains :
                      DomainName(d1[2], s1.id) = DomainName(d2[2], s2.id)
                          => s1 = s2 /\ d1 = d2
        /\ source = "powercap" /\ machine.layout = "devices" =>
              \A i \in DOMAIN EnergyByIndex(discovered) : EnergyByIndex(discovered)[i] = 1

(***************************************************************************)
(* A value is in the unit it is told with: along each path from a register *)
(* or a power and two timestamps to the metric, the powers of ten add up   *)
(* to the prefix of the unit.  And what is displayed of it can be read     *)
(* back: the units, but for prefixed counts, which no source has, and the  *)
(* events of the RAPL domains.  No two units are displayed alike.          *)
(***************************************************************************)
UnitsReadBack ==
    \A u \in MetricUnits :
        TryFromText(Display(u)) =
            IF u.unit = "Count" /\ u.prefix # "None" THEN InvalidUnit ELSE u

EventsReadBack == \A t \in DomainTypes : TryFromName(ToPerfEvent[t]) = t

UnitsTellValues ==
    /\ \A m \in metrics :
          /\ m.exponent = Exponent[m.sensor.unit.prefix]
          /\ TryFromText(Display(m.sensor.unit)) = m.sensor.unit
    /\ UnitsReadBack /\ EventsReadBack

=============================================================================
