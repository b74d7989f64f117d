--------------------------- MODULE SensorsProofs ----------------------------
(***************************************************************************)
(* Proofs about Sensors, for any machines and any selection: what a source *)
(* lists is what it reports, what was selected is reported, no energy is   *)
(* told twice, and every value is in the unit it is told with.             *)
(***************************************************************************)
EXTENDS Sensors, FiniteSetTheorems, TLAPS

-----------------------------------------------------------------------------
(* Units                                                                   *)
-----------------------------------------------------------------------------

(* The symbols of the prefixes, one by one. *)
LEMMA PrefixSymbolValues ==
    /\ PrefixSymbol["Nano"] = "n"  /\ PrefixSymbol["Micro"] = "micro"
    /\ PrefixSymbol["Milli"] = "m" /\ PrefixSymbol["None"] = ""
    /\ PrefixSymbol["Kilo"] = "k"  /\ PrefixSymbol["Mega"] = "M"
    /\ PrefixSymbol["Giga"] = "G"
BY DEF PrefixSymbol

(* A symbol of a prefix is that of one prefix only, and of no unit. *)
LEMMA PrefixSymbols ==
    /\ \A p, q \in UnitPrefix :
          p # "None" => (<<PrefixSymbol[p], q>> \in PrefixTable <=> q = p)
    /\ \A u \in Unit, q \in UnitPrefix : <<UnitSymbol[u], q>> \notin PrefixTable
<1>1. \A x : \A q \in UnitPrefix :
          <<x, q>> \in PrefixTable <=>
              \/ q # "None" /\ x = PrefixSymbol[q]
              \/ x = "u" /\ q = "Micro"
  BY DEF PrefixTable
<1>2. \A p, q \in UnitPrefix : PrefixSymbol[p] = PrefixSymbol[q] => p = q
  BY PrefixSymbolValues DEF UnitPrefix
<1>3. \A p \in UnitPrefix : PrefixSymbol[p] # "u"
  BY PrefixSymbolValues DEF UnitPrefix
<1>4. \A u \in Unit : UnitSymbol[u] # "u"
  BY DEF UnitSymbol, Unit
<1>5. \A u \in Unit, q \in UnitPrefix : UnitSymbol[u] # PrefixSymbol[q]
  <2>1. \A u \in Unit : UnitSymbol[u] \in {"J", "W", "s", "count", "B", "%"}
    BY DEF UnitSymbol, Unit
  <2>2. \A q \in UnitPrefix : PrefixSymbol[q] \in {"n", "micro", "m", "", "k", "M", "G"}
    BY PrefixSymbolValues DEF UnitPrefix
  <2> QED BY <2>1, <2>2
<1>6. \A p, q \in UnitPrefix :
          p # "None" => (<<PrefixSymbol[p], q>> \in PrefixTable <=> q = p)
  BY <1>1, <1>2, <1>3
<1>7. \A u \in Unit, q \in UnitPrefix : <<UnitSymbol[u], q>> \notin PrefixTable
  BY <1>1, <1>4, <1>5
<1> QED BY <1>6, <1>7

(* No two units have one symbol. *)
LEMMA UnitSymbols ==
    \A u, v \in Unit : UnitSymbol[u] = UnitSymbol[v] => u = v
BY DEF Unit, UnitSymbol

(***************************************************************************)
(* A displayed unit reads as itself and as nothing else, unless it is a    *)
(* prefixed count, which does not read.                                    *)
(***************************************************************************)
LEMMA ParsedAsDisplayed ==
    ASSUME NEW u \in MetricUnits, NEW v \in MetricUnits
    PROVE  ParseAs(Display(u), v) <=>
               v = u /\ (u.unit = "Count" => u.prefix = "None")
<1>1. /\ u.prefix \in UnitPrefix /\ u.unit \in Unit
      /\ v.prefix \in UnitPrefix /\ v.unit \in Unit
      /\ u = v <=> u.prefix = v.prefix /\ u.unit = v.unit
  BY DEF MetricUnits
<1>2. CASE u.prefix = "None"
  <2>1. Display(u) = <<UnitSymbol[u.unit]>>
    BY <1>2 DEF Display
  <2>2. /\ Display(u) # <<>> /\ Head(Display(u)) = UnitSymbol[u.unit]
    BY <2>1
  <2>3. \A q \in UnitPrefix : <<Head(Display(u)), q>> \notin PrefixTable
    BY <1>1, <2>2, PrefixSymbols
  <2>4. Display(u) = <<UnitSymbol[v.unit]>> <=> u.unit = v.unit
    BY <1>1, <2>1, UnitSymbols
  <2> QED BY <1>1, <1>2, <2>2, <2>3, <2>4 DEF ParseAs
<1>3. CASE u.prefix # "None"
  <2>1. Display(u) = <<PrefixSymbol[u.prefix], UnitSymbol[u.unit]>>
    BY <1>3 DEF Display
  <2>2. /\ Display(u) # <<>> /\ Head(Display(u)) = PrefixSymbol[u.prefix]
        /\ Tail(Display(u)) = <<UnitSymbol[u.unit]>>
    BY <2>1
  <2>3. <<Head(Display(u)), v.prefix>> \in PrefixTable <=> v.prefix = u.prefix
    BY <1>1, <1>3, <2>2, PrefixSymbols
  <2>4. Tail(Display(u)) = <<UnitSymbol[v.unit]>> <=> u.unit = v.unit
    BY <1>1, <2>2, UnitSymbols
  <2>5. ~ \A p \in UnitPrefix : <<Head(Display(u)), p>> \notin PrefixTable
    BY <1>1, <1>3, <2>2, PrefixSymbols
  <2> QED BY <1>1, <1>3, <2>2, <2>3, <2>4, <2>5 DEF ParseAs
<1> QED BY <1>2, <1>3

(* What is displayed of a unit can be read back. *)
LEMMA UnitReadsBack ==
    ASSUME NEW u \in MetricUnits
    PROVE  TryFromText(Display(u)) =
               IF u.unit = "Count" /\ u.prefix # "None" THEN InvalidUnit ELSE u
<1>1. CASE u.unit = "Count" /\ u.prefix # "None"
  <2>1. ~ \E v \in MetricUnits : ParseAs(Display(u), v)
    BY <1>1, ParsedAsDisplayed
  <2> QED BY <1>1, <2>1 DEF TryFromText
<1>2. CASE ~ (u.unit = "Count" /\ u.prefix # "None")
  <2>1. \A v \in MetricUnits : ParseAs(Display(u), v) <=> v = u
    BY <1>2, ParsedAsDisplayed
  <2> QED BY <1>2, <2>1 DEF TryFromText
<1> QED BY <1>1, <1>2

(* No name is that of two domains. *)
LEMMA NamesApart ==
    \A s, t \in DomainTypes : \A n \in NamesOf[s] : n \in NamesOf[t] => s = t
BY PackageNamesAssumption DEF DomainTypes, NamesOf

(* A name of a domain is read as that domain. *)
LEMMA NameOfDomain ==
    ASSUME NEW t \in DomainTypes, NEW n \in NamesOf[t]
    PROVE  TryFromName(n) = t
<1>1. \A s \in DomainTypes : n \in NamesOf[s] <=> s = t
  BY NamesApart
<1> QED BY <1>1 DEF TryFromName

(* The events of the domains are names of theirs. *)
LEMMA EventsAreRead == EventsReadBack
<1>1. \A t \in DomainTypes : ToPerfEvent[t] \in NamesOf[t]
  BY DEF DomainTypes, ToPerfEvent, NamesOf
<1> QED BY <1>1, NameOfDomain DEF EventsReadBack

(* What a name is read as is a domain, or unknown. *)
LEMMA NameReads ==
    ASSUME NEW n
    PROVE  TryFromName(n) \in DomainTypes \cup {UnknownDomain}
<1>1. CASE \E t \in DomainTypes : n \in NamesOf[t]
  BY <1>1 DEF TryFromName
<1>2. CASE ~ \E t \in DomainTypes : n \in NamesOf[t]
  BY <1>2 DEF TryFromName
<1> QED BY <1>1, <1>2

-----------------------------------------------------------------------------
(* The invariant                                                           *)
-----------------------------------------------------------------------------

\* What perf lists of sockets that were found, and of sockets that are open.
TopologySensors(sockets) ==
    UNION {{RaplSensor(d[2], s.id) : d \in s.types} : s \in sockets}

OpenSensors(sockets) ==
    UNION {{RaplSensor(d[2], s.id) : d \in s.domains} : s \in sockets}

\* What list_sensors() tells once from_config() has returned, in any stage.
SensorsOf ==
    CASE source = "powercap" -> PowercapSensors
      [] source = "perf"     -> TopologySensors(discovered)
      [] source = "nvml"     -> NvmlSensors(discovered)
      [] source = "amdsmi"   -> AmdSmiSensors(discovered)

MetricsOf ==
    CASE source = "powercap" -> PowercapMetrics
      [] source = "perf"     -> PerfMetrics
      [] source = "nvml"     -> NvmlMetrics(discovered)
      [] source = "amdsmi"   -> AmdSmiMetrics(discovered)

Found == Discovery.ok /\ discovered = Discovery.domains

\* What from_config() found is what the machine has, from there to the end.
FoundInv ==
    /\ source \in Sources /\ machine \in Machines[source] /\ stage \in Stages
    /\ stage = "new" => discovered = {}
    /\ discovered = {} \/ Found
    /\ stage \notin {"new", "failed"} => Found

\* What pre_init() opened is what from_config() found.
OpenedInv ==
    /\ stage \in {"new", "built"} \/ source # "perf" => opened = {}
    /\ source = "perf" /\ stage \in {"opened", "ready", "measured", "reported"} =>
          opened = OpenCounters(machine, discovered).sockets
            /\ OpenCounters(machine, discovered).ok

\* What was listed could be listed again.
ListedInv ==
    /\ DOMAIN listed = {"built", "opened"}
    /\ \A s \in DOMAIN listed :
          \/ listed[s] = NotListed
          \/ stage # "new" /\ listed[s] = <<SensorsOf>>

\* A source that measured could read all of its domains.
MeasuredInv ==
    source = "powercap" /\ stage \in {"measured", "reported"} =>
        ReadsAll(machine, discovered)

MetricsInv ==
    metrics = IF stage = "reported" THEN MetricsOf ELSE {}

IInv == FoundInv /\ OpenedInv /\ ListedInv /\ MeasuredInv /\ MetricsInv

(* What is in the two sets of sensors. *)
LEMMA SensorsOfSockets ==
    ASSUME NEW sockets, NEW x
    PROVE  /\ x \in TopologySensors(sockets) <=>
                  \E s \in sockets : \E d \in s.types : x = RaplSensor(d[2], s.id)
           /\ x \in OpenSensors(sockets) <=>
                  \E s \in sockets : \E d \in s.domains : x = RaplSensor(d[2], s.id)
<1>1. x \in TopologySensors(sockets) <=>
          \E s \in sockets : \E d \in s.types : x = RaplSensor(d[2], s.id)
  <2> DEFINE Of(s) == {RaplSensor(d[2], s.id) : d \in s.types}
  <2>1. \A s : x \in Of(s) <=> \E d \in s.types : x = RaplSensor(d[2], s.id)
    OBVIOUS
  <2>2. TopologySensors(sockets) = UNION {Of(s) : s \in sockets}
    BY DEF TopologySensors
  <2> HIDE DEF Of
  <2>3. x \in TopologySensors(sockets) <=> \E s \in sockets : x \in Of(s)
    BY <2>2
  <2> QED BY <2>1, <2>3
<1>2. x \in OpenSensors(sockets) <=>
          \E s \in sockets : \E d \in s.domains : x = RaplSensor(d[2], s.id)
  <2> DEFINE Of(s) == {RaplSensor(d[2], s.id) : d \in s.domains}
  <2>1. \A s : x \in Of(s) <=> \E d \in s.domains : x = RaplSensor(d[2], s.id)
    OBVIOUS
  <2>2. OpenSensors(sockets) = UNION {Of(s) : s \in sockets}
    BY DEF OpenSensors
  <2> HIDE DEF Of
  <2>3. x \in OpenSensors(sockets) <=> \E s \in sockets : x \in Of(s)
    BY <2>2
  <2> QED BY <2>1, <2>3
<1> QED BY <1>1, <1>2

(* A socket that was found has the domains that the PMU has for it. *)
LEMMA TopologyTypes ==
    ASSUME NEW m, NEW sp, NEW s \in PerfTopology(m, sp).sockets
    PROVE  s.types = SupportedOf(m, TypesToOpen(s.id))
BY DEF PerfTopology, SupportedTypes

(* Each socket is opened, with the domains that were found in it. *)
LEMMA OpenedSockets ==
    ASSUME NEW m, NEW found, OpenCounters(m, found).ok
    PROVE  /\ \A s \in found : \E o \in OpenCounters(m, found).sockets :
                  o.id = s.id /\ o.domains = SupportedOf(m, TypesToOpen(s.id))
           /\ \A o \in OpenCounters(m, found).sockets : \E s \in found :
                  /\ o.id = s.id /\ o.domains = SupportedOf(m, TypesToOpen(s.id))
                  /\ o = [id |-> s.id, cpu |-> GroupCpu(m, s),
                          domains |-> SupportedOf(m, TypesToOpen(s.id))]
<1>1. OpenCounters(m, found).sockets =
        {[id |-> s.id, cpu |-> GroupCpu(m, s),
          domains |-> SupportedOf(m, TypesToOpen(s.id))] : s \in found}
  BY DEF OpenCounters, OpenedTypes
<1> DEFINE Open(s) == [id |-> s.id, cpu |-> GroupCpu(m, s),
                       domains |-> SupportedOf(m, TypesToOpen(s.id))]
<1>2. \A s : /\ Open(s).id = s.id
             /\ Open(s).domains = SupportedOf(m, TypesToOpen(s.id))
  OBVIOUS
<1>3. OpenCounters(m, found).sockets = {Open(s) : s \in found}
  BY <1>1
<1>4. \A o : o \in OpenCounters(m, found).sockets <=> \E s \in found : o = Open(s)
  BY <1>3
<1>5. \A s \in found : \E o \in OpenCounters(m, found).sockets :
         o.id = s.id /\ o.domains = SupportedOf(m, TypesToOpen(s.id))
  <2> HIDE DEF Open
  <2> QED BY <1>2, <1>4
<1>6. \A o \in OpenCounters(m, found).sockets : \E s \in found :
         o.id = s.id /\ o.domains = SupportedOf(m, TypesToOpen(s.id)) /\ o = Open(s)
  <2> HIDE DEF Open
  <2> QED BY <1>2, <1>4
<1> QED BY <1>5, <1>6

(* What is open is listed as what was found. *)
LEMMA OpenedAsFound ==
    ASSUME NEW m, NEW sp,
           OpenCounters(m, PerfTopology(m, sp).sockets).ok
    PROVE  OpenSensors(OpenCounters(m, PerfTopology(m, sp).sockets).sockets)
             = TopologySensors(PerfTopology(m, sp).sockets)
<1> DEFINE found == PerfTopology(m, sp).sockets
           open  == OpenCounters(m, found).sockets
<1>1. \A s \in found : s.types = SupportedOf(m, TypesToOpen(s.id))
  BY TopologyTypes
<1>2. OpenCounters(m, found).ok
  OBVIOUS
<1> HIDE DEF found
<1>3. /\ \A s \in found : \E o \in open :
            o.id = s.id /\ o.domains = SupportedOf(m, TypesToOpen(s.id))
      /\ \A o \in open : \E s \in found :
            o.id = s.id /\ o.domains = SupportedOf(m, TypesToOpen(s.id))
  BY <1>2, OpenedSockets
<1> HIDE DEF open
<1>4. /\ \A s \in found : \E o \in open : o.id = s.id /\ o.domains = s.types
      /\ \A o \in open : \E s \in found : o.id = s.id /\ o.domains = s.types
  BY <1>1, <1>3
<1>5. \A x : x \in OpenSensors(open) <=> x \in TopologySensors(found)
  BY <1>4, SensorsOfSockets
<1>6. OpenSensors(open) = TopologySensors(found)
  BY <1>5
<1> QED BY <1>6 DEF found, open

(* What is listed is the same, whether the counters are open or not. *)
LEMMA ListedAlike ==
    ASSUME FoundInv, OpenedInv, stage \in {"built", "opened"}
    PROVE  GetSensors = SensorsOf
<1>1. CASE source = "perf"
  <2>1. GetSensors = PerfSensors /\ SensorsOf = TopologySensors(discovered)
    BY <1>1 DEF GetSensors, SensorsOf
  <2>2. discovered = PerfTopology(machine, spec).sockets
    BY <1>1 DEF FoundInv, Found, Discovery
  <2>3. PerfSensors = IF opened # {} THEN OpenSensors(opened)
                                     ELSE TopologySensors(discovered)
    BY DEF PerfSensors, TopologySensors, OpenSensors
  <2>4. CASE opened # {}
    <3>1. /\ opened = OpenCounters(machine, discovered).sockets
          /\ OpenCounters(machine, discovered).ok
      BY <1>1, <2>4 DEF OpenedInv
    <3>2. OpenSensors(opened) = TopologySensors(discovered)
      BY <2>2, <3>1, OpenedAsFound
    <3> QED BY <2>1, <2>3, <2>4, <3>2
  <2> QED BY <2>1, <2>3, <2>4
<1>2. CASE source # "perf"
  BY <1>2 DEF FoundInv, Sources, RaplSources, Libraries, GetSensors, SensorsOf
<1> QED BY <1>1, <1>2

(* IInv holds in the beginning. *)
LEMMA InitInv == Init => IInv
<1> SUFFICES ASSUME Init PROVE IInv
  OBVIOUS
<1>1. FoundInv
  BY SensorsAssumption DEF Init, FoundInv, Stages
<1> QED BY <1>1 DEF Init, IInv, OpenedInv, ListedInv, MeasuredInv, MetricsInv

(* IInv is preserved by every step. *)
LEMMA NextInv == IInv /\ [Next]_vars => IInv'
<1> SUFFICES ASSUME IInv, [Next]_vars PROVE IInv'
  OBVIOUS
<1> USE DEF IInv
<1>1. CASE FromConfig
  <2>1. UNCHANGED <<source, machine, spec, opened, listed, metrics>> /\ stage = "new"
    BY <1>1 DEF FromConfig
  <2>2. Discovery' = Discovery
    BY <2>1 DEF Discovery
  <2>3. FoundInv'
    BY <1>1, <2>1, <2>2 DEF FromConfig, FoundInv, Found, Stages
  <2>4. ListedInv'
    BY <1>1, <2>1 DEF ListedInv
  <2>5. stage' \in {"built", "failed"}
    BY <1>1 DEF FromConfig
  <2> QED BY <2>1, <2>3, <2>4, <2>5 DEF OpenedInv, MeasuredInv, MetricsInv
<1>2. CASE ListSensors
  <2>1. UNCHANGED <<source, machine, spec, stage, discovered, opened, metrics>>
        /\ stage \in {"built", "opened"}
    BY <1>2 DEF ListSensors
  <2>2. listed' = [listed EXCEPT ![stage] = <<SensorsOf>>]
    BY <1>2, <2>1, ListedAlike DEF ListSensors
  <2>3. SensorsOf' = SensorsOf
    BY <2>1 DEF SensorsOf, TopologySensors, PowercapSensors
  <2>4. ListedInv'
    BY <2>1, <2>2, <2>3 DEF ListedInv
  <2>5. Discovery' = Discovery /\ MetricsOf' = MetricsOf
    BY <2>1 DEF Discovery, MetricsOf, PowercapMetrics, PerfMetrics
  <2> QED BY <2>1, <2>4, <2>5 DEF FoundInv, Found, OpenedInv, MeasuredInv, MetricsInv
<1>3. ASSUME PreInit \/ InitSource \/ Measure PROVE IInv'
  <2>1. UNCHANGED <<source, machine, spec, discovered, listed, metrics>>
    BY <1>3 DEF PreInit, InitSource, Measure
  <2>2. SensorsOf' = SensorsOf /\ Discovery' = Discovery
    BY <2>1 DEF SensorsOf, TopologySensors, PowercapSensors, Discovery
  <2>3. stage \in {"built", "opened", "ready"}
        /\ stage' \in {"opened", "ready", "measured", "failed"}
    BY <1>3 DEF PreInit, InitSource, Measure
  <2>4. FoundInv' /\ ListedInv' /\ MetricsInv'
    BY <2>1, <2>2, <2>3 DEF FoundInv, Found, ListedInv, MetricsInv, Stages
  <2>5. OpenedInv'
    <3>1. CASE PreInit
      BY <2>1, <3>1 DEF PreInit, OpenedInv
    <3>2. CASE InitSource \/ Measure
      <4>1. opened' = opened /\ stage \in {"opened", "ready"}
        BY <3>2 DEF InitSource, Measure
      <4> QED BY <2>1, <2>3, <4>1 DEF OpenedInv
    <3> QED BY <1>3, <3>1, <3>2
  <2>6. MeasuredInv'
    BY <1>3, <2>1 DEF PreInit, InitSource, Measure, MeasuredInv
  <2> QED BY <2>4, <2>5, <2>6
<1>4. CASE ToMetrics
  <2>1. UNCHANGED <<source, machine, spec, discovered, opened, listed>>
        /\ stage = "measured" /\ stage' = "reported" /\ metrics' = MetricsOf
    BY <1>4 DEF ToMetrics, MetricsOf
  <2>2. SensorsOf' = SensorsOf /\ Discovery' = Discovery /\ MetricsOf' = MetricsOf
    BY <2>1 DEF SensorsOf, TopologySensors, PowercapSensors, Discovery, MetricsOf,
                PowercapMetrics, PerfMetrics
  <2> QED BY <2>1, <2>2 DEF FoundInv, Found, OpenedInv, ListedInv, MeasuredInv,
                            MetricsInv, Stages
<1>5. CASE UNCHANGED vars
  <2>1. SensorsOf' = SensorsOf /\ Discovery' = Discovery /\ MetricsOf' = MetricsOf
    BY <1>5 DEF vars, SensorsOf, TopologySensors, PowercapSensors, Discovery,
                MetricsOf, PowercapMetrics, PerfMetrics
  <2> QED BY <1>5, <2>1 DEF vars, FoundInv, Found, OpenedInv, ListedInv, MeasuredInv,
                            MetricsInv
<1> QED BY <1>1, <1>2, <1>3, <1>4, <1>5 DEF Next, Finished

(* IInv is inductive. *)
THEOREM Invariance == Spec => []IInv
BY InitInv, NextInv, PTL DEF Spec

-----------------------------------------------------------------------------
(* The metrics                                                             *)
-----------------------------------------------------------------------------

(* The metrics of perf, one for each domain that is open. *)
LEMMA PerfMetric ==
    ASSUME NEW x
    PROVE  x \in PerfMetrics <=>
               \E s \in opened : \E d \in s.domains :
                   x = MetricOf(RaplSensor(d[2], s.id), -6)
<1> DEFINE Of(s) == {MetricOf(RaplSensor(d[2], s.id), -6) : d \in s.domains}
<1>1. \A s : x \in Of(s) <=>
               \E d \in s.domains : x = MetricOf(RaplSensor(d[2], s.id), -6)
  OBVIOUS
<1>2. PerfMetrics = UNION {Of(s) : s \in opened}
  BY DEF PerfMetrics
<1> HIDE DEF Of
<1>3. x \in PerfMetrics <=> \E s \in opened : x \in Of(s)
  BY <1>2
<1> QED BY <1>1, <1>3

(* The metrics of powercap, one for each index. *)
LEMMA PowercapMetric ==
    ASSUME NEW x
    PROVE  x \in PowercapMetrics <=>
               \E d \in discovered : x = MetricOf(RaplSensor(d.type, d.socket), -6)
<1>1. DOMAIN EnergyByIndex(discovered) = {<<d.type, d.socket>> : d \in discovered}
  BY DEF EnergyByIndex
<1>2. x \in PowercapMetrics <=>
          \E i \in DOMAIN EnergyByIndex(discovered) : x = MetricOf(RaplSensor(i[1], i[2]), -6)
  BY DEF PowercapMetrics
<1>3. \A d : <<d.type, d.socket>>[1] = d.type /\ <<d.type, d.socket>>[2] = d.socket
  OBVIOUS
<1> QED BY <1>1, <1>2, <1>3

\* The metrics of a device.
DeviceMetrics(library, d) ==
    BoundsMetrics(d) \cup
      (IF d.support \cap {"Energy", "Power"} # {}
       THEN {MetricOf(EnergySensor(library, d.index), EnergyExponent(library, d))}
       ELSE {})

(* The metrics of a library are those of its devices. *)
LEMMA GpuMetric ==
    ASSUME NEW devices, NEW x
    PROVE  /\ x \in NvmlMetrics(devices) <=>
                  \E d \in devices : x \in DeviceMetrics("nvml", d)
           /\ x \in AmdSmiMetrics(devices) <=>
                  \E d \in devices : x \in DeviceMetrics("amdsmi", d)
<1>1. /\ NvmlMetrics(devices) = UNION {DeviceMetrics("nvml", d) : d \in devices}
      /\ AmdSmiMetrics(devices) = UNION {DeviceMetrics("amdsmi", d) : d \in devices}
  BY DEF NvmlMetrics, AmdSmiMetrics, DeviceMetrics
<1> QED BY <1>1

\* The sensor of a bound, and the sensors of the bounds of a device.
BoundSensor(index, name, bound, unit) ==
    NewSensor(<<index, name, bound>>, "None", unit)

(* The two sensors of a measure with bounds. *)
LEMMA MinMaxSensor ==
    ASSUME NEW index, NEW name, NEW unit, NEW x
    PROVE  x \in MinMax(index, name, unit) <=>
               \E b \in {"min", "max"} : x = BoundSensor(index, name, b, unit)
BY DEF MinMax, BoundSensor

(* The metrics of a device, one by one. *)
LEMMA DeviceMetric ==
    ASSUME NEW library, NEW d, NEW x
    PROVE  x \in DeviceMetrics(library, d) <=>
             \/ /\ "Vram" \in d.support
                /\ \E b \in {"min", "max"} :
                      x = MetricOf(BoundSensor(d.index, "vram", b, "Byte"), 0)
             \/ /\ "Utilization" \in d.support
                /\ \E b \in {"min", "max"} :
                      x = MetricOf(BoundSensor(d.index, "utilization", b, "Percent"), 0)
             \/ /\ "Energy" \in d.support \/ "Power" \in d.support
                /\ x = MetricOf(EnergySensor(library, d.index), EnergyExponent(library, d))
<1> DEFINE V == MinMax(d.index, "vram", "Byte")
           U == MinMax(d.index, "utilization", "Percent")
<1>1. x \in BoundsMetrics(d) <=>
         \/ "Vram" \in d.support /\ \E s \in V : x = MetricOf(s, 0)
         \/ "Utilization" \in d.support /\ \E s \in U : x = MetricOf(s, 0)
  BY DEF BoundsMetrics
<1>2. (\E s \in V : x = MetricOf(s, 0)) <=>
         \E b \in {"min", "max"} : x = MetricOf(BoundSensor(d.index, "vram", b, "Byte"), 0)
  BY MinMaxSensor
<1>3. (\E s \in U : x = MetricOf(s, 0)) <=>
         \E b \in {"min", "max"} :
             x = MetricOf(BoundSensor(d.index, "utilization", b, "Percent"), 0)
  BY MinMaxSensor
<1>4. d.support \cap {"Energy", "Power"} # {} <=>
         "Energy" \in d.support \/ "Power" \in d.support
  OBVIOUS
<1>5. x \in DeviceMetrics(library, d) <=>
         \/ x \in BoundsMetrics(d)
         \/ /\ "Energy" \in d.support \/ "Power" \in d.support
            /\ x = MetricOf(EnergySensor(library, d.index), EnergyExponent(library, d))
  BY <1>4 DEF DeviceMetrics
<1> QED BY <1>1, <1>2, <1>3, <1>5

(* What a sensor and a metric are made of. *)
LEMMA MetricParts ==
    /\ \A s, e : MetricOf(s, e).sensor = s /\ MetricOf(s, e).exponent = e
    /\ \A n, p, u : /\ NewSensor(n, p, u).name = n
                    /\ NewSensor(n, p, u).unit = [prefix |-> p, unit |-> u]
BY DEF MetricOf, NewSensor

-----------------------------------------------------------------------------
(* The values are in their unit                                            *)
-----------------------------------------------------------------------------

\* The unit of a metric is one that is displayed, and has the scale of its value.
InItsUnit(m) ==
    /\ m.sensor.unit \in MetricUnits
    /\ m.sensor.unit.unit # "Count"
    /\ m.exponent = Exponent[m.sensor.unit.prefix]

(* Metrics with one of the units in use, and its scale, are in their unit. *)
LEMMA InUnit ==
    ASSUME NEW name, NEW p, NEW u, NEW e,
           <<p, u, e>> \in {<<"Micro", "Joule", -6>>, <<"Milli", "Joule", -3>>,
                           <<"None", "Byte", 0>>, <<"None", "Percent", 0>>}
    PROVE  InItsUnit(MetricOf(NewSensor(name, p, u), e))
<1>1. /\ p \in UnitPrefix /\ u \in Unit /\ u # "Count"
  BY DEF UnitPrefix, Unit
<1>2. Exponent["Micro"] = -6 /\ Exponent["Milli"] = -3 /\ Exponent["None"] = 0
  BY DEF Exponent
<1>3. e = Exponent[p]
  BY <1>2
<1>4. [prefix |-> p, unit |-> u] \in MetricUnits
  BY <1>1 DEF MetricUnits
<1> QED BY <1>1, <1>3, <1>4, MetricParts DEF InItsUnit

(* The energy of a device is in millijoules or microjoules. *)
LEMMA EnergyInUnit ==
    ASSUME NEW library \in Libraries, NEW d
    PROVE  InItsUnit(MetricOf(EnergySensor(library, d.index), EnergyExponent(library, d)))
<1>1. CASE library = "nvml"
  <2>1. EnergyExponent(library, d) = -3
    BY <1>1 DEF EnergyExponent, RegisterExponent, NvmlEnergyExponent, PowerExponent,
                TimeExponent
  <2>2. EnergySensor(library, d.index) = NewSensor(<<d.index, "energy">>, "Milli", "Joule")
    BY <1>1 DEF EnergySensor
  <2> QED BY <2>1, <2>2, InUnit
<1>2. CASE library = "amdsmi"
  <2>1. EnergyExponent(library, d) = -6
    BY <1>2 DEF EnergyExponent, RegisterExponent, AmdSmiEnergyExponent, PowerExponent,
                TimeExponent
  <2>2. EnergySensor(library, d.index) = NewSensor(<<d.index, "energy">>, "Micro", "Joule")
    BY <1>2 DEF EnergySensor
  <2> QED BY <2>1, <2>2, InUnit
<1> QED BY <1>1, <1>2 DEF Libraries

(* So are all metrics of a device. *)
LEMMA DeviceInUnit ==
    ASSUME NEW library \in Libraries, NEW d, NEW x \in DeviceMetrics(library, d)
    PROVE  InItsUnit(x)
<1>1. \A b : InItsUnit(MetricOf(BoundSensor(d.index, "vram", b, "Byte"), 0))
  BY InUnit DEF BoundSensor
<1>2. \A b : InItsUnit(MetricOf(BoundSensor(d.index, "utilization", b, "Percent"), 0))
  BY InUnit DEF BoundSensor
<1> QED BY <1>1, <1>2, DeviceMetric, EnergyInUnit

(***************************************************************************)
(* UnitsTellValues: the powers of ten along each path from what the kernel *)
(* or a library tells to the metric add up to the prefix of its unit, and  *)
(* what is displayed of the unit reads as that unit.                       *)
(***************************************************************************)
THEOREM ValuesInUnits == Spec => []UnitsTellValues
<1>1. IInv => UnitsTellValues
  <2> SUFFICES ASSUME IInv PROVE UnitsTellValues
    OBVIOUS
  <2>1. UnitsReadBack
    BY UnitReadsBack DEF UnitsReadBack
  <2>2. \A m \in metrics : InItsUnit(m)
    <3> SUFFICES ASSUME NEW m \in metrics PROVE InItsUnit(m)
      OBVIOUS
    <3>1. m \in MetricsOf
      BY DEF IInv, MetricsInv
    <3>2. CASE source = "perf"
      <4>1. m \in PerfMetrics
        BY <3>1, <3>2 DEF MetricsOf
      <4> QED BY <4>1, PerfMetric, InUnit DEF RaplSensor
    <3>3. CASE source = "powercap"
      <4>1. m \in PowercapMetrics
        BY <3>1, <3>3 DEF MetricsOf
      <4> QED BY <4>1, PowercapMetric, InUnit DEF RaplSensor
    <3>4. CASE source = "nvml"
      <4>1. m \in NvmlMetrics(discovered)
        BY <3>1, <3>4 DEF MetricsOf
      <4> QED BY <4>1, GpuMetric, DeviceInUnit DEF Libraries
    <3>5. CASE source = "amdsmi"
      <4>1. m \in AmdSmiMetrics(discovered)
        BY <3>1, <3>5 DEF MetricsOf
      <4> QED BY <4>1, GpuMetric, DeviceInUnit DEF Libraries
    <3> QED BY <3>2, <3>3, <3>4, <3>5 DEF IInv, FoundInv, Sources, RaplSources, Libraries
  <2>3. \A m \in metrics : TryFromText(Display(m.sensor.unit)) = m.sensor.unit
    BY <2>2, UnitReadsBack DEF InItsUnit
  <2> QED BY <2>1, <2>2, <2>3, EventsAreRead DEF UnitsTellValues, InItsUnit
<1> QED BY <1>1, Invariance, PTL

-----------------------------------------------------------------------------
(* What is listed is reported                                              *)
-----------------------------------------------------------------------------

(* With perf, what is reported is what is open. *)
LEMMA PerfSensed ==
    ASSUME IInv, source = "perf", Reported
    PROVE  Sensed = TopologySensors(discovered)
<1>1. metrics = PerfMetrics
  BY DEF IInv, MetricsInv, MetricsOf, Reported
<1>2. \A x : x \in Sensed <=>
          \E s \in opened : \E d \in s.domains : x = RaplSensor(d[2], s.id)
  <2> TAKE x
  <2>1. x \in Sensed <=> \E m \in PerfMetrics : x = m.sensor
    BY <1>1 DEF Sensed
  <2> QED BY <2>1, PerfMetric, MetricParts
<1>3. Sensed = OpenSensors(opened)
  <2>1. \A x : x \in Sensed <=> x \in OpenSensors(opened)
    BY <1>2, SensorsOfSockets
  <2> QED BY <2>1
<1>4. discovered = PerfTopology(machine, spec).sockets
  BY DEF IInv, FoundInv, Found, Discovery, Reported
<1>5. /\ opened = OpenCounters(machine, discovered).sockets
      /\ OpenCounters(machine, discovered).ok
  BY DEF IInv, OpenedInv, Reported
<1> QED BY <1>3, <1>4, <1>5, OpenedAsFound

(* With powercap, what is reported is what was found. *)
LEMMA PowercapSensed ==
    ASSUME IInv, source = "powercap", Reported
    PROVE  Sensed = PowercapSensors
<1>1. metrics = PowercapMetrics
  BY DEF IInv, MetricsInv, MetricsOf, Reported
<1>2. \A x : x \in Sensed <=> \E d \in discovered : x = RaplSensor(d.type, d.socket)
  <2> TAKE x
  <2>1. x \in Sensed <=> \E m \in PowercapMetrics : x = m.sensor
    BY <1>1 DEF Sensed
  <2> QED BY <2>1, PowercapMetric, MetricParts
<1>3. \A x : x \in PowercapSensors <=> \E d \in discovered : x = RaplSensor(d.type, d.socket)
  BY DEF PowercapSensors
<1> QED BY <1>2, <1>3

(* The sensors of the metrics of one device. *)
SensedBy(library, d) == {m.sensor : m \in DeviceMetrics(library, d)}

(* The sensors of the metrics of a device, one by one. *)
LEMMA DeviceSensed ==
    ASSUME NEW library, NEW d, NEW x
    PROVE  x \in SensedBy(library, d) <=>
             \/ /\ "Vram" \in d.support
                /\ \E b \in {"min", "max"} : x = BoundSensor(d.index, "vram", b, "Byte")
             \/ /\ "Utilization" \in d.support
                /\ \E b \in {"min", "max"} :
                      x = BoundSensor(d.index, "utilization", b, "Percent")
             \/ /\ "Energy" \in d.support \/ "Power" \in d.support
                /\ x = EnergySensor(library, d.index)
BY DeviceMetric, MetricParts DEF SensedBy

(* The metrics of a GPU source are those of the devices that it found. *)
LEMMA GpuMetrics ==
    ASSUME IInv, source \in Libraries, Reported
    PROVE  \A m : m \in metrics <=> \E d \in discovered : m \in DeviceMetrics(source, d)
<1>1. metrics = IF source = "nvml" THEN NvmlMetrics(discovered)
                                   ELSE AmdSmiMetrics(discovered)
  BY DEF IInv, MetricsInv, MetricsOf, Reported, Libraries
<1> QED BY <1>1, GpuMetric DEF Libraries

(* NVML lists more than what a device has, AMD SMI just that. *)
LEMMA GpuSensed ==
    ASSUME IInv, source \in Libraries, Reported
    PROVE  /\ source = "nvml" => Sensed \subseteq NvmlSensors(discovered)
           /\ source = "amdsmi" => Sensed = AmdSmiSensors(discovered)
<1>1. \A x : x \in Sensed <=>
          \E d \in discovered : x \in SensedBy(source, d)
  BY GpuMetrics DEF Sensed, SensedBy
<1>2. ASSUME source = "nvml", NEW x \in Sensed PROVE x \in NvmlSensors(discovered)
  <2>1. PICK d \in discovered : x \in SensedBy("nvml", d)
    BY <1>1, <1>2
  <2>2. \/ x = EnergySensor("nvml", d.index)
        \/ x \in MinMax(d.index, "vram", "Byte")
        \/ x \in MinMax(d.index, "utilization", "Percent")
    BY <2>1, DeviceSensed, MinMaxSensor
  <2> DEFINE Of(e) == {EnergySensor("nvml", e.index)}
                        \cup MinMax(e.index, "vram", "Byte")
                        \cup MinMax(e.index, "utilization", "Percent")
  <2>3. x \in Of(d)
    BY <2>2
  <2>4. NvmlSensors(discovered) = UNION {Of(e) : e \in discovered}
    BY DEF NvmlSensors
  <2> HIDE DEF Of
  <2> QED BY <2>3, <2>4
<1>3. ASSUME source = "amdsmi", NEW x PROVE x \in Sensed <=> x \in AmdSmiSensors(discovered)
  <2> DEFINE Of(d) ==
        (IF d.support \cap {"Energy", "Power"} # {}
         THEN {EnergySensor("amdsmi", d.index)} ELSE {})
          \cup (IF "Vram" \in d.support THEN MinMax(d.index, "vram", "Byte") ELSE {})
          \cup (IF "Utilization" \in d.support
                THEN MinMax(d.index, "utilization", "Percent") ELSE {})
  <2>1. \A d : x \in Of(d) <=> x \in SensedBy("amdsmi", d)
    <3> TAKE d
    <3>1. d.support \cap {"Energy", "Power"} # {} <=>
              "Energy" \in d.support \/ "Power" \in d.support
      OBVIOUS
    <3>2. x \in Of(d) <=>
             \/ /\ "Energy" \in d.support \/ "Power" \in d.support
                /\ x = EnergySensor("amdsmi", d.index)
             \/ "Vram" \in d.support /\ x \in MinMax(d.index, "vram", "Byte")
             \/ /\ "Utilization" \in d.support
                /\ x \in MinMax(d.index, "utilization", "Percent")
      BY <3>1
    <3>3. /\ x \in MinMax(d.index, "vram", "Byte") <=>
                \E b \in {"min", "max"} : x = BoundSensor(d.index, "vram", b, "Byte")
          /\ x \in MinMax(d.index, "utilization", "Percent") <=>
                \E b \in {"min", "max"} :
                    x = BoundSensor(d.index, "utilization", b, "Percent")
      BY MinMaxSensor
    <3>4. x \in SensedBy("amdsmi", d) <=>
             \/ /\ "Vram" \in d.support
                /\ \E b \in {"min", "max"} : x = BoundSensor(d.index, "vram", b, "Byte")
             \/ /\ "Utilization" \in d.support
                /\ \E b \in {"min", "max"} :
                      x = BoundSensor(d.index, "utilization", b, "Percent")
             \/ /\ "Energy" \in d.support \/ "Power" \in d.support
                /\ x = EnergySensor("amdsmi", d.index)
      BY DeviceSensed
    <3> HIDE DEF Of
    <3> QED BY <3>2, <3>3, <3>4
  <2>2. AmdSmiSensors(discovered) = UNION {Of(d) : d \in discovered}
    BY DEF AmdSmiSensors
  <2> HIDE DEF Of
  <2>3. x \in AmdSmiSensors(discovered) <=> \E d \in discovered : x \in Of(d)
    BY <2>2
  <2> QED BY <1>1, <1>3, <2>1, <2>3
<1> QED BY <1>2, <1>3

(***************************************************************************)
(* ListedAreReported: before and after the counters are open, list_sensors *)
(* tells the same, and what it tells is what a profile reports, although   *)
(* get_sensors, open_counters and to_metrics each go over the machine in   *)
(* their own way.                                                          *)
(***************************************************************************)
THEOREM SensorsAreReported == Spec => []ListedAreReported
<1>1. IInv => ListedAreReported
  <2> SUFFICES ASSUME IInv PROVE ListedAreReported
    OBVIOUS
  <2>1. \A s \in DOMAIN listed : listed[s] = NotListed \/ listed[s] = <<SensorsOf>>
    BY DEF IInv, ListedInv
  <2>2. DOMAIN listed = {"built", "opened"}
    BY DEF IInv, ListedInv
  <2>3. ASSUME Reported
        PROVE  Sensed \subseteq SensorsOf /\ (source # "nvml" => Sensed = SensorsOf)
    <3>1. CASE source \in RaplSources
      BY <2>3, <3>1, PerfSensed, PowercapSensed DEF RaplSources, SensorsOf
    <3>2. CASE source \in Libraries
      BY <2>3, <3>2, GpuSensed DEF Libraries, SensorsOf
    <3> QED BY <3>1, <3>2 DEF IInv, FoundInv, Sources
  <2>4. \A s \in DOMAIN listed : listed[s] # NotListed => listed[s][1] = SensorsOf
    BY <2>1
  <2> HIDE DEF SensorsOf
  <2>5. NotListed \notin {listed["built"], listed["opened"]} =>
            listed["built"] = listed["opened"]
    BY <2>1, <2>2
  <2> QED BY <2>3, <2>4, <2>5 DEF ListedAreReported
<1> QED BY <1>1, Invariance, PTL

-----------------------------------------------------------------------------
(* perf: the domains of the sockets                                        *)
-----------------------------------------------------------------------------

(* What is appended comes last, behind what there was. *)
LEMMA AppendedTo ==
    ASSUME NEW S, NEW seq \in Seq(S), NEW last \in S,
           NEW all, all = Append(seq, last)
    PROVE  /\ DOMAIN all = 1 .. Len(seq) + 1 /\ all[Len(seq) + 1] = last
           /\ \A i \in 1 .. Len(seq) : all[i] = seq[i]
<1>1. all \in Seq(S)
  OBVIOUS
<1>2. Len(all) = Len(seq) + 1
  OBVIOUS
<1>3. \A i \in 1 .. Len(seq) : all[i] = seq[i]
  OBVIOUS
<1>4. all[Len(seq) + 1] = last
  OBVIOUS
<1> QED BY <1>1, <1>2, <1>3, <1>4

(* Each domain is tried once for a socket, the platform with socket 0 only. *)
LEMMA TypesTried ==
    ASSUME NEW id
    PROVE  /\ \A t : (\E i \in DOMAIN TypesToOpen(id) : TypesToOpen(id)[i] = t) <=>
                       t \in DomainTypes /\ (t = "Psys" => id = 0)
           /\ \A i, j \in DOMAIN TypesToOpen(id) :
                  TypesToOpen(id)[i] = TypesToOpen(id)[j] => i = j
<1>1. /\ PerSocketDomainTypes \in Seq(DomainTypes) /\ Len(PerSocketDomainTypes) = 4
      /\ DOMAIN PerSocketDomainTypes = 1 .. 4 /\ "Psys" \in DomainTypes
  BY DEF DomainTypes, PerSocketDomainTypes
<1>2. /\ PerSocketDomainTypes[1] = "Package" /\ PerSocketDomainTypes[2] = "Core"
      /\ PerSocketDomainTypes[3] = "Uncore"  /\ PerSocketDomainTypes[4] = "Dram"
  BY DEF PerSocketDomainTypes
<1>3. CASE id = 0
  <2>1. TypesToOpen(id) = Append(PerSocketDomainTypes, "Psys")
    BY <1>3 DEF TypesToOpen
  <2>2. /\ DOMAIN TypesToOpen(id) = 1 .. 5 /\ TypesToOpen(id)[5] = "Psys"
        /\ \A i \in 1 .. 4 : TypesToOpen(id)[i] = PerSocketDomainTypes[i]
    BY <1>1, <2>1, AppendedTo
  <2>3. \A i \in 1 .. 5 : i = 1 \/ i = 2 \/ i = 3 \/ i = 4 \/ i = 5
    OBVIOUS
  <2>4. /\ TypesToOpen(id)[1] = "Package" /\ TypesToOpen(id)[2] = "Core"
        /\ TypesToOpen(id)[3] = "Uncore"  /\ TypesToOpen(id)[4] = "Dram"
        /\ TypesToOpen(id)[5] = "Psys"
    BY <1>2, <2>2
  <2> QED BY <1>3, <2>2, <2>3, <2>4 DEF DomainTypes
<1>4. CASE id # 0
  <2>1. TypesToOpen(id) = PerSocketDomainTypes
    BY <1>4 DEF TypesToOpen
  <2>2. \A i \in 1 .. 4 : i = 1 \/ i = 2 \/ i = 3 \/ i = 4
    OBVIOUS
  <2> QED BY <1>1, <1>2, <1>4, <2>1, <2>2 DEF DomainTypes
<1> QED BY <1>3, <1>4

(* The domains of a socket are those that the PMU supports. *)
LEMMA SupportedDomains ==
    ASSUME NEW m, NEW id
    PROVE  /\ \A t : (\E d \in SupportedOf(m, TypesToOpen(id)) : d[2] = t) <=>
                  t \in DomainTypes /\ (t = "Psys" => id = 0) /\ Supported(m, t)
           /\ \A c, d \in SupportedOf(m, TypesToOpen(id)) : c[2] = d[2] => c = d
           /\ \A d \in SupportedOf(m, TypesToOpen(id)) : d[2] = "Psys" => id = 0
<1> DEFINE types == TypesToOpen(id)
<1>1. \A d : d \in SupportedOf(m, types) <=>
          \E i \in DOMAIN types : Supported(m, types[i]) /\ d = <<i, types[i]>>
  <2> HIDE DEF types
  <2> QED BY DEF SupportedOf
<1>2. /\ \A t : (\E i \in DOMAIN types : types[i] = t) <=>
              t \in DomainTypes /\ (t = "Psys" => id = 0)
      /\ \A i, j \in DOMAIN types : types[i] = types[j] => i = j
  BY TypesTried
<1> HIDE DEF types
<1>3. \A t : (\E d \in SupportedOf(m, types) : d[2] = t) <=>
           \E i \in DOMAIN types : Supported(m, types[i]) /\ types[i] = t
  <2> TAKE t
  <2>1. ASSUME NEW d \in SupportedOf(m, types), d[2] = t
        PROVE  \E i \in DOMAIN types : Supported(m, types[i]) /\ types[i] = t
    BY <1>1, <2>1
  <2>2. ASSUME NEW i \in DOMAIN types, Supported(m, types[i]), types[i] = t
        PROVE  \E d \in SupportedOf(m, types) : d[2] = t
    <3>1. <<i, types[i]>> \in SupportedOf(m, types)
      BY <1>1, <2>2
    <3> QED BY <2>2, <3>1
  <2> QED BY <2>1, <2>2
<1>4. \A c, d \in SupportedOf(m, types) : c[2] = d[2] => c = d
  BY <1>1, <1>2
<1>5. \A t : (\E d \in SupportedOf(m, types) : d[2] = t) <=>
              t \in DomainTypes /\ (t = "Psys" => id = 0) /\ Supported(m, t)
  BY <1>2, <1>3
<1>6. \A d \in SupportedOf(m, types) : d[2] = "Psys" => id = 0
  BY <1>5
<1> QED BY <1>4, <1>5, <1>6 DEF types

\* The sockets that are online and selected.
SocketsOf(m, sp) == {s \in {m.cpu[c] : c \in DOMAIN m.cpu} : Selected(sp, s)}

(* A source with a topology has each of them, once. *)
LEMMA TopologySockets ==
    ASSUME NEW m, NEW sp, PerfTopology(m, sp).ok
    PROVE  /\ \A id : id \in SocketsOf(m, sp) <=>
                  \E s \in PerfTopology(m, sp).sockets : s.id = id
           /\ \A r, s \in PerfTopology(m, sp).sockets : r.id = s.id => r = s
<1> DEFINE Cpus(id)  == SetToSortSeq({c \in DOMAIN m.cpu : m.cpu[c] = id}, <)
           Info(id)  == [id |-> id, cpus |-> Cpus(id)]
           Socket(id) ==
             [id |-> id, cpus |-> Cpus(id), types |-> SupportedTypes(m, id)]
<1>1. SocketTopology(m, sp) = {Info(id) : id \in SocketsOf(m, sp)}
  BY DEF SocketTopology, SocketsOf
<1> HIDE DEF Cpus
<1>2. PerfTopology(m, sp).sockets =
        {[id |-> s.id, cpus |-> s.cpus, types |-> SupportedTypes(m, s.id)]
           : s \in SocketTopology(m, sp)}
  BY DEF PerfTopology
<1> DEFINE With(s) == [id |-> s.id, cpus |-> s.cpus, types |-> SupportedTypes(m, s.id)]
<1>3. \A id : With(Info(id)) = Socket(id)
  OBVIOUS
<1>4. PerfTopology(m, sp).sockets = {With(s) : s \in SocketTopology(m, sp)}
  BY <1>2
<1>5. \A x : x \in PerfTopology(m, sp).sockets <=>
          \E id \in SocketsOf(m, sp) : x = Socket(id)
  <2> HIDE DEF Info, With, Socket
  <2> QED BY <1>1, <1>3, <1>4
<1>6. \A id : Socket(id).id = id
  OBVIOUS
<1> HIDE DEF Socket
<1> QED BY <1>5, <1>6

(* What is listed of the topology is what was selected. *)
LEMMA PerfSelected ==
    ASSUME PerfTopology(machine, spec).ok
    PROVE  TopologySensors(PerfTopology(machine, spec).sockets) = PerfSelection
<1> DEFINE found == PerfTopology(machine, spec).sockets
           Types(s) == {t \in DomainTypes :
                          ToPerfEvent[t] \in machine.events /\ (t = "Psys" => s = 0)}
           Of(s) == {RaplSensor(t, s) : t \in Types(s)}
<1>1. PerfSelection = UNION {Of(s) : s \in SocketsOf(machine, spec)}
  BY DEF PerfSelection, SocketsOf
<1>2. \A s \in found : \A t : (\E d \in s.types : d[2] = t) <=> t \in Types(s.id)
  BY TopologyTypes, SupportedDomains DEF Supported
<1>3. \A s : \A x : x \in Of(s) <=> \E t \in Types(s) : x = RaplSensor(t, s)
  OBVIOUS
<1>4. /\ \A id : id \in SocketsOf(machine, spec) <=> \E s \in found : s.id = id
  BY TopologySockets
<1> HIDE DEF found, Types, Of
<1>5. \A x : x \in PerfSelection <=>
          \E s \in found : \E t \in Types(s.id) : x = RaplSensor(t, s.id)
  <2>1. \A x : x \in PerfSelection <=> \E s \in SocketsOf(machine, spec) : x \in Of(s)
    BY <1>1
  <2> QED BY <1>3, <1>4, <2>1
<1>6. \A x : x \in TopologySensors(found) <=>
          \E s \in found : \E d \in s.types : x = RaplSensor(d[2], s.id)
  BY SensorsOfSockets
<1>7. \A x : x \in TopologySensors(found) <=> x \in PerfSelection
  <2>1. ASSUME NEW x \in TopologySensors(found) PROVE x \in PerfSelection
    <3>1. PICK s \in found : \E d \in s.types : x = RaplSensor(d[2], s.id)
      BY <1>6, <2>1
    <3>2. PICK d \in s.types : x = RaplSensor(d[2], s.id)
      BY <3>1
    <3>3. d[2] \in Types(s.id)
      BY <1>2, <3>2
    <3> QED BY <1>5, <3>2, <3>3
  <2>2. ASSUME NEW x \in PerfSelection PROVE x \in TopologySensors(found)
    <3>1. PICK s \in found : \E t \in Types(s.id) : x = RaplSensor(t, s.id)
      BY <1>5, <2>2
    <3>2. PICK t \in Types(s.id) : x = RaplSensor(t, s.id)
      BY <3>1
    <3>3. PICK d \in s.types : d[2] = t
      BY <1>2, <3>2
    <3> QED BY <1>6, <3>2, <3>3
  <2> QED BY <2>1, <2>2
<1>8. TopologySensors(found) = PerfSelection
  BY <1>7
<1> QED BY <1>8 DEF found

(* No domain of perf is open twice, or twice under one name. *)
LEMMA PerfToldOnce ==
    ASSUME IInv, source = "perf", Reported,
           NEW s1 \in opened, NEW s2 \in opened,
           NEW d1 \in s1.domains, NEW d2 \in s2.domains,
           DomainName(d1[2], s1.id) = DomainName(d2[2], s2.id)
    PROVE  s1 = s2 /\ d1 = d2
<1>1. discovered = PerfTopology(machine, spec).sockets /\ PerfTopology(machine, spec).ok
  BY DEF IInv, FoundInv, Found, Discovery, Reported
<1>2. /\ opened = OpenCounters(machine, discovered).sockets
      /\ OpenCounters(machine, discovered).ok
  BY DEF IInv, OpenedInv, Reported
<1> DEFINE Open(s) == [id |-> s.id, cpu |-> GroupCpu(machine, s),
                       domains |-> SupportedOf(machine, TypesToOpen(s.id))]
<1>3. \A o \in opened : \E s \in discovered :
          /\ o.id = s.id /\ o.domains = SupportedOf(machine, TypesToOpen(s.id))
          /\ o = Open(s)
  BY <1>2, OpenedSockets
<1>4. PICK r1 \in discovered :
          /\ s1.id = r1.id /\ s1.domains = SupportedOf(machine, TypesToOpen(r1.id))
          /\ s1 = Open(r1)
  BY <1>3
<1>5. PICK r2 \in discovered :
          /\ s2.id = r2.id /\ s2.domains = SupportedOf(machine, TypesToOpen(r2.id))
          /\ s2 = Open(r2)
  BY <1>3
<1> HIDE DEF Open
<1>6. d1[2] = d2[2] /\ (d1[2] # "Psys" => s1.id = s2.id)
  BY DEF DomainName
<1>7. d1[2] = "Psys" => s1.id = 0 /\ s2.id = 0
  <2>1. d1 \in SupportedOf(machine, TypesToOpen(r1.id))
    BY <1>4
  <2>2. d2 \in SupportedOf(machine, TypesToOpen(r2.id))
    BY <1>5
  <2>3. d1[2] = "Psys" => r1.id = 0
    BY <2>1, SupportedDomains
  <2>4. d2[2] = "Psys" => r2.id = 0
    BY <2>2, SupportedDomains
  <2> QED BY <1>4, <1>5, <1>6, <2>3, <2>4
<1>8. r1 = r2
  BY <1>1, <1>4, <1>5, <1>6, <1>7, TopologySockets
<1>9. s1 = s2
  BY <1>4, <1>5, <1>8
<1> QED BY <1>4, <1>6, <1>9, SupportedDomains

-----------------------------------------------------------------------------
(* powercap: the zones                                                     *)
-----------------------------------------------------------------------------

(* What was found are the zones with their files, of the selected sockets. *)
LEMMA PowercapFound ==
    ASSUME Found, source = "powercap"
    PROVE  /\ \A d : d \in discovered <=>
                  \E e \in Entries(machine) :
                      /\ HasFiles(machine, e) /\ d = ZoneDomain(e)
                      /\ Selected(spec, d.socket)
           /\ \A d \in discovered : d.type \in DomainTypes
<1> DEFINE zones == DiscoverZones(machine)
           kept  == {d \in zones : d.socket \in FilterSockets(spec, zones)}
<1>1. PowercapDomains(machine, spec).ok /\ discovered = PowercapDomains(machine, spec).domains
  BY DEF Found, Discovery
<1> HIDE DEF zones
<1>2. /\ ~ (~ machine.readable \/ \E d \in zones : d.type = UnknownDomain)
      /\ discovered = kept
  BY <1>1 DEF PowercapDomains, zones
<1>3. \A d : d \in zones <=>
          \E e \in Entries(machine) : HasFiles(machine, e) /\ d = ZoneDomain(e)
  BY DEF zones, DiscoverZones
<1>4. \A d : d \in kept <=> d \in zones /\ Selected(spec, d.socket)
  BY DEF FilterSockets
<1>5. ASSUME NEW d \in zones PROVE d.type \in DomainTypes
  <2>1. PICK e \in Entries(machine) : d = ZoneDomain(e)
    BY <1>3, <1>5
  <2>2. d.type = TryFromName(e.zone[2])
    BY <2>1 DEF ZoneDomain
  <2> QED BY <1>2, <1>5, <2>2, NameReads
<1> QED BY <1>2, <1>3, <1>4, <1>5

(* A zone is met, and what is met is a zone. *)
LEMMA EntriesAreZones ==
    ASSUME FoundInv, source = "powercap"
    PROVE  /\ \A e \in Entries(machine) : e.zone \in DOMAIN machine.zones
           /\ \A z \in DOMAIN machine.zones : \E e \in Entries(machine) : e.zone = z
           /\ machine.layout = "devices" =>
                 \A e, f \in Entries(machine) : e.zone = f.zone => e = f
<1> DEFINE Met(z) == [zone |-> z, at |-> IF z \in machine.nested THEN "sub" ELSE "top"]
           Top(z) == [zone |-> z, at |-> "top"]
           tops   == IF machine.layout = "class" THEN machine.nested ELSE {}
<1>1. machine.nested \subseteq DOMAIN machine.zones
  BY SensorsAssumption DEF FoundInv
<1>2. Entries(machine) = {Met(z) : z \in DOMAIN machine.zones} \cup {Top(z) : z \in tops}
  BY DEF Entries
<1>3. \A z : Met(z).zone = z /\ Top(z).zone = z
  OBVIOUS
<1>4. tops \subseteq DOMAIN machine.zones /\ (machine.layout = "devices" => tops = {})
  BY <1>1
<1> HIDE DEF Met, Top, tops
<1>5. \A e : e \in Entries(machine) <=>
          \/ \E z \in DOMAIN machine.zones : e = Met(z)
          \/ \E z \in tops : e = Top(z)
  BY <1>2
<1> QED BY <1>3, <1>4, <1>5

(* What is reported are the zones with a readable energy. *)
LEMMA PowercapSelected ==
    ASSUME IInv, source = "powercap", Reported
    PROVE  PowercapSensors = PowercapSelection
<1>1. Found /\ FoundInv /\ ReadsAll(machine, discovered)
  BY DEF IInv, FoundInv, MeasuredInv, Reported
<1>2. \A d : d \in discovered <=>
          \E e \in Entries(machine) :
              HasFiles(machine, e) /\ d = ZoneDomain(e) /\ Selected(spec, d.socket)
  BY <1>1, PowercapFound
<1>3. \A e : /\ ZoneDomain(e).type = TryFromName(e.zone[2])
             /\ ZoneDomain(e).socket = e.zone[1] /\ ZoneDomain(e).entry = e
  BY DEF ZoneDomain, SocketOf
<1>4. \A x : x \in PowercapSensors <=> \E d \in discovered : x = RaplSensor(d.type, d.socket)
  BY DEF PowercapSensors
<1>5. \A x : x \in PowercapSelection <=>
          \E z \in DOMAIN machine.zones :
              /\ Selected(spec, z[1]) /\ machine.zones[z] = "ok"
              /\ x = RaplSensor(TryFromName(z[2]), z[1])
  BY DEF PowercapSelection
<1>6. ASSUME NEW x \in PowercapSensors PROVE x \in PowercapSelection
  <2>1. PICK d \in discovered : x = RaplSensor(d.type, d.socket)
    BY <1>4, <1>6
  <2>2. PICK e \in Entries(machine) :
            HasFiles(machine, e) /\ d = ZoneDomain(e) /\ Selected(spec, d.socket)
    BY <1>2, <2>1
  <2>3. machine.zones[e.zone] = "ok"
    BY <1>1, <1>3, <2>1, <2>2 DEF ReadsAll, HasFiles
  <2>4. e.zone \in DOMAIN machine.zones
    BY <1>1, <2>2, EntriesAreZones
  <2> QED BY <1>3, <1>5, <2>1, <2>2, <2>3, <2>4
<1>7. ASSUME NEW x \in PowercapSelection PROVE x \in PowercapSensors
  <2>1. PICK z \in DOMAIN machine.zones :
            /\ Selected(spec, z[1]) /\ machine.zones[z] = "ok"
            /\ x = RaplSensor(TryFromName(z[2]), z[1])
    BY <1>5, <1>7
  <2>2. PICK e \in Entries(machine) : e.zone = z
    BY <1>1, <2>1, EntriesAreZones
  <2>3. HasFiles(machine, e)
    BY <2>1, <2>2 DEF HasFiles
  <2>4. ZoneDomain(e) \in discovered
    BY <1>2, <1>3, <2>1, <2>2, <2>3
  <2> QED BY <1>3, <1>4, <2>1, <2>2, <2>4
<1> QED BY <1>6, <1>7

(* In the default directory an index has the energy of one domain. *)
LEMMA PowercapToldOnce ==
    ASSUME IInv, source = "powercap", Reported, machine.layout = "devices",
           NEW i \in DOMAIN EnergyByIndex(discovered)
    PROVE  EnergyByIndex(discovered)[i] = 1
<1>1. Found /\ FoundInv
  BY DEF IInv, FoundInv, Reported
<1>2. PICK d \in discovered : i = <<d.type, d.socket>>
  BY DEF EnergyByIndex
<1>3. EnergyByIndex(discovered)[i] = Cardinality({c \in discovered : <<c.type, c.socket>> = i})
  BY <1>2 DEF EnergyByIndex
<1>4. ASSUME NEW c \in discovered, <<c.type, c.socket>> = i PROVE c = d
  <2>1. c.type = d.type /\ c.socket = d.socket
    BY <1>2, <1>4
  <2>2. PICK e \in Entries(machine) : c = ZoneDomain(e)
    BY <1>1, PowercapFound
  <2>3. PICK f \in Entries(machine) : d = ZoneDomain(f)
    BY <1>1, PowercapFound
  <2>4. /\ c.type = TryFromName(e.zone[2]) /\ c.socket = e.zone[1]
        /\ d.type = TryFromName(f.zone[2]) /\ d.socket = f.zone[1]
    BY <2>2, <2>3 DEF ZoneDomain, SocketOf
  <2>5. TryFromName(e.zone[2]) # UnknownDomain
    BY <1>1, <2>4, PowercapFound DEF DomainTypes, UnknownDomain
  <2>6. e.zone \in DOMAIN machine.zones /\ f.zone \in DOMAIN machine.zones
    BY <1>1, EntriesAreZones
  <2>7. e.zone = f.zone
    BY <1>1, <2>1, <2>4, <2>5, <2>6, SensorsAssumption DEF FoundInv
  <2> QED BY <1>1, <2>2, <2>3, <2>7, EntriesAreZones
<1>5. {c \in discovered : <<c.type, c.socket>> = i} = {d}
  BY <1>2, <1>4
<1> QED BY <1>3, <1>5, FS_Singleton

(***************************************************************************)
(* EnergyToldOnce: open_counters opens each domain of a socket once, and   *)
(* the platform with socket 0 only; discover_domains meets each zone once. *)
(* So no energy is in two metrics of one name, or twice in one.            *)
(***************************************************************************)
THEOREM EnergyIsToldOnce == Spec => []EnergyToldOnce
<1>1. IInv => EnergyToldOnce
  BY PerfToldOnce, PowercapToldOnce DEF EnergyToldOnce
<1> QED BY <1>1, Invariance, PTL

-----------------------------------------------------------------------------
(* GPUs: the answers of the devices                                        *)
-----------------------------------------------------------------------------

\* The word of its name that an answer is told under.
Word == [Energy |-> "energy", Power |-> "energy", Vram |-> "vram",
         Utilization |-> "utilization"]

\* The words of the metrics of a device.
WordsOf(library, d) == {m.sensor.name[2] : m \in DeviceMetrics(library, d)}

(* The devices that were found, one by one. *)
LEMMA GpuFound ==
    ASSUME Found, FoundInv, source \in Libraries
    PROVE  \A d : d \in discovered <=>
               \E i \in DOMAIN machine.answers :
                   /\ machine.identified[i] /\ Selected(spec, i)
                   /\ machine.answers[i] # {}
                   /\ d = [index |-> i, support |-> SupportOf(machine.answers[i])]
<1>1. discovered = IF source = "nvml" THEN InitDevices(machine, spec)
                                      ELSE InitProcessors(machine, spec)
  BY DEF Found, Discovery, Libraries
<1>2. \A a : SupportOf(a) # {} <=> a # {}
  BY DEF SupportOf
<1>3. \A d : d \in InitDevices(machine, spec) <=>
          \E i \in DOMAIN machine.answers :
              /\ machine.identified[i] /\ Selected(spec, i)
              /\ machine.answers[i] # {}
              /\ d = [index |-> i, support |-> SupportOf(machine.answers[i])]
  BY DEF InitDevices
<1>4. \A d : d \in InitProcessors(machine, spec) <=>
          \E i \in DOMAIN machine.answers :
              /\ machine.identified[i] /\ Selected(spec, i)
              /\ SupportOf(machine.answers[i]) # {}
              /\ d = [index |-> i, support |-> SupportOf(machine.answers[i])]
  BY DEF InitProcessors
<1> QED BY <1>1, <1>2, <1>3, <1>4

(* The names of the metrics of a device: its index and a word. *)
LEMMA DeviceNames ==
    ASSUME NEW library, NEW d
    PROVE  /\ \A m \in DeviceMetrics(library, d) : m.sensor.name[1] = d.index
           /\ \A w : w \in WordsOf(library, d) <=>
                  \/ "Vram" \in d.support /\ w = "vram"
                  \/ "Utilization" \in d.support /\ w = "utilization"
                  \/ ("Energy" \in d.support \/ "Power" \in d.support) /\ w = "energy"
<1> DEFINE Vram(b) == MetricOf(BoundSensor(d.index, "vram", b, "Byte"), 0)
           Util(b) == MetricOf(BoundSensor(d.index, "utilization", b, "Percent"), 0)
           energy  == MetricOf(EnergySensor(library, d.index), EnergyExponent(library, d))
<1>1. \A b : Vram(b).sensor.name[1] = d.index /\ Vram(b).sensor.name[2] = "vram"
  BY MetricParts DEF BoundSensor
<1>2. \A b : Util(b).sensor.name[1] = d.index /\ Util(b).sensor.name[2] = "utilization"
  BY MetricParts DEF BoundSensor
<1>3. energy.sensor.name[1] = d.index /\ energy.sensor.name[2] = "energy"
  BY MetricParts DEF EnergySensor
<1>4. \A m : m \in DeviceMetrics(library, d) <=>
          \/ "Vram" \in d.support /\ \E b \in {"min", "max"} : m = Vram(b)
          \/ "Utilization" \in d.support /\ \E b \in {"min", "max"} : m = Util(b)
          \/ ("Energy" \in d.support \/ "Power" \in d.support) /\ m = energy
  BY DeviceMetric
<1> HIDE DEF Vram, Util, energy
<1>5. \A m \in DeviceMetrics(library, d) : m.sensor.name[1] = d.index
  BY <1>1, <1>2, <1>3, <1>4
<1>6. ASSUME NEW m \in DeviceMetrics(library, d)
      PROVE  \/ "Vram" \in d.support /\ m.sensor.name[2] = "vram"
             \/ "Utilization" \in d.support /\ m.sensor.name[2] = "utilization"
             \/ /\ "Energy" \in d.support \/ "Power" \in d.support
                /\ m.sensor.name[2] = "energy"
  BY <1>1, <1>2, <1>3, <1>4
<1>7. /\ "Vram" \in d.support => Vram("min") \in DeviceMetrics(library, d)
      /\ "Utilization" \in d.support => Util("min") \in DeviceMetrics(library, d)
      /\ "Energy" \in d.support \/ "Power" \in d.support =>
            energy \in DeviceMetrics(library, d)
  BY <1>4
<1>8. \A w : w \in WordsOf(library, d) <=>
               \E m \in DeviceMetrics(library, d) : w = m.sensor.name[2]
  BY DEF WordsOf
<1> QED BY <1>1, <1>2, <1>3, <1>5, <1>6, <1>7, <1>8

(* A device is told with a word for each of its answers. *)
LEMMA AnswersTold ==
    ASSUME NEW library, NEW d, NEW a \in SUBSET Queries, d.support = SupportOf(a)
    PROVE  WordsOf(library, d) = {Word[q] : q \in a}
<1>1. /\ Word["Energy"] = "energy" /\ Word["Power"] = "energy"
      /\ Word["Vram"] = "vram" /\ Word["Utilization"] = "utilization"
  BY DEF Word
<1>2. /\ "Vram" \in d.support <=> "Vram" \in a
      /\ "Utilization" \in d.support <=> "Utilization" \in a
      /\ "Energy" \in d.support \/ "Power" \in d.support <=> "Energy" \in a \/ "Power" \in a
  BY DEF SupportOf
<1>3. \A w : (\E q \in a : w = Word[q]) <=>
          \/ "Vram" \in a /\ w = "vram"
          \/ "Utilization" \in a /\ w = "utilization"
          \/ ("Energy" \in a \/ "Power" \in a) /\ w = "energy"
  BY <1>1 DEF Queries
<1>4. \A w : w \in WordsOf(library, d) <=>
          \/ "Vram" \in d.support /\ w = "vram"
          \/ "Utilization" \in d.support /\ w = "utilization"
          \/ ("Energy" \in d.support \/ "Power" \in d.support) /\ w = "energy"
  BY DeviceNames
<1>5. \A w : w \in WordsOf(library, d) <=> w \in {Word[q] : q \in a}
  BY <1>2, <1>3, <1>4
<1> QED BY <1>5

(* The words told of a device are those of its answers, if it is selected. *)
LEMMA GpuSelected ==
    ASSUME IInv, source \in Libraries, Reported, NEW i \in DOMAIN machine.answers
    PROVE  AnswersOf(i) = IF machine.identified[i] /\ Selected(spec, i)
                          THEN {Word[q] : q \in machine.answers[i]} ELSE {}
<1>1. Found /\ FoundInv
  BY DEF IInv, FoundInv, Reported
<1>2. machine.answers[i] \in SUBSET Queries
  BY <1>1, SensorsAssumption DEF FoundInv
<1>3. \A w : w \in AnswersOf(i) <=>
          \E d \in discovered : \E m \in DeviceMetrics(source, d) :
              m.sensor.name[1] = i /\ w = m.sensor.name[2]
  BY GpuMetrics DEF AnswersOf
<1>4. \A w : w \in AnswersOf(i) <=>
          \E d \in discovered : d.index = i /\ w \in WordsOf(source, d)
  BY <1>3, DeviceNames DEF WordsOf
<1> DEFINE device == [index |-> i, support |-> SupportOf(machine.answers[i])]
<1>5. \A d : d \in discovered /\ d.index = i <=>
          /\ machine.identified[i] /\ Selected(spec, i)
          /\ machine.answers[i] # {} /\ d = device
  BY <1>1, GpuFound
<1>6. device.support = SupportOf(machine.answers[i])
  OBVIOUS
<1> HIDE DEF device
<1>7. WordsOf(source, device) = {Word[q] : q \in machine.answers[i]}
  BY <1>2, <1>6, AnswersTold
<1>8. \A w : w \in AnswersOf(i) <=>
          /\ machine.identified[i] /\ Selected(spec, i) /\ machine.answers[i] # {}
          /\ w \in {Word[q] : q \in machine.answers[i]}
  BY <1>4, <1>5, <1>7
<1>9. CASE machine.identified[i] /\ Selected(spec, i) /\ machine.answers[i] # {}
  BY <1>8, <1>9
<1>10. CASE ~ (machine.identified[i] /\ Selected(spec, i) /\ machine.answers[i] # {})
  BY <1>8, <1>10
<1> QED BY <1>9, <1>10

(***************************************************************************)
(* SelectedAreReported: nothing of what was selected is lost on the way    *)
(* from discovery over opening and reading to to_metrics, and nothing that *)
(* was not selected is found there.                                        *)
(***************************************************************************)
THEOREM SelectionIsReported == Spec => []SelectedAreReported
<1>1. IInv => SelectedAreReported
  <2> SUFFICES ASSUME IInv, Reported PROVE SelectedAreReported
    BY DEF SelectedAreReported
  <2>1. Found /\ FoundInv
    BY DEF IInv, FoundInv, Reported
  <2>2. CASE source = "perf"
    <3>1. discovered = PerfTopology(machine, spec).sockets /\ PerfTopology(machine, spec).ok
      BY <2>1, <2>2 DEF Found, Discovery
    <3>2. Sensed = PerfSelection
      BY <2>2, <3>1, PerfSensed, PerfSelected
    <3> QED BY <2>2, <3>2 DEF SelectedAreReported, Libraries
  <2>3. CASE source = "powercap"
    <3>1. Sensed = PowercapSelection
      BY <2>3, PowercapSensed, PowercapSelected
    <3> QED BY <2>3, <3>1 DEF SelectedAreReported, Libraries
  <2>4. CASE source \in Libraries
    <3>1. {m.sensor.name[1] : m \in metrics} \subseteq DOMAIN machine.answers
      <4>1. \A d \in discovered : d.index \in DOMAIN machine.answers
        BY <2>1, <2>4, GpuFound
      <4> QED BY <2>4, <4>1, GpuMetrics, DeviceNames
    <3>2. \A i \in DOMAIN machine.answers :
             AnswersOf(i) =
               IF machine.identified[i] /\ Selected(spec, i)
               THEN {[Energy |-> "energy", Power |-> "energy", Vram |-> "vram",
                      Utilization |-> "utilization"][q] : q \in machine.answers[i]}
               ELSE {}
      BY <2>4, GpuSelected DEF Word
    <3>3. source # "perf" /\ source # "powercap"
      BY <2>4 DEF Libraries
    <3> QED BY <2>4, <3>1, <3>2, <3>3 DEF SelectedAreReported
  <2> QED BY <2>1, <2>2, <2>3, <2>4 DEF FoundInv, Sources, RaplSources
<1> QED BY <1>1, Invariance, PTL

(* Type correctness of Sensors: the rest follows from IInv. *)
THEOREM TypeCorrect == Spec => []TypeOK
<1>1. IInv => TypeOK
  <2> SUFFICES ASSUME IInv PROVE TypeOK
    OBVIOUS
  <2>1. source = "powercap" => \A d \in discovered : d.type \in DomainTypes
    BY PowercapFound DEF IInv, FoundInv
  <2>2. ASSUME source \in Libraries, NEW d \in discovered
        PROVE  /\ d.support \in (SUBSET Queries) \ {{}}
               /\ ~ ({"Energy", "Power"} \subseteq d.support)
    <3>1. Found /\ FoundInv
      BY <2>2 DEF IInv, FoundInv
    <3>2. PICK i \in DOMAIN machine.answers :
              /\ machine.answers[i] # {}
              /\ d = [index |-> i, support |-> SupportOf(machine.answers[i])]
      BY <2>2, <3>1, GpuFound
    <3>3. machine.answers[i] \subseteq Queries
      BY <2>2, <3>1, SensorsAssumption DEF FoundInv
    <3> QED BY <3>2, <3>3 DEF SupportOf
  <2>3. DOMAIN listed = {"built", "opened"}
    BY DEF IInv, ListedInv
  <2> QED BY <2>1, <2>2, <2>3 DEF TypeOK, IInv, FoundInv, OpenedInv, MetricsInv
<1> QED BY <1>1, Invariance, PTL

=============================================================================
