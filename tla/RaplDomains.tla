----------------------------- MODULE RaplDomains ----------------------------
(***************************************************************************)
(* Which RAPL domains the two backends find on a machine, and which they   *)
(* open (sources/rapl/src/powercap/domain.rs, socket.rs and perf/).        *)
(*                                                                         *)
(* The powercap backend walks a directory of zones.  A zone is the index   *)
(* of its top directory with the content of the file "name"; zones[z] says *)
(* which of its files are missing.  The perf backend looks at the CPUs     *)
(* (cpu[c] is the socket of an online CPU) and asks the kernel which       *)
(* events the "power" PMU has.                                             *)
(***************************************************************************)
EXTENDS MetricUnit, FiniteSets, SequencesExt

CONSTANT
    PackageNames \* the names that begin with "package"

DomainTypes == {"Package", "Core", "Uncore", "Dram", "Psys"}

\* What names a domain, compared without regard to case.
NamesOf == [Package |-> PackageNames \cup {"energy-pkg"},
            Core    |-> {"core", "pp0", "energy-cores"},
            Uncore  |-> {"uncore", "pp1", "energy-uncore", "energy-gpu"},
            Dram    |-> {"dram", "ram", "energy-ram"},
            Psys    |-> {"psys", "platform", "energy-psys"}]

ASSUME PackageNamesAssumption ==
    \A t \in DomainTypes \ {"Package"} : PackageNames \cap NamesOf[t] = {}

UnknownDomain == "UnknownDomain"

TryFromName(name) ==
    IF \E t \in DomainTypes : name \in NamesOf[t]
    THEN CHOOSE t \in DomainTypes : name \in NamesOf[t]
    ELSE UnknownDomain

ToPerfEvent == [Package |-> "energy-pkg", Core |-> "energy-cores",
                Uncore |-> "energy-gpu", Dram |-> "energy-ram",
                Psys |-> "energy-psys"]

\* to_string_socket: the platform has no socket.
DomainName(type, socket) ==
    IF type = "Psys" THEN <<type>> ELSE <<type, socket>>

RaplSensor(type, socket) == NewSensor(DomainName(type, socket), "Micro", "Joule")

-----------------------------------------------------------------------------
(* powercap                                                                *)
-----------------------------------------------------------------------------

(***************************************************************************)
(* discover_domains looks at each top directory and at those in it.  Below *)
(* /sys/devices/virtual/powercap/intel-rapl a nested zone is met once;     *)
(* /sys/class/powercap links to every zone, so that it is met twice.  "at" *)
(* tells where the zone was met.  Left out: there, the "device" link of a  *)
(* nested zone makes the zone that it is in be met once more.              *)
(***************************************************************************)
Entries(m) ==
    {[zone |-> z, at |-> IF z \in m.nested THEN "sub" ELSE "top"]
        : z \in DOMAIN m.zones}
    \cup
    {[zone |-> z, at |-> "top"]
        : z \in IF m.layout = "class" THEN m.nested ELSE {}}

\* add_domain_if_energy: the files that are missing make it pass a zone by.
HasFiles(m, e) == m.zones[e.zone] \in {"ok", "denied"}

\* extract_socket_number: the index of the top directory.
SocketOf(e) == e.zone[1]

ZoneDomain(e) ==
    [type |-> TryFromName(e.zone[2]), socket |-> SocketOf(e), entry |-> e]

\* Seeded fault: the directories within a zone are looked at twice.
DiscoverZonesTwice(m) ==
    LET Twice == Entries(m) \cup {[zone |-> z, at |-> "again"] : z \in m.nested}
    IN  {ZoneDomain(e) : e \in {e \in Twice : HasFiles(m, e)}}

DiscoverZones(m) ==
    {ZoneDomain(e) : e \in {e \in Entries(m) : HasFiles(m, e)}}

\* discover_sockets and filter_sockets
FilterSockets(spec, domains) ==
    {s \in {d.socket : d \in domains} : Selected(spec, s)}

\* get_domains and Rapl::new
PowercapDomains(m, spec) ==
    LET found == DiscoverZones(m)
        kept  == {d \in found : d.socket \in FilterSockets(spec, found)}
    IN  IF ~ m.readable \/ \E d \in found : d.type = UnknownDomain
        THEN [ok |-> FALSE, domains |-> {}]
        ELSE [ok |-> kept # {}, domains |-> kept]

(***************************************************************************)
(* check_rapl_access, in init(): the first file with energy of a top       *)
(* directory must be readable, whichever comes first.                      *)
(***************************************************************************)
AccessResults(m) ==
    LET first == {z \in DOMAIN m.zones \ (IF m.layout = "class" THEN {} ELSE m.nested) :
                     m.zones[z] # "no_energy"}
    IN  IF first = {} THEN {FALSE} ELSE {m.zones[z] # "denied" : z \in first}

\* read_energy of every domain of the source.
ReadsAll(m, domains) ==
    \A d \in domains : m.zones[d.entry.zone] # "denied"

(***************************************************************************)
(* compute_measurement_from_snapshots: one unit of energy was consumed in  *)
(* each zone.  The energies of domains with the same index are added up.   *)
(***************************************************************************)
EnergyByIndex(domains) ==
    [i \in {<<d.type, d.socket>> : d \in domains} |->
        Cardinality({d \in domains : <<d.type, d.socket>> = i})]

-----------------------------------------------------------------------------
(* perf                                                                    *)
-----------------------------------------------------------------------------

PerSocketDomainTypes == <<"Package", "Core", "Uncore", "Dram">>

(***************************************************************************)
(* discover_socket_topology: the online CPUs by socket, if it is selected. *)
(* CPUs are tried from the least to the greatest.                          *)
(***************************************************************************)
SocketTopology(m, spec) ==
    LET sockets == {s \in {m.cpu[c] : c \in DOMAIN m.cpu} : Selected(spec, s)}
    IN  {[id |-> s,
          cpus |-> SetToSortSeq({c \in DOMAIN m.cpu : m.cpu[c] = s}, <)] : s \in sockets}

\* is_domain_supported: the PMU has the event, or it says NotFound.
Supported(m, type) == ToPerfEvent[type] \in m.events

TypesToOpen(id) ==
    IF id = 0 THEN Append(PerSocketDomainTypes, "Psys") ELSE PerSocketDomainTypes

\* Those of a list that are supported, each with its place in the list.
SupportedOf(m, types) ==
    {<<i, types[i]>> : i \in {i \in DOMAIN types : Supported(m, types[i])}}

\* Seeded fault: the platform is asked of every socket.
SupportedTypesPsysEverywhere(m, id) ==
    SupportedOf(m, PerSocketDomainTypes \o <<"Psys">>)

\* discover_supported_domain_types
SupportedTypes(m, id) == SupportedOf(m, TypesToOpen(id))

\* Rapl::new; what the PMU tells of an event other than NotFound is an error.
PerfTopology(m, spec) ==
    IF ~ m.pmu /\ SocketTopology(m, spec) # {} THEN [ok |-> FALSE, sockets |-> {}]
    ELSE [ok |-> TRUE,
          sockets |-> {[id |-> s.id, cpus |-> s.cpus,
                        types |-> SupportedTypes(m, s.id)]
                          : s \in SocketTopology(m, spec)}]

NoCpu == -1

(***************************************************************************)
(* build_group_for_socket: the first CPU where a group opens; a permission *)
(* that is denied ends the search.                                         *)
(***************************************************************************)
GroupCpu(m, socket) ==
    LET open == SelectSeq(socket.cpus, LAMBDA c : c \in m.openable)
    IN  IF m.denied \/ open = <<>> THEN NoCpu ELSE Head(open)

(***************************************************************************)
(* RaplEvent::new tries each CPU of the socket.  The kernel lets a counter *)
(* into a group only on the CPU of the group, if the PMU takes that CPU.   *)
(***************************************************************************)
EventCpu(m, socket, group_cpu) ==
    LET open == SelectSeq(socket.cpus, LAMBDA c : c = group_cpu /\ c \in m.counting)
    IN  IF open = <<>> THEN NoCpu ELSE Head(open)

\* open_counters_for_socket: events that are not supported are passed by.
OpenedTypes(m, socket) == SupportedOf(m, TypesToOpen(socket.id))

(***************************************************************************)
(* open_counters: a domain that is supported and does not open is an error *)
(* of the source.                                                          *)
(***************************************************************************)
SocketOpens(m, socket) ==
    LET group_cpu == GroupCpu(m, socket)
    IN  /\ group_cpu # NoCpu
        /\ OpenedTypes(m, socket) # {} => EventCpu(m, socket, group_cpu) # NoCpu

OpenCounters(m, topology) ==
    IF \A s \in topology : SocketOpens(m, s)
    THEN [ok |-> TRUE,
          sockets |-> {[id |-> s.id, cpu |-> GroupCpu(m, s),
                        domains |-> OpenedTypes(m, s)] : s \in topology}]
    ELSE [ok |-> FALSE, sockets |-> {}]

=============================================================================
