----------------------------- MODULE MCSensors ------------------------------
(* Machines on which the sources look for their sensors.                   *)
EXTENDS Sensors

(***************************************************************************)
(* Two sockets with up to two CPUs each; on the last machine socket 0 is   *)
(* offline.  Group events open, and counters count, on some CPUs, and at   *)
(* most one of the other things goes wrong.                                *)
(***************************************************************************)
PerfMachines ==
    {m \in [cpu : {(0 :> 0) @@ (1 :> 0) @@ (2 :> 1),
                   (0 :> 0) @@ (1 :> 1) @@ (2 :> 0) @@ (3 :> 1),
                   (1 :> 1) @@ (3 :> 1)},
            events : SUBSET {"energy-pkg", "energy-ram", "energy-psys"},
            openable : {0 .. 3, {1, 3}, {0}, {1, 2, 3}},
            counting : {0 .. 3, {0, 2}, {1, 3}},
            denied : BOOLEAN, pmu : BOOLEAN, paranoid_known : BOOLEAN] :
        Cardinality({f \in 1 .. 3 :
            <<m.denied, ~ m.pmu, ~ m.paranoid_known>>[f]}) <= 1}

\* The index of the top directory and the name of the zone.
Zones == {<<0, "package-0">>, <<0, "core">>, <<0, "dram">>,
          <<1, "package-1">>, <<1, "dram">>, <<2, "psys">>}

MCPackageNames == {"package-0", "package-1", "package-2"}

MayNest == {<<0, "core">>, <<0, "dram">>, <<1, "dram">>}

\* One zone, one socket, everything, three sockets, and a name nobody knows.
Present == {{<<0, "package-0">>}, {z \in Zones : z[1] = 0}, Zones,
            {<<0, "package-0">>, <<1, "package-1">>, <<2, "package-2">>},
            {<<0, "package-0">>, <<1, "other">>, <<2, "psys">>}}

\* At most two zones are not as they should be.
Flaws == {"denied", "no_energy", "no_name"}

ZoneStates(zs) ==
    {[z \in zs |-> IF z = a THEN x ELSE IF z = b THEN y ELSE "ok"] :
        a \in zs, b \in zs, x \in Flaws \cup {"ok"}, y \in Flaws}
    \cup {[z \in zs |-> "ok"]}

PowercapMachines ==
    UNION {[zones : ZoneStates(zs), nested : {zs \cap MayNest},
            layout : {"devices", "class"}, readable : BOOLEAN] : zs \in Present}

GpuMachines ==
    [answers : [{0, 1} -> SUBSET Queries], identified : [{0, 1} -> BOOLEAN],
     driver : BOOLEAN]

MCMachines == [perf |-> PerfMachines, powercap |-> PowercapMachines,
               nvml |-> GpuMachines, amdsmi |-> GpuMachines]

RaplSpecs == {NoSpec, <<{0}>>, <<{1, 2}>>, <<{7}>>}
GpuSpecs  == {NoSpec, <<{1}>>, <<{2}>>}

MCSpecs == [perf |-> RaplSpecs, powercap |-> RaplSpecs,
            nvml |-> GpuSpecs, amdsmi |-> GpuSpecs]

=============================================================================
