----------------------------- MODULE GpuDevices -----------------------------
(***************************************************************************)
(* The devices of the two GPU sources (hardware.rs and lib.rs of           *)
(* sources/nvml/src and sources/amdsmi/src): which queries a device        *)
(* supports, the sensors that are listed for it, and the metrics it gives  *)
(* for a phase.  The two libraries differ in the identity of a device,     *)
(* which makes no difference here, in what they list, and in their units.  *)
(***************************************************************************)
EXTENDS MetricUnit, FiniteSets

Libraries == {"nvml", "amdsmi"}

Queries == {"Energy", "Power", "Vram", "Utilization"}

\* A power is asked for where there is no register of energy.
SupportOf(answers) ==
    IF "Energy" \in answers THEN answers \ {"Power"} ELSE answers

(***************************************************************************)
(* init_devices of NVML.  A device that cannot be identified is dropped    *)
(* without an error, and so is one that is not selected or supports        *)
(* nothing.                                                                *)
(***************************************************************************)
InitDevices(m, spec) ==
    {[index |-> d, support |-> SupportOf(m.answers[d])]
        : d \in {d \in DOMAIN m.answers :
                    /\ m.identified[d]
                    /\ Selected(spec, d)
                    /\ m.answers[d] # {}}}

\* init_processors of AMD SMI: the processors of all sockets, by UUID.
InitProcessors(m, spec) ==
    {[index |-> p, support |-> SupportOf(m.answers[p])]
        : p \in {p \in DOMAIN m.answers :
                    /\ m.identified[p] /\ Selected(spec, p)
                    /\ SupportOf(m.answers[p]) # {}}}

MinMax(index, name, unit) ==
    {NewSensor(<<index, name, bound>>, "None", unit) : bound \in {"min", "max"}}

EnergySensor(library, index) ==
    NewSensor(<<index, "energy">>,
              IF library = "nvml" THEN "Milli" ELSE "Micro", "Joule")

\* get_sensors of NVML lists everything, whatever the device supports.
NvmlSensors(devices) ==
    UNION {{EnergySensor("nvml", d.index)}
               \cup MinMax(d.index, "vram", "Byte")
               \cup MinMax(d.index, "utilization", "Percent") : d \in devices}

\* get_sensors of AMD SMI
AmdSmiSensors(devices) ==
    UNION {(IF d.support \cap {"Energy", "Power"} # {}
            THEN {EnergySensor("amdsmi", d.index)} ELSE {})
             \cup (IF "Vram" \in d.support THEN MinMax(d.index, "vram", "Byte") ELSE {})
             \cup (IF "Utilization" \in d.support
                   THEN MinMax(d.index, "utilization", "Percent") ELSE {})
               : d \in devices}

(***************************************************************************)
(* The powers of ten of what the libraries and the source compute with:    *)
(* NVML tells milliwatts, and millijoules of its register; AMD SMI watts,  *)
(* and its register times its resolution is in microjoules.  Timestamps    *)
(* are in microseconds.                                                    *)
(***************************************************************************)
PowerExponent    == [nvml |-> -3, amdsmi |-> 0]
RegisterExponent == [nvml |-> -3, amdsmi |-> -6]
TimeExponent     == -6

\* Seeded fault: the nanojoules are not divided.
NvmlEnergyExponentUndivided == PowerExponent["nvml"] + TimeExponent

\* compute_energy of NVML divides by 1_000_000, whatever its comment says.
NvmlEnergyExponent == PowerExponent["nvml"] + TimeExponent + 6

\* compute_energy of AMD SMI
AmdSmiEnergyExponent == PowerExponent["amdsmi"] + TimeExponent

EnergyExponent(library, d) ==
    IF "Energy" \in d.support THEN RegisterExponent[library]
    ELSE IF library = "nvml" THEN NvmlEnergyExponent ELSE AmdSmiEnergyExponent

(***************************************************************************)
(* What a phase of a device leads to in to_metrics: the difference of the  *)
(* register if it was read at both ends, the estimate otherwise, and the   *)
(* bounds of what was read.  "exponent" is the scale of the value.         *)
(***************************************************************************)
MetricOf(sensor, exponent) == [sensor |-> sensor, exponent |-> exponent]

\* Seeded fault: the bounds are told even if nothing was read.
BoundsMetricsAlways(d) ==
    {MetricOf(s, 0) : s \in MinMax(d.index, "vram", "Byte")
                              \cup MinMax(d.index, "utilization", "Percent")}

BoundsMetrics(d) ==
    {MetricOf(s, 0) : s \in
        (IF "Vram" \in d.support THEN MinMax(d.index, "vram", "Byte") ELSE {})
          \cup (IF "Utilization" \in d.support
                THEN MinMax(d.index, "utilization", "Percent") ELSE {})}

\* to_metrics of NVML
NvmlMetrics(devices) ==
    UNION {BoundsMetrics(d) \cup
             (IF d.support \cap {"Energy", "Power"} # {}
              THEN {MetricOf(EnergySensor("nvml", d.index), EnergyExponent("nvml", d))}
              ELSE {}) : d \in devices}

\* to_metrics of AMD SMI
AmdSmiMetrics(devices) ==
    UNION {BoundsMetrics(d) \cup
             (IF d.support \cap {"Energy", "Power"} # {}
              THEN {MetricOf(EnergySensor("amdsmi", d.index), EnergyExponent("amdsmi", d))}
              ELSE {}) : d \in devices}

=============================================================================
