----------------------------- MODULE MetricUnit -----------------------------
(***************************************************************************)
(* Units of metrics (core/src/unit.rs), and the sensors that carry them    *)
(* (core/src/sensor.rs).  A displayed unit is the sequence of its symbols. *)
(***************************************************************************)
EXTENDS Integers, Sequences

UnitPrefix == {"Nano", "Micro", "Milli", "None", "Kilo", "Mega", "Giga"}

Unit == {"Joule", "Watt", "Second", "Count", "Byte", "Percent"}

MetricUnits == [prefix : UnitPrefix, unit : Unit]

InvalidUnit == "InvalidUnit"

\* The power of ten that a prefix stands for.
Exponent == [Nano |-> -9, Micro |-> -6, Milli |-> -3, None |-> 0,
             Kilo |-> 3, Mega |-> 6, Giga |-> 9]

PrefixSymbol == [Nano |-> "n", Micro |-> "micro", Milli |-> "m", None |-> "",
                 Kilo |-> "k", Mega |-> "M", Giga |-> "G"]

UnitSymbol == [Joule |-> "J", Watt |-> "W", Second |-> "s",
               Count |-> "count", Byte |-> "B", Percent |-> "%"]

\* "u" is another way to write the micro sign.
PrefixTable == {<<PrefixSymbol[p], p>> : p \in UnitPrefix \ {"None"}}
                \cup {<<"u", "Micro">>}

Display(u) ==
    IF u.prefix = "None" THEN <<UnitSymbol[u.unit]>>
    ELSE <<PrefixSymbol[u.prefix], UnitSymbol[u.unit]>>

(***************************************************************************)
(* MetricUnit::try_from: at most one prefix is taken off, what is left is  *)
(* the symbol of a unit, and nobody counts in kilo.                        *)
(***************************************************************************)
ParseAs(text, u) ==
    /\ text # <<>>
    /\ \/ /\ <<Head(text), u.prefix>> \in PrefixTable
          /\ Tail(text) = <<UnitSymbol[u.unit]>>
       \/ /\ \A p \in UnitPrefix : <<Head(text), p>> \notin PrefixTable
          /\ u.prefix = "None" /\ text = <<UnitSymbol[u.unit]>>
    /\ u.unit = "Count" => u.prefix = "None"

TryFromText(text) ==
    IF \E u \in MetricUnits : ParseAs(text, u)
    THEN CHOOSE u \in MetricUnits : ParseAs(text, u)
    ELSE InvalidUnit

\* A list of sockets or devices to select, or none of them (everything).
NoSpec == <<>>

Selected(spec, id) == spec = NoSpec \/ id \in spec[1]

\* Sensor::new and Metric::new
NewSensor(name, prefix, unit) ==
    [name |-> name, unit |-> [prefix |-> prefix, unit |-> unit]]

=============================================================================
