----------------------------- MODULE Displayers -----------------------------
(***************************************************************************)
(* What is told of the results (cli/src/output).  Results are a sequence   *)
(* of phases, a phase a sequence of metrics, a metric its source and its   *)
(* name (a number: only the order of names matters); the value, the unit   *)
(* and the tokens of the phase are told with it.  A row is the phase and   *)
(* the metric that it tells.                                               *)
(***************************************************************************)
EXTENDS Naturals, SequencesExt

\* JouleProfiler::profile sorts the metrics of a phase by their names.
PhaseMetrics(metrics) == SortSeq(metrics, LAMBDA a, b : a.name < b.name)

PhaseRows(phases, i, metrics) ==
    [j \in 1 .. Len(metrics) |-> [phase |-> i, metric |-> metrics[j]]]

\* CsvOutput::write_phase for every phase; JSON writes the phases as they are.
FileRows(phases) ==
    FlattenSeq([i \in 1 .. Len(phases) |-> PhaseRows(phases, i, phases[i])])

SourcesIn(items) == {items[i].source : i \in DOMAIN items}

\* Seeded fault: a source is shown once, with its first metric.
GroupBySourceFirst(items, order) ==
    LET sources == SetToSortSeq(SourcesIn(items), LAMBDA a, b : <<a, b>> \in order)
    IN  [i \in 1 .. Len(sources) |->
            SelectSeq(items, LAMBDA x : x.source = sources[i])[1]]

\* The sources in the order of their names, each with its items in order.
GroupBySource(items, order) ==
    LET sources == SetToSortSeq(SourcesIn(items), LAMBDA a, b : <<a, b>> \in order)
    IN  FlattenSeq([i \in 1 .. Len(sources) |->
            SelectSeq(items, LAMBDA x : x.source = sources[i])])

\* TerminalOutput::display_phase for every phase
TerminalRows(phases, order) ==
    FlattenSeq([i \in 1 .. Len(phases) |->
        PhaseRows(phases, i, GroupBySource(phases[i], order))])

ResultRows(format, phases, order) ==
    IF format = "terminal" THEN TerminalRows(phases, order) ELSE FileRows(phases)

\* list_sensors of the displayers
SensorRows(format, sensors, order) ==
    IF format = "terminal" THEN GroupBySource(sensors, order) ELSE sensors

=============================================================================
