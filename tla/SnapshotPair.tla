---------------------------- MODULE SnapshotPair ----------------------------
(***************************************************************************)
(* The pair of snapshots with which the two perf_event sources delimit a   *)
(* phase (sources/rapl/src/perf/mod.rs, sources/perf_event/src/lib.rs):    *)
(* the first measurement of all is the begin of the first phase, any other *)
(* the end of the running one; retrieve() turns the end of a phase into    *)
(* the begin of the next.                                                  *)
(***************************************************************************)
EXTENDS MetricReader, Sequences

VARIABLES
    begin_snapshot,   \* <<>>, or <<the begin of the running phase>>
    end_snapshot,     \* <<>>, or <<its end>>
    snapshots         \* the phases retrieved in this run, as [begin, end]

pairVars == <<begin_snapshot, end_snapshot, snapshots>>

PairInit == begin_snapshot = <<>> /\ end_snapshot = <<>> /\ snapshots = <<>>

TakeSnapshot(new) ==
    /\ MeasureCall
    /\ IF begin_snapshot = <<>>
       THEN begin_snapshot' = <<new>> /\ UNCHANGED end_snapshot
       ELSE end_snapshot' = <<new>> /\ UNCHANGED begin_snapshot
    /\ UNCHANGED snapshots

\* Seeded fault: the next phase begins with the measurement that follows.
ClosePhaseForgetsEnd ==
    /\ stage = "closing"
    /\ begin_snapshot' = <<>>
    /\ IF begin_snapshot # <<>> /\ end_snapshot # <<>>
       THEN /\ RetrieveCall
            /\ end_snapshot' = <<>>
            /\ snapshots' = Append(snapshots, [begin |-> begin_snapshot[1],
                                               end   |-> end_snapshot[1]])
       ELSE /\ Abandon
            /\ UNCHANGED <<end_snapshot, snapshots>>

\* retrieve(): without two snapshots it is an error, NotEnoughSamples.
ClosePhase ==
    /\ stage = "closing"
    /\ IF begin_snapshot # <<>> /\ end_snapshot # <<>>
       THEN /\ RetrieveCall
            /\ begin_snapshot' = end_snapshot /\ end_snapshot' = <<>>
            /\ snapshots' = Append(snapshots, [begin |-> begin_snapshot[1],
                                               end   |-> end_snapshot[1]])
       ELSE /\ Abandon
            /\ begin_snapshot' = <<>>
            /\ UNCHANGED <<end_snapshot, snapshots>>

(***************************************************************************)
(* retrieve() always finds the two snapshots it needs, in the first run    *)
(* and in later ones: the errors NotEnoughSamples of the two sources are   *)
(* never returned.                                                         *)
(***************************************************************************)
EnoughSamples ==
    stage = "closing" => begin_snapshot # <<>> /\ end_snapshot # <<>>

=============================================================================
