--------------------------- MODULE MCRaplPowercap ---------------------------
(* Instances of RaplPowercap for TLC, and what its documentation says.     *)
EXTENDS RaplPowercap

(***************************************************************************)
(* sources/rapl/src/powercap/mod.rs:14: "Compute energy usage between      *)
(* consecutive snapshots."  What was returned and what is held add up to   *)
(* the energy between the first and the last snapshot.                     *)
(***************************************************************************)
EnergyBetweenSnapshots ==
    last_snapshot # None =>
        collected + current_counters = last_snapshot.at - origin

=============================================================================
