----------------------------- MODULE MCIncidents -----------------------------
(* Incidents for TLC: runs are interchangeable. *)
EXTENDS Incidents, TLC

Symmetry == Permutations(Delivery) \cup Permutations(Tick)
=============================================================================
