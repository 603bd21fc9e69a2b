---------------------------- MODULE MCEngineActor ----------------------------
(* EngineActor.tla for TLC: requests are interchangeable. *)
EXTENDS EngineActor, TLC

Symmetry == Permutations(Request)
=============================================================================
