----------------------------- MODULE MCAuthCache -----------------------------
(* AuthCache.tla for TLC: requests, and instances, are interchangeable. *)
EXTENDS AuthCache, TLC

Symmetry == Permutations(Request) \cup Permutations(Gateway)
=============================================================================
