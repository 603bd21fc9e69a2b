------------------------------ MODULE MCEngine ------------------------------
(* Engine.tla for TLC, with numbers for request ids.  Requests are           *)
(* interchangeable: no definition chooses among them by name, so they may as *)
(* well be submitted in the order of their numbers.  A symmetry set would do *)
(* the same for the invariants, but not for liveness.                        *)
EXTENDS EngineProps, TLC

InOrder == \A r, q \in Request : IsNew(r) /\ ~IsNew(r)' /\ q < r => ~IsNew(q)

MCNext == Next /\ InOrder
MCFairSpec == Init /\ [][MCNext]_vars /\ Fairness
=============================================================================
