----------------------------- MODULE Generation -----------------------------
(***************************************************************************)
(* What the engine promises each request, with no queue, chunk, block or   *)
(* preemption: it is turned away or accepted, then produces tokens one at  *)
(* a time, and ends once: stopped after a token, at its length limit with  *)
(* exactly that many tokens, or cancelled.  Nothing produced is taken back *)
(* and nothing follows the end.                                            *)
(***************************************************************************)
EXTENDS Naturals

CONSTANTS Request,
          MaxTokens   \* the limits requests come with

VARIABLES stage,      \* what became of each request
          produced,   \* tokens it got so far
          limit       \* its max_tokens

genVars == <<stage, produced, limit>>

GenInit ==
  /\ stage = [r \in Request |-> "new"]
  /\ produced = [r \in Request |-> 0]
  /\ limit = [r \in Request |-> 0]

Accept(r, n) ==
  /\ stage[r] = "new"
  /\ stage' = [stage EXCEPT ![r] = "live"]
  /\ limit' = [limit EXCEPT ![r] = n]
  /\ UNCHANGED produced

Reject(r) ==
  /\ stage[r] = "new"
  /\ stage' = [stage EXCEPT ![r] = "rejected"]
  /\ UNCHANGED <<produced, limit>>

\* One step of the engine: some live requests get one more token each.
Produce(S) ==
  /\ \A r \in S : stage[r] = "live" /\ produced[r] < limit[r]
  /\ produced' = [r \in Request |-> IF r \in S THEN produced[r] + 1 ELSE produced[r]]
  /\ UNCHANGED <<stage, limit>>

End(r, reason) ==
  /\ stage[r] = "live"
  /\ reason = "stop" => produced[r] > 0
  /\ reason = "length" => produced[r] = limit[r]
  /\ stage' = [stage EXCEPT ![r] = reason]
  /\ limit' = [limit EXCEPT ![r] = 0]
  /\ UNCHANGED produced

GenNext ==
  \/ \E r \in Request : \E n \in MaxTokens : Accept(r, n)
  \/ \E r \in Request : Reject(r)
  \/ \E S \in SUBSET Request : Produce(S)
  \/ \E r \in Request : \E reason \in {"stop", "length", "cancel"} : End(r, reason)

GenSpec == GenInit /\ [][GenNext]_genVars
=============================================================================
