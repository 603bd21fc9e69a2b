------------------------------- MODULE Engine -------------------------------
(***************************************************************************)
(* zealot/src/engine.rs: Engine::step and Engine::cancel around the        *)
(* scheduler.  A step schedules a batch, runs the model on it, appends the *)
(* tokens, advances the prefills and finishes what stopped.  `kv' is the   *)
(* model runner's per-request state (PyModelRunner::states): how many      *)
(* prompt and output tokens were fed into it since it was last dropped.    *)
(*                                                                         *)
(* Between steps any request may arrive or be cancelled; the engine's      *)
(* thread (EngineActor.tla) does one at a time.                            *)
(***************************************************************************)
EXTENDS Scheduler

CONSTANTS CancelAllowed,   \* requests may be cancelled
          MaxFailures      \* bound: how often ModelRunner::step returns an error

ASSUME EngineAssumption == CancelAllowed \in BOOLEAN /\ MaxFailures \in Nat

VARIABLES kv,         \* tokens in the runner's state of each request
          prefilled,  \* prefill sequences of this step not yet advanced
          finished,   \* sequences of this step to finish, with the reason
          tokens,     \* StepResult.tokens: requests that got a token
          emitted,    \* history: tokens each request got in all
          outcome,    \* how each request ended and the usage reported for it
          failures    \* model errors so far

engineVars == <<kv, prefilled, finished, tokens, emitted, outcome, failures>>
vars == <<schedVars, engineVars>>

NoKv == [prompt |-> 0, output |-> 0]
Reason == {"none", "rejected", "stop", "length", "cancel"}
Unfinished == [reason |-> "none", completion |-> 0]
NoneFinished == [r \in {} |-> "none"]

Init ==
  /\ SchedInit
  /\ kv = [r \in Request |-> NoKv]
  /\ prefilled = {} /\ finished = NoneFinished /\ tokens = {}
  /\ emitted = [r \in Request |-> 0]
  /\ outcome = [r \in Request |-> Unfinished]
  /\ failures = 0

-----------------------------------------------------------------------------
(* Between steps *)

\* A request id is used once.  The backend makes one where the client gives none, and
\* otherwise takes the client's without a check: that those differ is assumed here.
IsNew(r) == r \notin Live /\ outcome[r] = Unfinished

End(r, reason, completion) ==
  outcome' = [outcome EXCEPT ![r] = [reason |-> reason, completion |-> completion]]

Submit(r, prompt, max_tokens, priority) ==
  /\ IsNew(r)
  /\ \/ Add(r, prompt, max_tokens, priority) /\ UNCHANGED outcome
     \/ /\ TooLong(prompt, max_tokens)
        /\ End(r, "rejected", 0)
        /\ UNCHANGED schedVars
  /\ UNCHANGED <<kv, prefilled, finished, tokens, emitted, failures>>

\* Engine::cancel.  A waiting request is reported with no completion tokens.
CancelSeq(r) ==
  \/ /\ CancelWaiting(r)
     /\ End(r, "cancel", 0)
     /\ UNCHANGED kv
  \/ /\ r \notin Members(waiting)
     /\ Finish(r)
     /\ End(r, "cancel", seq[r].output)
     /\ kv' = [kv EXCEPT ![r] = NoKv]

Cancel(r) ==
  /\ CancelAllowed /\ phase = "ready"
  /\ CancelSeq(r)
  /\ UNCHANGED <<phase, idx, prefill_tokens, preempted,
                 prefilled, finished, tokens, emitted, failures>>

-----------------------------------------------------------------------------
(* Engine::step after schedule() *)

\* runner.drop_state for the preempted.
\* (mutant: the state of preempted requests stays)
KvAfterDrops_Keeps == kv
KvAfterDrops == [r \in Request |-> IF r \in preempted THEN NoKv ELSE kv[r]]

\* What step_input() feeds: a prompt chunk followed by all outputs, or the
\* last output.
KvAfterFeeding(S) ==
  [r \in Request |->
     IF r \notin S THEN KvAfterDrops[r]
     ELSE IF seq[r].prefill_pending
          THEN [prompt |-> kv[r].prompt + seq[r].chunk_size,
                output |-> kv[r].output + seq[r].output]
          ELSE [kv[r] EXCEPT !.output = @ + 1]]

\* A token counts unless the step computed a prompt chunk that is not the last.
ValidOutput(r) == ~seq[r].prefill_pending \/ is_final_chunk(seq[r])

OutputAfter(r) == seq[r].output + (IF ValidOutput(r) THEN 1 ELSE 0)

\* (mutant: one token too many)
LimitReached_Late(r) == OutputAfter(r) > seq[r].max_tokens
LimitReached(r) == OutputAfter(r) >= seq[r].max_tokens

\* The model ran on the batch; eos is the set of requests that sampled EOS.
\* With an empty batch the step returns here; the phases that follow are then
\* empty too.
RunnerStep(eos) ==
  LET valid == {r \in Batch : ValidOutput(r)}
      done  == eos \cup {r \in Batch : LimitReached(r)}
  IN  /\ phase = "run"
      /\ eos \subseteq valid
      /\ kv' = KvAfterFeeding(Batch)
      /\ tokens' = valid
      /\ emitted' = [r \in Request |-> emitted[r] + (IF r \in valid THEN 1 ELSE 0)]
      /\ finished' = [r \in done |-> IF r \in eos THEN "stop" ELSE "length"]
      /\ prefilled' = {r \in Batch : seq[r].prefill_pending}
      /\ seq' = [r \in Request |->
                   IF r \in Batch
                   THEN [seq[r] EXCEPT
                           !.output = OutputAfter(r),
                           !.prefill_pending = @ /\ ~is_final_chunk(seq[r])]
                   ELSE seq[r]]
      /\ phase' = "advance"
      /\ UNCHANGED <<queueVars, blocks, free, next_arrival, idx, prefill_tokens,
                     preempted, outcome, failures>>

\* runner.step returned an error: the batch was fed up to some member, and the
\* step ends there with every chunk still assigned.
RunnerFail ==
  /\ failures < MaxFailures
  /\ phase = "run" /\ Batch # {}
  /\ LET order == SelectSeq(prefilling, LAMBDA r : r \in Batch) \o decoding
     IN  \E n \in 0 .. Len(order) - 1 : kv' = KvAfterFeeding({order[i] : i \in 1 .. n})
  /\ failures' = failures + 1
  /\ LeaveStep("ready")
  /\ UNCHANGED <<queueVars, seq, blocks, free, next_arrival,
                 prefilled, finished, tokens, emitted, outcome>>

\* advance_prefill of one sequence, in batch order; after its last chunk it
\* moves to the decoding queue.
Advanced(s) == [s EXCEPT !.prefill_pos = @ + s.chunk_size, !.chunk_size = 0]

AdvancePrefill ==
  /\ phase = "advance"
  /\ \E i \in 1 .. Len(prefilling) :
       LET r == prefilling[i]
           s == Advanced(seq[r])
       IN  /\ r \in prefilled
           /\ \A j \in 1 .. i - 1 : prefilling[j] \notin prefilled
           /\ prefilled' = prefilled \ {r}
           /\ IF s.prefill_pos >= s.prompt
              THEN /\ prefilling' = Without(prefilling, i)
                   /\ decoding' = Append(decoding, r)
                   /\ seq' = [seq EXCEPT ![r] = [s EXCEPT !.prefill_pending = FALSE]]
              ELSE /\ seq' = [seq EXCEPT ![r] = s]
                   /\ UNCHANGED <<prefilling, decoding>>
  /\ UNCHANGED <<waiting, blocks, free, next_arrival, phase, idx, prefill_tokens,
                 preempted, kv, finished, tokens, emitted, outcome, failures>>

AdvanceDone ==
  /\ phase = "advance" /\ prefilled = {}
  /\ phase' = "finish"
  /\ UNCHANGED <<queueVars, seq, blocks, free, next_arrival, idx, prefill_tokens,
                 preempted, engineVars>>

\* The sequences that stopped, one by one; their order does not matter.
FinishSeq ==
  /\ phase = "finish"
  /\ \E r \in DOMAIN finished :
       /\ Finish(r)
       /\ End(r, finished[r], seq[r].output)
       /\ kv' = [kv EXCEPT ![r] = NoKv]
       /\ finished' = [x \in DOMAIN finished \ {r} |-> finished[x]]
  /\ UNCHANGED <<phase, idx, prefill_tokens, preempted, prefilled, tokens, emitted,
                 failures>>

FinishDone ==
  /\ phase = "finish" /\ DOMAIN finished = {}
  /\ LeaveStep("result")
  /\ UNCHANGED <<queueVars, seq, blocks, free, next_arrival, engineVars>>

\* The caller consumed the StepResult.
TakeResult ==
  /\ phase = "result"
  /\ phase' = "ready" /\ tokens' = {}
  /\ UNCHANGED <<queueVars, seq, blocks, free, next_arrival, idx, prefill_tokens,
                 preempted, kv, prefilled, finished, emitted, outcome, failures>>

-----------------------------------------------------------------------------
Step ==
  \/ Schedule /\ UNCHANGED engineVars
  \/ \E eos \in SUBSET Batch : RunnerStep(eos)
  \/ AdvancePrefill \/ AdvanceDone
  \/ FinishSeq \/ FinishDone

Next ==
  \/ \E r \in Request, prompt \in PromptLen, max_tokens \in MaxTokens,
        priority \in Priority : Submit(r, prompt, max_tokens, priority)
  \/ \E r \in Request : Cancel(r)
  \/ Step
  \/ RunnerFail
  \/ TakeResult

\* run_engine calls step() whenever the scheduler is not idle and hands every
\* result on, so the steps happen; arrivals and cancels need not.
Fairness == WF_vars(Step) /\ WF_vars(TakeResult)

Spec == Init /\ [][Next]_vars
FairSpec == Spec /\ Fairness
=============================================================================
