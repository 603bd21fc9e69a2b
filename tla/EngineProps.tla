----------------------------- MODULE EngineProps -----------------------------
(***************************************************************************)
(* What the scheduler and the engine step must guarantee (Engine.tla).     *)
(***************************************************************************)
EXTENDS Engine

Running == Members(prefilling) \cup Members(decoding)

\* Type invariant.
TypeOK ==
  /\ waiting \in Seq(Request) /\ prefilling \in Seq(Request) /\ decoding \in Seq(Request)
  /\ seq \in [Request -> Sequence]
  /\ blocks \in [Request -> SUBSET Block] /\ free \in SUBSET Block
  /\ next_arrival \in Nat /\ phase \in Phase /\ idx \in Nat \ {0}
  /\ prefill_tokens \in Nat /\ preempted \in SUBSET Request
  /\ kv \in [Request -> [prompt : Nat, output : Nat]]
  /\ prefilled \in SUBSET Request /\ tokens \in SUBSET Request
  /\ DOMAIN finished \subseteq Request
  /\ \A r \in DOMAIN finished : finished[r] \in {"stop", "length"}
  /\ emitted \in [Request -> Nat]
  /\ failures \in Nat
  /\ outcome \in [Request -> [reason : Reason, completion : Nat]]

-----------------------------------------------------------------------------
(* Blocks *)

\* No KV block is shared by two requests, lost, or both held and free, in
\* whatever order requests are promoted, preempted, finished and cancelled.
BlocksPartitioned ==
  /\ \A r, s \in Request : r # s => blocks[r] \cap blocks[s] = {}
  /\ \A r \in Request : blocks[r] \cap free = {}
  /\ free \cup UNION {blocks[r] : r \in Request} = Block

\* The state keeps its types and its blocks their one owner.
BlocksSafe == TypeOK /\ BlocksPartitioned

\* The engine uses blocks the way the pool promises them to it.
Pool == INSTANCE BlockPool WITH Owner <- Request, owned <- blocks
ImplementsPool == Pool!PoolSpec

-----------------------------------------------------------------------------
(* Queues *)

\* A live request is in exactly one queue, once, and what a request has agrees
\* with its queue: only running ones, at most max_num_seqs, hold blocks; what
\* waits, for the first time or after a preemption, starts its prompt over; what
\* decodes has a last token to feed (insert_waiting, ensure_blocks, finish).
QueueDiscipline ==
  /\ Len(waiting) + Len(prefilling) + Len(decoding) = Cardinality(Live)
  /\ Len(prefilling) + Len(decoding) <= max_num_seqs
  /\ \A r \in Request : blocks[r] # {} => r \in Running
  /\ \A r \in Members(waiting) :
       seq[r].prefill_pending /\ seq[r].prefill_pos = 0 /\ seq[r].chunk_size = 0
  /\ \A r \in Members(prefilling) :
       phase \notin {"advance", "finish"} =>
         seq[r].prefill_pending /\ seq[r].prefill_pos < seq[r].prompt
  /\ \A r \in Members(decoding) : ~seq[r].prefill_pending /\ seq[r].output > 0

\* Requests start in (priority, arrival) order: nobody is promoted past a
\* waiting request that sorts before it, also when preempted requests return to
\* the queue in between (insert_waiting, ensure_blocks, loop 2 of schedule).
PromotionInOrder ==
  [][\A r \in Members(waiting) :
       r \in Members(prefilling') =>
         \A w \in Members(waiting') : NotAfter(seq[r], seq[w])]_vars

-----------------------------------------------------------------------------
(* The step's batch *)

\* The prompt tokens a step computes for the requests of S, one by one.
Chunks(S) == UNION {{r} \X (1 .. seq[r].chunk_size) : r \in S}

\* Prompt tokens the model computes in one step.
BatchPrefill == Cardinality(Chunks(Batch \cap Members(prefilling)))

\* What schedule() hands to the model.  It is never empty while anybody waits, so
\* the engine loop never spins: the head of the queue fits the pool (admission
\* control), and a preemption never empties the queue it happens in.  The only
\* sequence short of blocks is one that was alone in its queue: everybody it
\* could have preempted is gone (ensure_blocks' `None => break').  And
\* max_prefill_tokens bounds its prompt tokens: a model error leaves its batch's
\* chunks assigned, and they run again beside a full budget of new ones, so each
\* error so far may add one budget, and nothing else does.  (For chunks no larger
\* than the budget, as in SchedulerConfig's defaults, which the backend runs.)
BatchRunnable ==
  phase = "run" =>
    /\ Batch # {}
    /\ \A r \in Batch :
         Covered(r) \/ Members(prefilling) = {r} \/ Members(decoding) = {r}
    /\ BatchPrefill <= (failures + 1) * max_prefill_tokens

-----------------------------------------------------------------------------
(* Tokens *)

\* What a sequence keeps across preemptions is what its client was sent, and
\* the usage reported when it finishes is what its client was sent.
UsageMatchesStream ==
  \A r \in Request :
    /\ r \in Live => seq[r].output = emitted[r]
    /\ outcome[r].reason \in {"stop", "length"} => outcome[r].completion = emitted[r]

\* Between steps the runner's state of a request is exactly the prompt prefix
\* the scheduler believes computed: nothing for requests that wait or are gone,
\* the whole prompt once it decodes.  Every drop_state is there, and none is
\* missing or too many.  (A model error stops a step between feeding a chunk and
\* advancing past it: what it fed is fed again, to streams already told of the
\* error.)
PromptFedOnce ==
  phase = "ready" /\ failures = 0 =>
    \A r \in Request :
      /\ r \notin Running => kv[r] = NoKv
      /\ r \in Members(prefilling) => kv[r].prompt = seq[r].prefill_pos
      /\ r \in Members(decoding) => kv[r].prompt = seq[r].prompt

-----------------------------------------------------------------------------
(* Requests *)

\* Each request lives the life Generation.tla promises.
Stage == [r \in Request |->
            IF outcome[r].reason # "none" THEN outcome[r].reason
            ELSE IF r \in Live THEN "live" ELSE "new"]

Lifecycle == INSTANCE Generation
               WITH stage <- Stage, produced <- emitted,
                    limit <- [r \in Request |-> seq[r].max_tokens]
ImplementsGeneration == Lifecycle!GenSpec

\* Admission control refuses a sequence larger than the pool, "so that nothing is
\* let in that could never be scheduled under load" (scheduler.rs:207-208): an
\* accepted request ends, whatever it competes with.  The code does not keep
\* this: two long prompts can evict each other for ever.
EveryRequestEnds ==
  \A r \in Request : r \in Live ~> outcome[r].reason # "none"

\* What the code does keep: a request can be starved by preemption only.  If
\* schedule() stops evicting some day, every accepted request ends (with chunks no
\* larger than a step's budget, as in the defaults): its prompt gets its chunks,
\* its turn in the queues comes, and model errors, which leave a step half done,
\* and admission leave nothing behind that could block it.
EndsUnlessPreempted == []<>(preempted # {}) \/ EveryRequestEnds
=============================================================================
