----------------------------- MODULE Scheduler -----------------------------
(***************************************************************************)
(* zealot/src/scheduler.rs: the continuous-batching scheduler.  Requests   *)
(* wait in priority order, are promoted to `prefilling' when a slot, the   *)
(* token budget and the block pool allow, and move to `decoding' after     *)
(* their last prompt chunk.  A running request that cannot get a block     *)
(* preempts another one of its own queue, which loses its blocks, keeps    *)
(* its output and waits again (recompute).                                 *)
(*                                                                         *)
(* schedule() is a chain of loops.  Each loop iteration is one action and  *)
(* `phase' says which loop the single engine thread is in; nothing else    *)
(* can run until it is back at "ready".  The loops' index and token count  *)
(* are `idx' and `prefill_tokens'.                                         *)
(***************************************************************************)
EXTENDS Naturals, Sequences, FiniteSets

CONSTANTS Request,             \* request ids, each submitted at most once
          Block,               \* the pool's blocks
          block_size,          \* tokens per block
          max_num_seqs,        \* running sequences
          max_prefill_tokens,  \* prompt tokens per step
          prefill_chunk_size,  \* prompt tokens per step of one sequence
          PromptLen,           \* prompt lengths that occur
          MaxTokens,           \* max_tokens values that occur
          Priority             \* 0 = Lowest .. 3 = Highest

ASSUME SchedulerAssumption ==
  /\ IsFiniteSet(Request) /\ IsFiniteSet(Block)
  /\ block_size \in Nat \ {0}
  /\ max_num_seqs \in Nat \ {0}
  /\ max_prefill_tokens \in Nat \ {0}
  /\ prefill_chunk_size \in Nat \ {0}
  /\ PromptLen \subseteq Nat \ {0}
  /\ MaxTokens \subseteq Nat \ {0}
  /\ Priority \subseteq 0 .. 3

VARIABLES waiting,         \* request ids by (priority desc, arrival asc)
          prefilling,      \* running, prompt not yet fully computed
          decoding,        \* running, one token per step
          seq,             \* the Sequence of each request
          blocks,          \* blocks[r]: KV blocks the sequence holds
          free,            \* free blocks of the BlockManager
          next_arrival,    \* arrival counter
          phase,           \* loop of the engine step in progress
          idx,             \* that loop's index
          prefill_tokens,  \* prompt tokens given out in this step
          preempted        \* requests preempted in this step

schedVars == <<waiting, prefilling, decoding, seq, blocks, free,
               next_arrival, phase, idx, prefill_tokens, preempted>>
queueVars == <<waiting, prefilling, decoding>>

num_gpu_blocks == Cardinality(Block)

Phase == {"ready", "assign", "promote", "ensure_prefilling", "ensure_decoding",
          "run", "advance", "finish", "result"}

Sequence == [prompt : Nat, output : Nat, max_tokens : Nat, priority : 0 .. 3,
             arrival : Nat, prefill_pending : BOOLEAN, prefill_pos : Nat,
             chunk_size : Nat]

NoSequence == [prompt |-> 0, output |-> 0, max_tokens |-> 0, priority |-> 0,
               arrival |-> 0, prefill_pending |-> TRUE, prefill_pos |-> 0,
               chunk_size |-> 0]

SchedInit ==
  /\ waiting = <<>> /\ prefilling = <<>> /\ decoding = <<>>
  /\ seq = [r \in Request |-> NoSequence]
  /\ blocks = [r \in Request |-> {}]
  /\ free = Block
  /\ next_arrival = 0
  /\ phase = "ready" /\ idx = 1
  /\ prefill_tokens = 0 /\ preempted = {}

-----------------------------------------------------------------------------
(* Sequences and queues *)

Members(q) == {q[i] : i \in 1 .. Len(q)}

Live == Members(waiting) \cup Members(prefilling) \cup Members(decoding)

\* Removing a position, and inserting before one.
Without(q, i) == [j \in 1 .. Len(q) - 1 |-> IF j < i THEN q[j] ELSE q[j + 1]]
Insert(q, i, r) ==
  [j \in 1 .. Len(q) + 1 |->
     IF j < i THEN q[j] ELSE IF j = i THEN r ELSE q[j - 1]]

IndexIn(q, r) == CHOOSE i \in 1 .. Len(q) : q[i] = r

\* Queue order of the waiting list.
NotAfter(s, t) ==
  \/ s.priority > t.priority
  \/ s.priority = t.priority /\ s.arrival <= t.arrival

\* (mutant: a preempted or new request goes to the back of the queue)
InsertWaiting_AtBack(r, s) == Append(waiting, r)

\* insert_waiting: the partition point of the sequence's key.
InsertWaiting(r, s) ==
  Insert(waiting,
         1 + Cardinality({i \in 1 .. Len(waiting) : NotAfter(seq[waiting[i]], s)}),
         r)

\* Length whose KV entries must have blocks.
SeqLen(s) ==
  IF s.prefill_pending THEN s.prefill_pos + s.output + s.chunk_size
                       ELSE s.prompt + s.output

blocks_for(tokens) == (tokens + block_size - 1) \div block_size

is_final_chunk(s) == s.prefill_pos + s.chunk_size >= s.prompt

NextChunk(s) ==
  LET remaining == IF s.prefill_pos < s.prompt THEN s.prompt - s.prefill_pos ELSE 0
  IN  IF remaining < prefill_chunk_size THEN remaining ELSE prefill_chunk_size

is_idle == waiting = <<>> /\ prefilling = <<>> /\ decoding = <<>>

-----------------------------------------------------------------------------
(* Calls between steps *)

\* make_sequence and add: admitted if its worst case fits the whole pool.
Add(r, prompt, max_tokens, priority) ==
  LET s == [NoSequence EXCEPT !.prompt = prompt, !.max_tokens = max_tokens,
                              !.priority = priority, !.arrival = next_arrival]
  IN  /\ phase = "ready"
      /\ blocks_for(prompt + max_tokens) <= num_gpu_blocks
      /\ seq' = [seq EXCEPT ![r] = s]
      /\ waiting' = InsertWaiting(r, s)
      /\ next_arrival' = next_arrival + 1
      /\ UNCHANGED <<prefilling, decoding, blocks, free, phase, idx,
                     prefill_tokens, preempted>>

TooLong(prompt, max_tokens) ==
  /\ phase = "ready"
  /\ blocks_for(prompt + max_tokens) > num_gpu_blocks

\* (mutant: the handles are freed but stay with the sequence)
ReturnBlocks_KeepsHandles(r) == free' = free \cup blocks[r] /\ UNCHANGED blocks

\* The blocks a removed sequence held go back to the pool.
ReturnBlocks(r) ==
  /\ free' = free \cup blocks[r]
  /\ blocks' = [blocks EXCEPT ![r] = {}]

\* finish: out of whichever running queue holds it, prefilling looked at first.
Finish(r) ==
  /\ \/ /\ r \in Members(prefilling)
        /\ prefilling' = Without(prefilling, IndexIn(prefilling, r))
        /\ UNCHANGED decoding
     \/ /\ r \in Members(decoding) \ Members(prefilling)
        /\ decoding' = Without(decoding, IndexIn(decoding, r))
        /\ UNCHANGED prefilling
  /\ ReturnBlocks(r)
  /\ seq' = [seq EXCEPT ![r] = NoSequence]
  /\ UNCHANGED <<waiting, next_arrival>>

\* cancel of a request that has not run since it was added or preempted.
CancelWaiting(r) ==
  /\ r \in Members(waiting)
  /\ waiting' = Without(waiting, IndexIn(waiting, r))
  /\ seq' = [seq EXCEPT ![r] = NoSequence]
  /\ UNCHANGED <<prefilling, decoding, blocks, free, next_arrival>>

-----------------------------------------------------------------------------
(* schedule(), loop by loop *)

BeginSchedule ==
  /\ phase = "ready" /\ ~is_idle
  /\ phase' = "assign"
  /\ UNCHANGED <<queueVars, seq, blocks, free, next_arrival, idx,
                 prefill_tokens, preempted>>

\* The step's locals go out of scope.
LeaveStep(next) ==
  phase' = next /\ idx' = 1 /\ prefill_tokens' = 0 /\ preempted' = {}

\* Loop 1: the next chunk of every sequence that is already prefilling, until
\* one does not fit the step's token budget.
\* (mutant: only the first chunk of a prompt is assigned)
WantsChunk_FirstOnly(r) == seq[r].prefill_pending /\ seq[r].prefill_pos = 0
WantsChunk(r) == seq[r].prefill_pending /\ seq[r].chunk_size = 0

ChunkOverBudget(r) ==
  /\ WantsChunk(r)
  /\ prefill_tokens + NextChunk(seq[r]) > max_prefill_tokens

MoreChunks == idx <= Len(prefilling) /\ ~ChunkOverBudget(prefilling[idx])

AssignChunk ==
  /\ phase = "assign" /\ MoreChunks
  /\ LET r == prefilling[idx]
     IN  IF WantsChunk(r)
         THEN /\ seq' = [seq EXCEPT ![r].chunk_size = NextChunk(seq[r])]
              /\ prefill_tokens' = prefill_tokens + NextChunk(seq[r])
         ELSE UNCHANGED <<seq, prefill_tokens>>
  /\ idx' = idx + 1
  /\ UNCHANGED <<queueVars, blocks, free, next_arrival, phase, preempted>>

AssignDone ==
  /\ phase = "assign" /\ ~MoreChunks
  /\ phase' = "promote"
  /\ UNCHANGED <<queueVars, seq, blocks, free, next_arrival, idx,
                 prefill_tokens, preempted>>

\* Loop 2: promote the head of the waiting list while there is a slot, token
\* budget (the step's first chunk is always allowed) and enough free blocks.
PromotionNeed(s) == blocks_for(s.prefill_pos + NextChunk(s) + s.output)

FitsBudget(s) ==
  \/ prefill_tokens + NextChunk(s) <= max_prefill_tokens
  \/ prefill_tokens = 0

CanPromote ==
  /\ waiting # <<>>
  /\ Len(prefilling) + Len(decoding) < max_num_seqs
  /\ LET s == seq[Head(waiting)]
     IN  /\ FitsBudget(s)
         /\ PromotionNeed(s) <= Cardinality(free)

\* Which free blocks are taken does not matter here (BlockManager.tla: LIFO).
Promote ==
  /\ phase = "promote" /\ CanPromote
  /\ LET r == Head(waiting)
         chunk == NextChunk(seq[r])
         got == CHOOSE B \in SUBSET free : Cardinality(B) = PromotionNeed(seq[r])
     IN  /\ waiting' = Tail(waiting)
         /\ prefilling' = Append(prefilling, r)
         /\ seq' = [seq EXCEPT ![r].chunk_size = chunk]
         /\ blocks' = [blocks EXCEPT ![r] = @ \cup got]
         /\ free' = free \ got
         /\ prefill_tokens' = prefill_tokens + chunk
  /\ UNCHANGED <<decoding, next_arrival, phase, idx, preempted>>

PromoteDone ==
  /\ phase = "promote" /\ ~CanPromote
  /\ phase' = "ensure_prefilling" /\ idx' = 1
  /\ UNCHANGED <<queueVars, seq, blocks, free, next_arrival, prefill_tokens,
                 preempted>>

\* Loop 3: ensure_blocks for every prefilling, then every decoding sequence.
Ensuring == phase \in {"ensure_prefilling", "ensure_decoding"}
EnsuredQueue == IF phase = "ensure_prefilling" THEN prefilling ELSE decoding

Covered(r) == Cardinality(blocks[r]) >= blocks_for(SeqLen(seq[r]))

EnsureAllocate ==
  /\ Ensuring /\ idx <= Len(EnsuredQueue)
  /\ ~Covered(EnsuredQueue[idx]) /\ free # {}
  /\ LET r == EnsuredQueue[idx]
         b == CHOOSE b \in free : TRUE
     IN  /\ blocks' = [blocks EXCEPT ![r] = @ \cup {b}]
         /\ free' = free \ {b}
  /\ UNCHANGED <<queueVars, seq, next_arrival, phase, idx, prefill_tokens,
                 preempted>>

\* Lowest priority first, the latest arrival among equals, never the requester.
\* (mutant: only sequences of lower priority may be preempted)
Victims_Lower ==
  {i \in 1 .. Len(EnsuredQueue) :
     seq[EnsuredQueue[i]].priority < seq[EnsuredQueue[idx]].priority}
Victims == {i \in 1 .. Len(EnsuredQueue) : i # idx}

IsVictim(vi) ==
  /\ vi \in Victims
  /\ \A i \in Victims : NotAfter(seq[EnsuredQueue[i]], seq[EnsuredQueue[vi]])

\* (mutants: the prompt position, or the output, is not what it must be)
Restarted_KeepsPosition(s) == [s EXCEPT !.prefill_pending = TRUE, !.chunk_size = 0]
Restarted_DropsOutput(s) ==
  [s EXCEPT !.prefill_pending = TRUE, !.prefill_pos = 0, !.chunk_size = 0, !.output = 0]
Restarted(s) ==
  [s EXCEPT !.prefill_pending = TRUE, !.prefill_pos = 0, !.chunk_size = 0]

\* The requester's index after queue[vi] was removed.
IndexAfter(vi) == IF vi < idx THEN idx - 1 ELSE idx

\* The victim loses its blocks, keeps its output, restarts its prompt.
Preempt ==
  /\ Ensuring /\ idx <= Len(EnsuredQueue)
  /\ ~Covered(EnsuredQueue[idx]) /\ free = {}
  /\ \E vi \in 1 .. Len(EnsuredQueue) :
       /\ IsVictim(vi)
       /\ LET v == EnsuredQueue[vi]
              s == Restarted(seq[v])
          IN  /\ IF phase = "ensure_prefilling"
                 THEN prefilling' = Without(prefilling, vi) /\ UNCHANGED decoding
                 ELSE decoding' = Without(decoding, vi) /\ UNCHANGED prefilling
              /\ waiting' = InsertWaiting(v, s)
              /\ seq' = [seq EXCEPT ![v] = s]
              /\ ReturnBlocks(v)
              /\ preempted' = preempted \cup {v}
              /\ idx' = IndexAfter(vi)
  /\ UNCHANGED <<next_arrival, phase, prefill_tokens>>

\* Covered, or nobody left to preempt: go on with the next sequence.
EnsureNext ==
  /\ Ensuring /\ idx <= Len(EnsuredQueue)
  /\ \/ Covered(EnsuredQueue[idx])
     \/ free = {} /\ Victims = {}
  /\ idx' = idx + 1
  /\ UNCHANGED <<queueVars, seq, blocks, free, next_arrival, phase,
                 prefill_tokens, preempted>>

EnsureDone ==
  /\ Ensuring /\ idx > Len(EnsuredQueue)
  /\ phase' = IF phase = "ensure_prefilling" THEN "ensure_decoding" ELSE "run"
  /\ idx' = 1
  /\ UNCHANGED <<queueVars, seq, blocks, free, next_arrival, prefill_tokens,
                 preempted>>

\* Loop 4: the batch, without sequences that got no chunk.
Batch ==
  {r \in Members(prefilling) : seq[r].chunk_size > 0} \cup Members(decoding)

Schedule ==
  \/ BeginSchedule
  \/ AssignChunk \/ AssignDone
  \/ Promote \/ PromoteDone
  \/ EnsureAllocate \/ Preempt \/ EnsureNext \/ EnsureDone
=============================================================================
