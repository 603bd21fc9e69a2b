---------------------------- MODULE EngineProofs ----------------------------
(***************************************************************************)
(* For every set of requests, pool, queue and budget size: the engine's    *)
(* state keeps its types, no KV block is ever shared, lost, or held while  *)
(* free, the engine implements BlockPool.tla, requests stay in one queue,  *)
(* once, start in order, are billed for what they were sent, are fed to    *)
(* the model once, and live the life of Generation.tla, every batch the    *)
(* model is given can be run, and every step ends.                         *)
(***************************************************************************)
EXTENDS EngineProps, FiniteSetTheorems, SequenceTheorems, WellFoundedInduction, TLAPS

-----------------------------------------------------------------------------
(* The operators on queues and sequences *)

\* The requests of a queue are requests.
LEMMA MembersType ==
  ASSUME NEW q \in Seq(Request)
  PROVE  Members(q) \subseteq Request
BY ElementOfSeq DEF Members

\* A position of a member.
LEMMA IndexInRange ==
  ASSUME NEW q \in Seq(Request), NEW r \in Members(q)
  PROVE  IndexIn(q, r) \in 1 .. Len(q) /\ q[IndexIn(q, r)] = r
BY DEF Members, IndexIn

\* Removing a position leaves a queue.
LEMMA WithoutType ==
  ASSUME NEW q \in Seq(Request), NEW i \in 1 .. Len(q)
  PROVE  Without(q, i) \in Seq(Request)
<1>1. Len(q) \in Nat /\ \A j \in 1 .. Len(q) : q[j] \in Request
  BY LenProperties, ElementOfSeq
<1>2. Len(q) - 1 \in Nat
  BY <1>1
<1>3. Without(q, i) \in [1 .. Len(q) - 1 -> Request]
  BY <1>1 DEF Without
<1> QED
  BY <1>2, <1>3, SeqDef

\* Inserting before a position, or at the end, leaves a queue.
LEMMA InsertType ==
  ASSUME NEW q \in Seq(Request), NEW i \in 1 .. Len(q) + 1, NEW r \in Request
  PROVE  Insert(q, i, r) \in Seq(Request)
<1>1. Len(q) \in Nat /\ \A j \in 1 .. Len(q) : q[j] \in Request
  BY LenProperties, ElementOfSeq
<1>2. Len(q) + 1 \in Nat
  BY <1>1
<1>3. Insert(q, i, r) \in [1 .. Len(q) + 1 -> Request]
  BY <1>1 DEF Insert
<1> QED
  BY <1>2, <1>3, SeqDef

\* The waiting list stays a queue when a sequence is inserted by its key.
LEMMA InsertWaitingType ==
  ASSUME waiting \in Seq(Request), NEW r \in Request, NEW s
  PROVE  InsertWaiting(r, s) \in Seq(Request)
<1> DEFINE before == {i \in 1 .. Len(waiting) : NotAfter(seq[waiting[i]], s)}
<1>1. Len(waiting) \in Nat
  BY LenProperties
<1>2. IsFiniteSet(1 .. Len(waiting)) /\ Cardinality(1 .. Len(waiting)) = Len(waiting)
  BY <1>1, FS_Interval
<1>3. before \in SUBSET (1 .. Len(waiting))
  OBVIOUS
<1>4. IsFiniteSet(before) /\ Cardinality(before) <= Len(waiting)
  BY <1>2, <1>3, FS_Subset
<1>5. Cardinality(before) \in Nat
  BY <1>4, FS_CardinalityType
<1>6. 1 + Cardinality(before) \in 1 .. Len(waiting) + 1
  BY <1>1, <1>4, <1>5
<1> QED
  BY <1>6, InsertType DEF InsertWaiting

\* A chunk is a number of tokens, whatever the position.
LEMMA NextChunkType ==
  ASSUME NEW s \in Sequence
  PROVE  NextChunk(s) \in Nat
BY SchedulerAssumption DEF NextChunk, Sequence

\* blocks_for rounds up, to a number of blocks.
LEMMA BlocksForType ==
  ASSUME NEW n \in Nat
  PROVE  blocks_for(n) \in Nat
<1>1. n + block_size - 1 \in Nat /\ block_size \in Nat \ {0}
  BY SchedulerAssumption
<1>2. \A a \in Nat, b \in Nat \ {0} : a \div b \in Nat
  OBVIOUS
<1> QED
  BY <1>1, <1>2 DEF blocks_for

\* A finite set has subsets of every size up to its own.
LEMMA SubsetOfSize ==
  ASSUME NEW S, IsFiniteSet(S), NEW k \in Nat, k <= Cardinality(S)
  PROVE  \E B \in SUBSET S : Cardinality(B) = k
<1>1. Cardinality(S) \in Nat /\ ExistsBijection(1 .. Cardinality(S), S)
  BY FS_CardinalityType
<1>2. PICK f \in Bijection(1 .. Cardinality(S), S) : TRUE
  BY <1>1 DEF ExistsBijection
<1> DEFINE B == {f[i] : i \in 1 .. k}
           g == [i \in 1 .. k |-> f[i]]
<1>3. /\ f \in [1 .. Cardinality(S) -> S]
      /\ \A i, j \in 1 .. Cardinality(S) : f[i] = f[j] => i = j
  BY <1>2 DEF Bijection, Injection, IsInjective
<1>4. \A i \in 1 .. k : i \in 1 .. Cardinality(S)
  BY <1>1
<1>5. B \in SUBSET S
  BY <1>3, <1>4
<1>6. g \in [1 .. k -> B] /\ \A i, j \in 1 .. k : g[i] = g[j] => i = j
  BY <1>3, <1>4
<1>7. g \in Bijection(1 .. k, B)
  BY <1>6 DEF Bijection, Injection, Surjection, IsInjective
<1>8. IsFiniteSet(1 .. k) /\ Cardinality(1 .. k) = k
  BY FS_Interval
<1>9. Cardinality(B) = k
  BY <1>7, <1>8, FS_Bijection DEF ExistsBijection
<1> QED
  BY <1>5, <1>9

-----------------------------------------------------------------------------
(* Types *)

\* The initial state has its types.
LEMMA InitType == Init => TypeOK
BY EngineAssumption, SchedulerAssumption
   DEF Init, SchedInit, TypeOK, NoSequence, Sequence, Phase, NoKv, NoneFinished,
       Unfinished, Reason

\* What TypeOK says of the queues and of the requests in them.
LEMMA QueueTypes ==
  ASSUME TypeOK
  PROVE  /\ Members(waiting) \subseteq Request
         /\ Members(prefilling) \subseteq Request
         /\ Members(decoding) \subseteq Request
         /\ Batch \subseteq Request
         /\ Len(waiting) \in Nat /\ Len(prefilling) \in Nat /\ Len(decoding) \in Nat
         /\ \A i \in 1 .. Len(waiting) : waiting[i] \in Request
         /\ \A i \in 1 .. Len(prefilling) : prefilling[i] \in Request
         /\ \A i \in 1 .. Len(decoding) : decoding[i] \in Request
         /\ \A i \in 1 .. Len(EnsuredQueue) : EnsuredQueue[i] \in Request
<1>1. waiting \in Seq(Request) /\ prefilling \in Seq(Request) /\ decoding \in Seq(Request)
  BY DEF TypeOK
<1> QED
  BY <1>1, MembersType, LenProperties, ElementOfSeq DEF Batch, EnsuredQueue

\* The updates the scheduler and the engine make to a sequence.
LEMMA SequenceUpdates ==
  ASSUME NEW s \in Sequence, NEW n \in Nat, NEW b \in BOOLEAN
  PROVE  /\ [s EXCEPT !.chunk_size = n] \in Sequence
         /\ [s EXCEPT !.output = n, !.prefill_pending = b] \in Sequence
         /\ Restarted(s) \in Sequence
         /\ Advanced(s) \in Sequence
         /\ [Advanced(s) EXCEPT !.prefill_pending = FALSE] \in Sequence
<1>1. [s EXCEPT !.chunk_size = n] \in Sequence
  BY DEF Sequence
<1>2. [s EXCEPT !.output = n, !.prefill_pending = b] \in Sequence
  BY DEF Sequence
<1>3. Restarted(s) \in Sequence
  BY DEF Sequence, Restarted
<1>4. s.prefill_pos + s.chunk_size \in Nat
  BY DEF Sequence
<1>5. Advanced(s) \in Sequence
  BY <1>4 DEF Sequence, Advanced
<1>6. \A t \in Sequence : [t EXCEPT !.prefill_pending = FALSE] \in Sequence
  BY DEF Sequence
<1> QED
  BY <1>1, <1>2, <1>3, <1>5, <1>6

\* A new sequence joins the waiting list.
LEMMA SubmitType ==
  ASSUME TypeOK, NEW r \in Request, NEW prompt \in PromptLen,
         NEW max_tokens \in MaxTokens, NEW priority \in Priority,
         Submit(r, prompt, max_tokens, priority)
  PROVE  TypeOK'
<1>1. prompt \in Nat /\ max_tokens \in Nat /\ priority \in 0 .. 3
  BY SchedulerAssumption
<1>2. CASE Add(r, prompt, max_tokens, priority) /\ UNCHANGED outcome
  <2> DEFINE s == [NoSequence EXCEPT !.prompt = prompt, !.max_tokens = max_tokens,
                                     !.priority = priority, !.arrival = next_arrival]
  <2>1. s \in Sequence
    BY <1>1 DEF TypeOK, NoSequence, Sequence
  <2>2. waiting' \in Seq(Request) /\ seq' \in [Request -> Sequence]
    <3>1. waiting' = InsertWaiting(r, s) /\ seq' = [seq EXCEPT ![r] = s]
      BY <1>2 DEF Add
    <3> QED
      BY <2>1, <3>1, InsertWaitingType DEF TypeOK
  <2>3. next_arrival' \in Nat
    BY <1>2 DEF Add, TypeOK
  <2> QED
    BY <1>2, <2>2, <2>3 DEF Submit, Add, TypeOK
<1>3. CASE TooLong(prompt, max_tokens) /\ End(r, "rejected", 0) /\ UNCHANGED schedVars
  BY <1>3 DEF Submit, TypeOK, End, Reason, schedVars
<1> QED
  BY <1>2, <1>3 DEF Submit

\* finish takes a running request out of its queue and out of the pool.
LEMMA FinishType ==
  ASSUME TypeOK, NEW r \in Request, Finish(r)
  PROVE  /\ prefilling' \in Seq(Request) /\ decoding' \in Seq(Request)
         /\ waiting' \in Seq(Request) /\ seq' \in [Request -> Sequence]
         /\ blocks' \in [Request -> SUBSET Block] /\ free' \in SUBSET Block
         /\ next_arrival' \in Nat
<1>1. prefilling' \in Seq(Request) /\ decoding' \in Seq(Request)
  BY IndexInRange, WithoutType DEF Finish, TypeOK
<1>2. NoSequence \in Sequence
  BY DEF NoSequence, Sequence
<1> QED
  BY <1>1, <1>2 DEF Finish, ReturnBlocks, TypeOK

\* A cancel removes the request wherever it is.
LEMMA CancelType ==
  ASSUME TypeOK, NEW r \in Request, Cancel(r)
  PROVE  TypeOK'
<1>1. NoSequence \in Sequence /\ NoKv \in [prompt : Nat, output : Nat]
  BY DEF NoSequence, Sequence, NoKv
<1>2. seq[r].output \in Nat
  BY DEF TypeOK, Sequence
<1>3. CASE CancelWaiting(r) /\ End(r, "cancel", 0) /\ UNCHANGED kv
  <2>1. waiting' \in Seq(Request)
    BY <1>3, IndexInRange, WithoutType DEF CancelWaiting, TypeOK
  <2> QED
    BY <1>1, <1>3, <2>1 DEF Cancel, CancelWaiting, End, Reason, TypeOK
<1>4. CASE Finish(r) /\ End(r, "cancel", seq[r].output) /\ kv' = [kv EXCEPT ![r] = NoKv]
  BY <1>1, <1>2, <1>4, FinishType DEF Cancel, End, Reason, TypeOK
<1> QED
  BY <1>3, <1>4 DEF Cancel, CancelSeq

\* Loop 1 assigns a chunk.
LEMMA AssignType ==
  ASSUME TypeOK, AssignChunk \/ AssignDone \/ BeginSchedule, UNCHANGED engineVars
  PROVE  TypeOK'
<1>1. CASE AssignChunk
  <2> DEFINE r == prefilling[idx]
  <2>1. idx \in 1 .. Len(prefilling)
    BY <1>1 DEF AssignChunk, MoreChunks, TypeOK
  <2>2. r \in Request
    BY <2>1, QueueTypes
  <2>3. NextChunk(seq[r]) \in Nat
    BY <2>2, NextChunkType DEF TypeOK
  <2>4. seq' \in [Request -> Sequence]
    <3>1. \/ seq' = [seq EXCEPT ![r].chunk_size = NextChunk(seq[r])]
          \/ seq' = seq
      BY <1>1 DEF AssignChunk
    <3>2. seq[r] \in Sequence
      BY <2>2 DEF TypeOK
    <3>3. [seq[r] EXCEPT !.chunk_size = NextChunk(seq[r])] \in Sequence
      BY <2>3, <3>2, SequenceUpdates
    <3> QED
      BY <2>2, <3>1, <3>3 DEF TypeOK
  <2>5. prefill_tokens' \in Nat /\ idx' \in Nat \ {0}
    <3>1. prefill_tokens \in Nat /\ idx \in Nat \ {0}
      BY DEF TypeOK
    <3>2. /\ prefill_tokens' = prefill_tokens + NextChunk(seq[r])
             \/ prefill_tokens' = prefill_tokens
          /\ idx' = idx + 1
      BY <1>1 DEF AssignChunk
    <3> QED
      BY <2>3, <3>1, <3>2
  <2> QED
    BY <1>1, <2>4, <2>5 DEF AssignChunk, TypeOK, engineVars, queueVars
<1>2. CASE AssignDone
  BY <1>2 DEF AssignDone, TypeOK, Phase, engineVars, queueVars
<1>3. CASE BeginSchedule
  BY <1>3 DEF BeginSchedule, TypeOK, Phase, engineVars, queueVars
<1> QED
  BY <1>1, <1>2, <1>3

\* What loop 2 takes from the pool is a set of free blocks.
LEMMA PromoteTakes ==
  ASSUME TypeOK, CanPromote
  PROVE  LET r == Head(waiting)
             got == CHOOSE B \in SUBSET free : Cardinality(B) = PromotionNeed(seq[r])
         IN  /\ r \in Request /\ NextChunk(seq[r]) \in Nat
             /\ got \in SUBSET free
<1> DEFINE r == Head(waiting)
           need == PromotionNeed(seq[r])
<1>1. r \in Request /\ seq[r] \in Sequence
  BY HeadTailProperties DEF CanPromote, TypeOK
<1>2. NextChunk(seq[r]) \in Nat
  BY <1>1, NextChunkType
<1>3. need \in Nat
  <2>1. seq[r].prefill_pos + NextChunk(seq[r]) + seq[r].output \in Nat
    BY <1>1, <1>2 DEF Sequence
  <2> QED
    BY <2>1, BlocksForType DEF PromotionNeed
<1>4. IsFiniteSet(free)
  BY SchedulerAssumption, FS_Subset DEF TypeOK
<1>5. need <= Cardinality(free)
  BY DEF CanPromote
<1>6. \E B \in SUBSET free : Cardinality(B) = need
  BY <1>3, <1>4, <1>5, SubsetOfSize
<1> QED
  BY <1>1, <1>2, <1>6

\* Loop 2 moves the head of the waiting list to the prefilling queue.
LEMMA PromoteType ==
  ASSUME TypeOK, Promote \/ PromoteDone, UNCHANGED engineVars
  PROVE  TypeOK'
<1>1. CASE Promote
  <2> DEFINE r == Head(waiting)
             chunk == NextChunk(seq[r])
             got == CHOOSE B \in SUBSET free : Cardinality(B) = PromotionNeed(seq[r])
  <2>1. r \in Request /\ chunk \in Nat /\ got \in SUBSET free
    BY <1>1, PromoteTakes DEF Promote
  <2>2. waiting' \in Seq(Request) /\ prefilling' \in Seq(Request)
    BY <1>1, <2>1, HeadTailProperties, AppendProperties DEF Promote, CanPromote, TypeOK
  <2>3. seq' \in [Request -> Sequence]
    <3>0. seq[r] \in Sequence
      BY <2>1 DEF TypeOK
    <3>1. [seq[r] EXCEPT !.chunk_size = chunk] \in Sequence
      BY <2>1, <3>0, SequenceUpdates
    <3>2. seq' = [seq EXCEPT ![r].chunk_size = chunk]
      BY <1>1 DEF Promote
    <3> QED
      BY <2>1, <3>1, <3>2 DEF TypeOK
  <2>4. blocks' \in [Request -> SUBSET Block] /\ free' \in SUBSET Block
    <3>1. blocks' = [blocks EXCEPT ![r] = @ \cup got] /\ free' = free \ got
      BY <1>1 DEF Promote
    <3> QED
      BY <2>1, <3>1 DEF TypeOK
  <2>5. prefill_tokens' \in Nat
    <3>1. prefill_tokens' = prefill_tokens + chunk
      BY <1>1 DEF Promote
    <3> QED
      BY <2>1, <3>1 DEF TypeOK
  <2>6. UNCHANGED <<decoding, next_arrival, phase, idx, preempted>>
    BY <1>1 DEF Promote
  <2> QED
    BY <2>2, <2>3, <2>4, <2>5, <2>6 DEF TypeOK, engineVars
<1>2. CASE PromoteDone
  BY <1>2 DEF PromoteDone, TypeOK, Phase, engineVars, queueVars
<1> QED
  BY <1>1, <1>2

\* Loop 3 gives a block to a request, or takes all of them from one.
LEMMA EnsureType ==
  ASSUME TypeOK, EnsureAllocate \/ Preempt \/ EnsureNext \/ EnsureDone,
         UNCHANGED engineVars
  PROVE  TypeOK'
<1>1. CASE EnsureAllocate
  <2>1. EnsuredQueue[idx] \in Request
    BY <1>1, QueueTypes DEF EnsureAllocate, TypeOK
  <2>2. (CHOOSE b \in free : TRUE) \in free
    BY <1>1 DEF EnsureAllocate
  <2> QED
    BY <1>1, <2>1, <2>2 DEF EnsureAllocate, TypeOK, engineVars, queueVars
<1>2. CASE Preempt
  <2>1. PICK vi \in 1 .. Len(EnsuredQueue) :
          LET v == EnsuredQueue[vi]
              s == Restarted(seq[v])
          IN  /\ IsVictim(vi)
              /\ IF phase = "ensure_prefilling"
                 THEN prefilling' = Without(prefilling, vi) /\ UNCHANGED decoding
                 ELSE decoding' = Without(decoding, vi) /\ UNCHANGED prefilling
              /\ waiting' = InsertWaiting(v, s)
              /\ seq' = [seq EXCEPT ![v] = s]
              /\ ReturnBlocks(v)
              /\ preempted' = preempted \cup {v}
              /\ idx' = IndexAfter(vi)
    BY <1>2 DEF Preempt
  <2> DEFINE v == EnsuredQueue[vi]
             s == Restarted(seq[v])
  <2>2. v \in Request
    BY QueueTypes
  <2>3. s \in Sequence
    <3>1. seq[v] \in Sequence
      BY <2>2 DEF TypeOK
    <3> QED
      BY <3>1, SequenceUpdates
  <2>4. prefilling' \in Seq(Request) /\ decoding' \in Seq(Request)
    BY <2>1, WithoutType DEF TypeOK, EnsuredQueue
  <2>5. waiting' \in Seq(Request)
    BY <2>1, <2>2, InsertWaitingType DEF TypeOK
  <2>6. idx' \in Nat \ {0}
    <3>1. vi \in Nat \ {0} /\ idx \in Nat \ {0}
      BY QueueTypes DEF TypeOK, EnsuredQueue
    <3> QED
      BY <2>1, <3>1 DEF IndexAfter
  <2>7. seq' \in [Request -> Sequence]
    BY <2>1, <2>2, <2>3 DEF TypeOK
  <2>8. blocks' \in [Request -> SUBSET Block] /\ free' \in SUBSET Block
    BY <2>1, <2>2 DEF ReturnBlocks, TypeOK
  <2>9. preempted' \in SUBSET Request
    BY <2>1, <2>2 DEF TypeOK
  <2>10. UNCHANGED <<next_arrival, phase, prefill_tokens>>
    BY <1>2 DEF Preempt
  <2> QED
    BY <2>4, <2>5, <2>6, <2>7, <2>8, <2>9, <2>10 DEF TypeOK, engineVars
<1>3. CASE EnsureNext
  BY <1>3 DEF EnsureNext, TypeOK, engineVars, queueVars
<1>4. CASE EnsureDone
  BY <1>4 DEF EnsureDone, TypeOK, Phase, engineVars, queueVars
<1> QED
  BY <1>1, <1>2, <1>3, <1>4

\* What the runner's state becomes has its type, whatever part of the batch
\* was fed.
LEMMA KvType ==
  ASSUME TypeOK, NEW S
  PROVE  /\ KvAfterDrops \in [Request -> [prompt : Nat, output : Nat]]
         /\ KvAfterFeeding(S) \in [Request -> [prompt : Nat, output : Nat]]
<1>1. KvAfterDrops \in [Request -> [prompt : Nat, output : Nat]]
  BY DEF KvAfterDrops, NoKv, TypeOK
<1>2. \A r \in Request :
        /\ seq[r].chunk_size \in Nat /\ seq[r].output \in Nat
        /\ kv[r] \in [prompt : Nat, output : Nat]
  BY DEF TypeOK, Sequence
<1>3. \A r \in Request :
        [prompt |-> kv[r].prompt + seq[r].chunk_size,
         output |-> kv[r].output + seq[r].output] \in [prompt : Nat, output : Nat]
  BY <1>2
<1>4. \A r \in Request :
        [kv[r] EXCEPT !.output = @ + 1] \in [prompt : Nat, output : Nat]
  BY <1>2
<1> QED
  BY <1>1, <1>3, <1>4 DEF KvAfterFeeding

\* The model ran, or failed.
LEMMA RunnerType ==
  ASSUME TypeOK,
         (\E eos \in SUBSET Batch : RunnerStep(eos)) \/ RunnerFail
  PROVE  TypeOK'
<1>1. ASSUME NEW eos \in SUBSET Batch, RunnerStep(eos) PROVE TypeOK'
  <2> DEFINE valid == {r \in Batch : ValidOutput(r)}
             done == eos \cup {r \in Batch : LimitReached(r)}
  <2>1. valid \subseteq Request /\ done \subseteq Request /\ Batch \subseteq Request
    BY QueueTypes
  <2>2. kv' \in [Request -> [prompt : Nat, output : Nat]]
    BY <1>1, KvType DEF RunnerStep
  <2>3. tokens' \in SUBSET Request /\ prefilled' \in SUBSET Request
    BY <1>1, <2>1 DEF RunnerStep
  <2>4. emitted' \in [Request -> Nat]
    <3>1. \A r \in Request : emitted[r] \in Nat
      BY DEF TypeOK
    <3>2. \A r \in Request : emitted[r] + (IF r \in valid THEN 1 ELSE 0) \in Nat
      BY <3>1
    <3>3. emitted' = [r \in Request |-> emitted[r] + (IF r \in valid THEN 1 ELSE 0)]
      BY <1>1 DEF RunnerStep
    <3> QED
      BY <3>2, <3>3
  <2>5. /\ DOMAIN finished' \subseteq Request
        /\ \A r \in DOMAIN finished' : finished'[r] \in {"stop", "length"}
    <3>1. finished' = [r \in done |-> IF r \in eos THEN "stop" ELSE "length"]
      BY <1>1 DEF RunnerStep
    <3> QED
      BY <2>1, <3>1
  <2>6. seq' \in [Request -> Sequence]
    <3>1. \A r \in Request : OutputAfter(r) \in Nat
      BY DEF OutputAfter, TypeOK, Sequence
    <3>2. \A r \in Request :
            [seq[r] EXCEPT !.output = OutputAfter(r),
                           !.prefill_pending = @ /\ ~is_final_chunk(seq[r])] \in Sequence
      <4> SUFFICES ASSUME NEW r \in Request
                   PROVE  [seq[r] EXCEPT !.output = OutputAfter(r),
                             !.prefill_pending = @ /\ ~is_final_chunk(seq[r])] \in Sequence
        OBVIOUS
      <4> DEFINE b == seq[r].prefill_pending /\ ~is_final_chunk(seq[r])
      <4>1. seq[r] \in Sequence /\ OutputAfter(r) \in Nat
        BY <3>1 DEF TypeOK
      <4>2. b \in BOOLEAN
        OBVIOUS
      <4> HIDE DEF b
      <4>3. [seq[r] EXCEPT !.output = OutputAfter(r), !.prefill_pending = b] \in Sequence
        BY <4>1, <4>2, SequenceUpdates
      <4> QED
        BY <4>3 DEF b
    <3>3. seq' = [r \in Request |->
                    IF r \in Batch
                    THEN [seq[r] EXCEPT
                            !.output = OutputAfter(r),
                            !.prefill_pending = @ /\ ~is_final_chunk(seq[r])]
                    ELSE seq[r]]
      BY <1>1 DEF RunnerStep
    <3> QED
      BY <3>2, <3>3 DEF TypeOK
  <2>7. phase' \in Phase
    BY <1>1 DEF RunnerStep, Phase
  <2> QED
    BY <1>1, <2>2, <2>3, <2>4, <2>5, <2>6, <2>7 DEF RunnerStep, TypeOK, queueVars
<1>2. CASE RunnerFail
  <2>1. \E S : kv' = KvAfterFeeding(S)
    BY <1>2 DEF RunnerFail
  <2>2. kv' \in [Request -> [prompt : Nat, output : Nat]]
    BY <2>1, KvType
  <2>3. failures' \in Nat
    <3>1. failures \in Nat
      BY DEF TypeOK
    <3> QED
      BY <1>2, <3>1 DEF RunnerFail
  <2>4. /\ phase' = "ready" /\ idx' = 1 /\ prefill_tokens' = 0 /\ preempted' = {}
        /\ UNCHANGED <<waiting, prefilling, decoding, seq, blocks, free,
                       next_arrival, prefilled, finished, tokens, emitted, outcome>>
    BY <1>2 DEF RunnerFail, LeaveStep, queueVars
  <2> QED
    BY <2>2, <2>3, <2>4 DEF TypeOK, Phase
<1> QED
  BY <1>1, <1>2

\* The prefills of the step advance.
LEMMA AdvanceType ==
  ASSUME TypeOK, AdvancePrefill \/ AdvanceDone
  PROVE  TypeOK'
<1>1. CASE AdvancePrefill
  <2>1. PICK i \in 1 .. Len(prefilling) :
          LET r == prefilling[i]
              s == Advanced(seq[r])
          IN  /\ prefilled' = prefilled \ {r}
              /\ IF s.prefill_pos >= s.prompt
                 THEN /\ prefilling' = Without(prefilling, i)
                      /\ decoding' = Append(decoding, r)
                      /\ seq' = [seq EXCEPT ![r] = [s EXCEPT !.prefill_pending = FALSE]]
                 ELSE /\ seq' = [seq EXCEPT ![r] = s]
                      /\ UNCHANGED <<prefilling, decoding>>
    BY <1>1 DEF AdvancePrefill
  <2> DEFINE r == prefilling[i]
             s == Advanced(seq[r])
  <2>2. r \in Request
    BY QueueTypes
  <2>3. s \in Sequence /\ [s EXCEPT !.prefill_pending = FALSE] \in Sequence
    <3>1. seq[r] \in Sequence
      BY <2>2 DEF TypeOK
    <3> QED
      BY <3>1, SequenceUpdates
  <2>4. prefilling' \in Seq(Request) /\ decoding' \in Seq(Request)
    <3>1. prefilling \in Seq(Request) /\ decoding \in Seq(Request)
      BY DEF TypeOK
    <3>2. \/ prefilling' = Without(prefilling, i) /\ decoding' = Append(decoding, r)
          \/ prefilling' = prefilling /\ decoding' = decoding
      BY <2>1
    <3>3. Without(prefilling, i) \in Seq(Request) /\ Append(decoding, r) \in Seq(Request)
      BY <2>2, <3>1, WithoutType, AppendProperties
    <3> QED
      BY <3>1, <3>2, <3>3
  <2>5. seq' \in [Request -> Sequence]
    <3>1. seq' = [seq EXCEPT ![r] = [s EXCEPT !.prefill_pending = FALSE]]
          \/ seq' = [seq EXCEPT ![r] = s]
      BY <2>1
    <3> QED
      BY <2>2, <2>3, <3>1 DEF TypeOK
  <2>6. prefilled' \in SUBSET Request
    BY <2>1 DEF TypeOK
  <2> QED
    BY <1>1, <2>4, <2>5, <2>6 DEF AdvancePrefill, TypeOK
<1>2. CASE AdvanceDone
  BY <1>2 DEF AdvanceDone, TypeOK, Phase, engineVars, queueVars
<1> QED
  BY <1>1, <1>2

\* Stopped sequences leave, and the result is handed over.
LEMMA ResultType ==
  ASSUME TypeOK, FinishSeq \/ FinishDone \/ TakeResult
  PROVE  TypeOK'
<1>1. CASE FinishSeq
  <2>1. PICK r \in DOMAIN finished :
          /\ Finish(r)
          /\ End(r, finished[r], seq[r].output)
          /\ kv' = [kv EXCEPT ![r] = NoKv]
          /\ finished' = [x \in DOMAIN finished \ {r} |-> finished[x]]
    BY <1>1 DEF FinishSeq
  <2>2. r \in Request /\ finished[r] \in Reason /\ seq[r].output \in Nat
    BY DEF TypeOK, Reason, Sequence
  <2>3. outcome' \in [Request -> [reason : Reason, completion : Nat]]
    BY <2>1, <2>2 DEF End, TypeOK
  <2>4. kv' \in [Request -> [prompt : Nat, output : Nat]]
    BY <2>1, <2>2 DEF NoKv, TypeOK
  <2>5. /\ DOMAIN finished' \subseteq Request
        /\ \A x \in DOMAIN finished' : finished'[x] \in {"stop", "length"}
    BY <2>1 DEF TypeOK
  <2> QED
    BY <1>1, <2>1, <2>2, <2>3, <2>4, <2>5, FinishType DEF FinishSeq, TypeOK
<1>2. CASE FinishDone
  BY <1>2 DEF FinishDone, LeaveStep, TypeOK, Phase, engineVars, queueVars
<1>3. CASE TakeResult
  BY <1>3 DEF TakeResult, TypeOK, Phase, queueVars
<1> QED
  BY <1>1, <1>2, <1>3

\* Every step of the engine keeps the types.
LEMMA NextType == TypeOK /\ [Next]_vars => TypeOK'
<1> SUFFICES ASSUME TypeOK, [Next]_vars PROVE TypeOK'
  OBVIOUS
<1>1. CASE UNCHANGED vars
  BY <1>1 DEF vars, schedVars, engineVars, TypeOK
<1>2. CASE \E r \in Request, prompt \in PromptLen, max_tokens \in MaxTokens,
              priority \in Priority : Submit(r, prompt, max_tokens, priority)
  BY <1>2, SubmitType
<1>3. CASE \E r \in Request : Cancel(r)
  BY <1>3, CancelType
<1>4. CASE Schedule /\ UNCHANGED engineVars
  BY <1>4, AssignType, PromoteType, EnsureType DEF Schedule
<1>5. CASE (\E eos \in SUBSET Batch : RunnerStep(eos)) \/ RunnerFail
  BY <1>5, RunnerType
<1>6. CASE AdvancePrefill \/ AdvanceDone
  BY <1>6, AdvanceType
<1>7. CASE FinishSeq \/ FinishDone \/ TakeResult
  BY <1>7, ResultType
<1> QED
  BY <1>1, <1>2, <1>3, <1>4, <1>5, <1>6, <1>7 DEF Next, Step

\* Every value the engine and its scheduler keep has the type its code gives
\* it: no index leaves its queue, no counter goes below zero.
THEOREM EngineTypeCorrect == Spec => []TypeOK
<1> QED
  BY InitType, NextType, PTL DEF Spec

-----------------------------------------------------------------------------
(* Blocks *)

\* A request takes free blocks.
TakeBlocks(r, B) ==
  /\ B \in SUBSET free
  /\ blocks' = [blocks EXCEPT ![r] = @ \cup B]
  /\ free' = free \ B

\* All a step can do with blocks: one request takes some, one request returns
\* all it has, or nothing.
MovesBlocks ==
  \/ \E r \in Request, B \in SUBSET free : TakeBlocks(r, B)
  \/ \E r \in Request : ReturnBlocks(r)
  \/ UNCHANGED <<blocks, free>>

\* Every step of the engine moves blocks in one of these ways.
LEMMA NextMovesBlocks ==
  ASSUME TypeOK, [Next]_vars
  PROVE  MovesBlocks
<1>1. CASE UNCHANGED vars
  BY <1>1 DEF vars, schedVars, MovesBlocks
<1>2. CASE \E r \in Request, prompt \in PromptLen, max_tokens \in MaxTokens,
              priority \in Priority : Submit(r, prompt, max_tokens, priority)
  BY <1>2 DEF Submit, Add, schedVars, MovesBlocks
<1>3. CASE \E r \in Request : Cancel(r)
  BY <1>3 DEF Cancel, CancelSeq, CancelWaiting, Finish, MovesBlocks
<1>4. CASE Schedule /\ UNCHANGED engineVars
  <2>1. CASE Promote
    <3> DEFINE r == Head(waiting)
               got == CHOOSE B \in SUBSET free : Cardinality(B) = PromotionNeed(seq[r])
    <3>1. r \in Request /\ got \in SUBSET free
      BY <2>1, PromoteTakes DEF Promote
    <3>2. TakeBlocks(r, got)
      BY <2>1, <3>1 DEF Promote, TakeBlocks
    <3> QED
      BY <3>1, <3>2 DEF MovesBlocks
  <2>2. CASE EnsureAllocate
    <3> DEFINE r == EnsuredQueue[idx]
               b == CHOOSE b \in free : TRUE
    <3>1. r \in Request
      BY <2>2, QueueTypes DEF EnsureAllocate, TypeOK
    <3>2. {b} \in SUBSET free
      BY <2>2 DEF EnsureAllocate
    <3>3. TakeBlocks(r, {b})
      BY <2>2, <3>2 DEF EnsureAllocate, TakeBlocks
    <3> QED
      BY <3>1, <3>2, <3>3 DEF MovesBlocks
  <2>3. CASE Preempt
    BY <2>3, QueueTypes DEF Preempt, MovesBlocks
  <2>4. CASE BeginSchedule \/ AssignChunk \/ AssignDone \/ PromoteDone
             \/ EnsureNext \/ EnsureDone
    BY <2>4 DEF BeginSchedule, AssignChunk, AssignDone, PromoteDone, EnsureNext,
                EnsureDone, MovesBlocks
  <2> QED
    BY <1>4, <2>1, <2>2, <2>3, <2>4 DEF Schedule
<1>5. CASE (\E eos \in SUBSET Batch : RunnerStep(eos)) \/ RunnerFail
  BY <1>5 DEF RunnerStep, RunnerFail, MovesBlocks
<1>6. CASE AdvancePrefill \/ AdvanceDone
  BY <1>6 DEF AdvancePrefill, AdvanceDone, MovesBlocks
<1>7. CASE FinishSeq
  <2>1. DOMAIN finished \subseteq Request
    BY DEF TypeOK
  <2> QED
    BY <1>7, <2>1 DEF FinishSeq, Finish, MovesBlocks
<1>8. CASE FinishDone \/ TakeResult
  BY <1>8 DEF FinishDone, TakeResult, MovesBlocks
<1> QED
  BY <1>1, <1>2, <1>3, <1>4, <1>5, <1>6, <1>7, <1>8 DEF Next, Step

\* None of these ways shares, loses or duplicates a block.
LEMMA MovesKeepPartition ==
  ASSUME TypeOK, BlocksPartitioned, MovesBlocks
  PROVE  BlocksPartitioned'
<1>1. ASSUME NEW r \in Request, NEW B \in SUBSET free, TakeBlocks(r, B)
      PROVE  BlocksPartitioned'
  <2>1. \A s \in Request : blocks'[s] = IF s = r THEN blocks[s] \cup B ELSE blocks[s]
    BY <1>1 DEF TakeBlocks, TypeOK
  <2>2. free' = free \ B /\ B \subseteq free
    BY <1>1 DEF TakeBlocks
  <2>3. \A s \in Request : blocks[s] \cap free = {}
    BY DEF BlocksPartitioned
  <2>4. \A s, t \in Request : s # t => blocks'[s] \cap blocks'[t] = {}
    BY <2>1, <2>2, <2>3 DEF BlocksPartitioned
  <2>5. \A s \in Request : blocks'[s] \cap free' = {}
    BY <2>1, <2>2, <2>3
  <2>6. UNION {blocks'[s] : s \in Request} = B \cup UNION {blocks[s] : s \in Request}
    BY <2>1
  <2>7. free' \cup UNION {blocks'[s] : s \in Request} = Block
    BY <2>2, <2>6 DEF BlocksPartitioned
  <2> QED
    BY <2>4, <2>5, <2>7 DEF BlocksPartitioned
<1>2. ASSUME NEW r \in Request, ReturnBlocks(r) PROVE BlocksPartitioned'
  <2>1. \A s \in Request : blocks'[s] = IF s = r THEN {} ELSE blocks[s]
    BY <1>2 DEF ReturnBlocks, TypeOK
  <2>2. free' = free \cup blocks[r]
    BY <1>2 DEF ReturnBlocks
  <2> QED
    BY <2>1, <2>2 DEF BlocksPartitioned
<1>3. CASE UNCHANGED <<blocks, free>>
  BY <1>3 DEF BlocksPartitioned
<1> QED
  BY <1>1, <1>2, <1>3 DEF MovesBlocks

\* Each of these ways is a step the block pool allows, or none.
LEMMA MovesArePoolSteps ==
  ASSUME TypeOK, BlocksPartitioned, MovesBlocks
  PROVE  [Pool!PoolNext]_(Pool!poolVars)
<1>1. ASSUME NEW r \in Request, NEW B \in SUBSET free, TakeBlocks(r, B)
      PROVE  [Pool!PoolNext]_(Pool!poolVars)
  <2>1. CASE B = {}
    <3>1. free' = free /\ blocks' = blocks
      BY <1>1, <2>1 DEF TakeBlocks, TypeOK
    <3> QED
      BY <3>1 DEF Pool!poolVars
  <2>2. CASE B # {}
    BY <1>1, <2>2 DEF TakeBlocks, Pool!PoolNext, Pool!Acquire
  <2> QED
    BY <2>1, <2>2
<1>2. ASSUME NEW r \in Request, ReturnBlocks(r)
      PROVE  [Pool!PoolNext]_(Pool!poolVars)
  <2>1. \A s \in Request : blocks'[s] = IF s = r THEN {} ELSE blocks[s]
    BY <1>2 DEF ReturnBlocks, TypeOK
  <2>2. blocks' \in [Request -> SUBSET Block]
    BY <1>2 DEF ReturnBlocks, TypeOK
  <2>3. {b \in Block : /\ \E s \in Request : b \in blocks[s]
                       /\ \A s \in Request : b \notin blocks'[s]} = blocks[r]
    <3>1. \A s \in Request : blocks[s] \subseteq Block
      BY DEF TypeOK
    <3>2. \A s \in Request : s # r => blocks[r] \cap blocks[s] = {}
      BY DEF BlocksPartitioned
    <3> QED
      BY <2>1, <3>1, <3>2
  <2>4. free' = free \cup blocks[r]
    BY <1>2 DEF ReturnBlocks
  <2>5. \A s \in Request : blocks'[s] \subseteq blocks[s]
    BY <2>1
  <2>6. Pool!Release
    BY <2>2, <2>3, <2>4, <2>5 DEF Pool!Release
  <2> QED
    BY <2>6 DEF Pool!PoolNext
<1>3. CASE UNCHANGED <<blocks, free>>
  BY <1>3 DEF Pool!poolVars
<1> QED
  BY <1>1, <1>2, <1>3 DEF MovesBlocks

\* The pool starts whole and free.
LEMMA InitPartition == Init => BlocksPartitioned /\ Pool!PoolInit
BY DEF Init, SchedInit, BlocksPartitioned, Pool!PoolInit

\* No KV block is ever held by two requests, held while free, or lost, through
\* any sequence of promotions, preemptions, cancels, ends and model errors.
THEOREM EngineBlocksSafe == Spec => []BlocksPartitioned
<1>1. TypeOK /\ BlocksPartitioned /\ [Next]_vars => BlocksPartitioned'
  BY NextMovesBlocks, MovesKeepPartition
<1> QED
  BY <1>1, InitPartition, EngineTypeCorrect, PTL DEF Spec

\* The engine treats blocks as the pool of BlockPool.tla lets its owners.
THEOREM EngineImplementsPool == Spec => ImplementsPool
<1>1. TypeOK /\ BlocksPartitioned /\ [Next]_vars => [Pool!PoolNext]_(Pool!poolVars)
  BY NextMovesBlocks, MovesArePoolSteps
<1> QED
  BY <1>1, InitPartition, EngineTypeCorrect, EngineBlocksSafe, PTL
     DEF Spec, ImplementsPool, Pool!PoolSpec

\* The property the runs check: the types and the partition together.
THEOREM EngineSafe == Spec => []BlocksSafe
<1>1. TypeOK /\ BlocksPartitioned => BlocksSafe
  BY DEF BlocksSafe
<1> QED
  BY <1>1, EngineTypeCorrect, EngineBlocksSafe, PTL
-----------------------------------------------------------------------------
(* The members of a queue that is edited *)

\* Nobody is in a queue twice.
Distinct(q) == \A i, j \in 1 .. Len(q) : q[i] = q[j] => i = j

\* The positions up to n are n.
LEMMA FirstPositions ==
  ASSUME NEW n \in Nat
  PROVE  IsFiniteSet(1 .. n) /\ Cardinality(1 .. n) = n
BY FS_Interval

\* A queue without repetition has as many members as entries.
LEMMA DistinctLength ==
  ASSUME NEW q \in Seq(Request), Distinct(q)
  PROVE  IsFiniteSet(Members(q)) /\ Cardinality(Members(q)) = Len(q)
<1>1. Len(q) \in Nat /\ \A i \in 1 .. Len(q) : q[i] \in Request
  BY LenProperties, ElementOfSeq
<1> DEFINE f == [i \in 1 .. Len(q) |-> q[i]]
<1>2. f \in [1 .. Len(q) -> Members(q)]
  BY DEF Members
<1>3. \A i, j \in 1 .. Len(q) : f[i] = f[j] => i = j
  BY DEF Distinct
<1>4. \A r \in Members(q) : \E i \in 1 .. Len(q) : f[i] = r
  BY DEF Members
<1>5. f \in Bijection(1 .. Len(q), Members(q))
  <2> HIDE DEF f
  <2>1. f \in Injection(1 .. Len(q), Members(q))
    BY <1>2, <1>3 DEF Injection, IsInjective
  <2>2. f \in Surjection(1 .. Len(q), Members(q))
    BY <1>2, <1>4 DEF Surjection
  <2> QED
    BY <2>1, <2>2 DEF Bijection
<1>6. IsFiniteSet(1 .. Len(q)) /\ Cardinality(1 .. Len(q)) = Len(q)
  BY <1>1, FirstPositions
<1> QED
  BY <1>5, <1>6, FS_Bijection DEF ExistsBijection

\* Removing a position removes its request, and nobody else.
LEMMA WithoutMembers ==
  ASSUME NEW q \in Seq(Request), Distinct(q), NEW i \in 1 .. Len(q)
  PROVE  /\ Len(Without(q, i)) = Len(q) - 1
         /\ Members(Without(q, i)) = Members(q) \ {q[i]}
         /\ Distinct(Without(q, i))
<1> DEFINE w == Without(q, i)
<1>1. Len(q) \in Nat /\ i \in Nat /\ i >= 1 /\ i <= Len(q)
  BY LenProperties
<1>2. w \in Seq(Request)
  BY WithoutType
<1>3. Len(w) \in Nat /\ DOMAIN w = 1 .. Len(w) /\ DOMAIN w = 1 .. Len(q) - 1
  BY <1>2, LenProperties DEF Without
<1>4. Len(w) = Len(q) - 1
  BY <1>1, <1>3
<1>5. \A j \in 1 .. Len(w) : w[j] = IF j < i THEN q[j] ELSE q[j + 1]
  BY <1>1, <1>4 DEF Without
<1>6. Members(w) \subseteq Members(q) \ {q[i]}
  <2> SUFFICES ASSUME NEW j \in 1 .. Len(w) PROVE w[j] \in Members(q) \ {q[i]}
    BY DEF Members
  <2>1. PICK k \in 1 .. Len(q) : w[j] = q[k] /\ k # i
    <3>1. CASE j < i
      BY <1>1, <1>4, <1>5, <3>1
    <3>2. CASE ~ (j < i)
      <4>1. j + 1 \in 1 .. Len(q) /\ j + 1 # i
        BY <1>1, <1>4, <3>2
      <4> QED
        BY <1>5, <3>2, <4>1
    <3> QED
      BY <3>1, <3>2
  <2> QED
    BY <2>1 DEF Members, Distinct
<1>7. Members(q) \ {q[i]} \subseteq Members(w)
  <2> SUFFICES ASSUME NEW k \in 1 .. Len(q), k # i PROVE \E j \in 1 .. Len(w) : w[j] = q[k]
    BY DEF Members
  <2>1. CASE k < i
    BY <1>1, <1>4, <1>5, <2>1
  <2>2. CASE k > i
    <3>1. k - 1 \in 1 .. Len(w) /\ ~ (k - 1 < i) /\ (k - 1) + 1 = k
      BY <1>1, <1>4, <2>2
    <3> QED
      BY <1>5, <3>1
  <2> QED
    BY <1>1, <2>1, <2>2
<1>8. Distinct(w)
  <2> SUFFICES ASSUME NEW j \in 1 .. Len(w), NEW k \in 1 .. Len(w), w[j] = w[k] PROVE j = k
    BY DEF Distinct
  <2> DEFINE up(n) == IF n < i THEN n ELSE n + 1
  <2>1. up(j) \in 1 .. Len(q) /\ up(k) \in 1 .. Len(q)
    BY <1>1, <1>4
  <2>2. w[j] = q[up(j)] /\ w[k] = q[up(k)]
    BY <1>5
  <2>3. up(j) = up(k)
    BY <2>1, <2>2 DEF Distinct
  <2> QED
    BY <1>1, <1>4, <2>3
<1> QED
  BY <1>4, <1>6, <1>7, <1>8

\* Inserting a request adds it, and nobody else.
LEMMA InsertMembers ==
  ASSUME NEW q \in Seq(Request), Distinct(q), NEW i \in 1 .. Len(q) + 1,
         NEW r \in Request, r \notin Members(q)
  PROVE  /\ Len(Insert(q, i, r)) = Len(q) + 1
         /\ Members(Insert(q, i, r)) = Members(q) \cup {r}
         /\ Distinct(Insert(q, i, r))
<1> DEFINE w == Insert(q, i, r)
<1>1. Len(q) \in Nat /\ i \in Nat /\ i >= 1 /\ i <= Len(q) + 1
  BY LenProperties
<1>2. w \in Seq(Request)
  BY InsertType
<1>3. Len(w) \in Nat /\ DOMAIN w = 1 .. Len(w) /\ DOMAIN w = 1 .. Len(q) + 1
  BY <1>2, LenProperties DEF Insert
<1>4. Len(w) = Len(q) + 1
  <2> DEFINE n == Len(w)
             m == Len(q) + 1
             d == DOMAIN w
  <2>0. n \in Nat /\ m \in Nat
    BY <1>1, <1>3
  <2>1. d = 1 .. n /\ d = 1 .. m
    BY <1>3
  <2> HIDE DEF n, m, d
  <2>2. n = m
    BY <2>0, <2>1
  <2> QED
    BY <2>2 DEF n, m
<1>5. \A j \in 1 .. Len(w) : w[j] = IF j < i THEN q[j] ELSE IF j = i THEN r ELSE q[j - 1]
  BY <1>1, <1>4 DEF Insert
<1>6. \A j \in 1 .. Len(w) : j # i =>
        (IF j < i THEN j ELSE j - 1) \in 1 .. Len(q) /\ w[j] = q[IF j < i THEN j ELSE j - 1]
  BY <1>1, <1>4, <1>5
<1>7. i \in 1 .. Len(w) /\ w[i] = r
  BY <1>1, <1>4, <1>5
<1>8. Members(w) \subseteq Members(q) \cup {r}
  BY <1>6, <1>7 DEF Members
<1>9. \A k \in 1 .. Len(q) : \E j \in 1 .. Len(w) : w[j] = q[k]
  <2> SUFFICES ASSUME NEW k \in 1 .. Len(q) PROVE \E j \in 1 .. Len(w) : w[j] = q[k]
    OBVIOUS
  <2>1. CASE k < i
    BY <1>1, <1>4, <1>5, <2>1
  <2>2. CASE ~ (k < i)
    <3>1. k + 1 \in 1 .. Len(w) /\ ~ (k + 1 < i) /\ k + 1 # i /\ (k + 1) - 1 = k
      BY <1>1, <1>4, <2>2
    <3> QED
      BY <1>5, <3>1
  <2> QED
    BY <2>1, <2>2
<1>10. Members(q) \cup {r} \subseteq Members(w)
  BY <1>7, <1>9 DEF Members
<1>11. Distinct(w)
  <2> SUFFICES ASSUME NEW j \in 1 .. Len(w), NEW k \in 1 .. Len(w), w[j] = w[k] PROVE j = k
    BY DEF Distinct
  <2> DEFINE down(n) == IF n < i THEN n ELSE n - 1
  <2>1. j # i => down(j) \in 1 .. Len(q) /\ w[j] = q[down(j)]
    BY <1>6
  <2>2. k # i => down(k) \in 1 .. Len(q) /\ w[k] = q[down(k)]
    BY <1>6
  <2>3. CASE j = i /\ k # i
    BY <1>7, <2>2, <2>3 DEF Members
  <2>4. CASE j # i /\ k = i
    BY <1>7, <2>1, <2>4 DEF Members
  <2>5. CASE j # i /\ k # i
    <3>1. down(j) = down(k)
      BY <2>1, <2>2, <2>5 DEF Distinct
    <3> QED
      BY <1>1, <1>4, <2>5, <3>1
  <2> QED
    BY <2>3, <2>4, <2>5
<1> QED
  BY <1>4, <1>8, <1>10, <1>11

\* So does appending one.
LEMMA AppendMembers ==
  ASSUME NEW q \in Seq(Request), Distinct(q), NEW r \in Request, r \notin Members(q)
  PROVE  /\ Len(Append(q, r)) = Len(q) + 1
         /\ Members(Append(q, r)) = Members(q) \cup {r}
         /\ Distinct(Append(q, r))
<1> DEFINE w == Append(q, r)
<1>1. Len(q) \in Nat
  BY LenProperties
<1>2. /\ Len(w) = Len(q) + 1
      /\ \A j \in 1 .. Len(q) : w[j] = q[j]
      /\ w[Len(q) + 1] = r
  BY AppendProperties
<1>3. Members(w) = Members(q) \cup {r}
  BY <1>1, <1>2 DEF Members
<1>4. Distinct(w)
  BY <1>1, <1>2 DEF Distinct, Members
<1> QED
  BY <1>2, <1>3, <1>4

\* Taking the head takes the head.
LEMMA TailMembers ==
  ASSUME NEW q \in Seq(Request), Distinct(q), q # <<>>
  PROVE  /\ Len(Tail(q)) = Len(q) - 1
         /\ Head(q) \in Members(q)
         /\ Members(Tail(q)) = Members(q) \ {Head(q)}
         /\ Distinct(Tail(q))
<1> DEFINE w == Tail(q)
<1>1. Len(q) \in Nat /\ Len(q) >= 1
  BY EmptySeq, LenProperties
<1>2. Len(w) = Len(q) - 1 /\ \A j \in 1 .. Len(w) : w[j] = q[j + 1]
  BY HeadTailProperties
<1>3. Head(q) = q[1]
  BY <1>1
<1>4. Members(w) = Members(q) \ {q[1]}
  <2>1. Members(w) \subseteq Members(q) \ {q[1]}
    <3> SUFFICES ASSUME NEW j \in 1 .. Len(w) PROVE w[j] \in Members(q) \ {q[1]}
      BY DEF Members
    <3>1. j + 1 \in 1 .. Len(q) /\ 1 \in 1 .. Len(q) /\ j + 1 # 1
      BY <1>1, <1>2
    <3> QED
      BY <1>2, <3>1 DEF Members, Distinct
  <2>2. Members(q) \ {q[1]} \subseteq Members(w)
    <3> SUFFICES ASSUME NEW k \in 1 .. Len(q), k # 1 PROVE \E j \in 1 .. Len(w) : w[j] = q[k]
      BY DEF Members
    <3>1. k - 1 \in 1 .. Len(w) /\ (k - 1) + 1 = k
      BY <1>1, <1>2
    <3> QED
      BY <1>2, <3>1
  <2> QED
    BY <2>1, <2>2
<1>5. Distinct(w)
  <2> SUFFICES ASSUME NEW j \in 1 .. Len(w), NEW k \in 1 .. Len(w), w[j] = w[k] PROVE j = k
    BY DEF Distinct
  <2>1. j + 1 \in 1 .. Len(q) /\ k + 1 \in 1 .. Len(q)
    BY <1>1, <1>2
  <2>2. j + 1 = k + 1
    BY <1>2, <2>1 DEF Distinct
  <2> QED
    BY <1>1, <1>2, <2>2
<1>6. Head(q) \in Members(q)
  BY <1>1, <1>3 DEF Members
<1> QED
  BY <1>2, <1>3, <1>4, <1>5, <1>6

-----------------------------------------------------------------------------
(* Which queue a request is in *)

\* A request is in one queue at most, once, and the running ones fit.
QueuesApart ==
  /\ Distinct(waiting) /\ Distinct(prefilling) /\ Distinct(decoding)
  /\ Members(waiting) \cap Members(prefilling) = {}
  /\ Members(waiting) \cap Members(decoding) = {}
  /\ Members(prefilling) \cap Members(decoding) = {}
  /\ Len(prefilling) + Len(decoding) <= max_num_seqs

\* The waiting list is in (priority, arrival) order.
WaitingInOrder ==
  \A i, j \in 1 .. Len(waiting) : i < j => NotAfter(seq[waiting[i]], seq[waiting[j]])

\* Position at which a sequence with key s joins the waiting list.
Place(s) == 1 + Cardinality({i \in 1 .. Len(waiting) : NotAfter(seq[waiting[i]], s)})

\* The order is total and transitive.
LEMMA OrderOfKeys ==
  ASSUME NEW s \in Sequence, NEW t \in Sequence, NEW u \in Sequence
  PROVE  /\ NotAfter(s, t) \/ NotAfter(t, s)
         /\ NotAfter(s, t) /\ NotAfter(t, u) => NotAfter(s, u)
<1>1. /\ s.priority \in Nat /\ t.priority \in Nat /\ u.priority \in Nat
      /\ s.arrival \in Nat /\ t.arrival \in Nat /\ u.arrival \in Nat
  BY DEF Sequence
<1> QED
  BY <1>1 DEF NotAfter

\* That position is where it belongs: everything before it sorts before it, and it
\* sorts before everything from there on.
LEMMA PlaceInOrder ==
  ASSUME TypeOK, WaitingInOrder, NEW s \in Sequence
  PROVE  /\ Place(s) \in 1 .. Len(waiting) + 1
         /\ \A i \in 1 .. Len(waiting) :
              IF i < Place(s) THEN NotAfter(seq[waiting[i]], s)
                              ELSE NotAfter(s, seq[waiting[i]])
<1> DEFINE n == Len(waiting)
           before == {i \in 1 .. n : NotAfter(seq[waiting[i]], s)}
           c == Cardinality(before)
<1>1. n \in Nat /\ \A i \in 1 .. n : waiting[i] \in Request /\ seq[waiting[i]] \in Sequence
  BY QueueTypes DEF TypeOK
<1>2. IsFiniteSet(1 .. n) /\ Cardinality(1 .. n) = n
  <2>1. n \in Nat
    BY <1>1
  <2> HIDE DEF n
  <2> QED
    BY <2>1, FirstPositions
<1>3. IsFiniteSet(before) /\ c \in Nat /\ c <= n
  <2>1. before \in SUBSET (1 .. n)
    OBVIOUS
  <2>2. IsFiniteSet(before) /\ c <= Cardinality(1 .. n)
    BY <1>2, <2>1, FS_Subset
  <2> QED
    BY <1>2, <2>2, FS_CardinalityType
<1>4. \A i \in before : \A j \in 1 .. i : j \in before
  <2> SUFFICES ASSUME NEW i \in before, NEW j \in 1 .. i PROVE j \in before
    OBVIOUS
  <2>1. i \in 1 .. n /\ j \in 1 .. n /\ j <= i
    BY <1>1
  <2>2. NotAfter(seq[waiting[j]], seq[waiting[i]])
    <3>1. CASE j = i
      <4>1. seq[waiting[i]].arrival \in Nat
        BY <1>1, <2>1 DEF Sequence
      <4> QED
        BY <3>1, <4>1 DEF NotAfter
    <3>2. CASE j # i
      <4>1. j < i
        BY <1>1, <2>1, <3>2
      <4> QED
        BY <2>1, <4>1 DEF WaitingInOrder
    <3> QED
      BY <3>1, <3>2
  <2>3. NotAfter(seq[waiting[i]], s)
    OBVIOUS
  <2>4. NotAfter(seq[waiting[j]], s)
    BY <1>1, <2>1, <2>2, <2>3, OrderOfKeys
  <2> QED
    BY <2>1, <2>4
<1>5. before \subseteq 1 .. c
  <2> SUFFICES ASSUME NEW i \in before, ~ (i <= c) PROVE FALSE
    BY <1>1, <1>3
  <2>1. i \in Nat /\ 1 <= i /\ 1 .. i \in SUBSET before
    BY <1>1, <1>4
  <2>2. Cardinality(1 .. i) = i
    <3>1. 1 \in Int /\ i \in Int /\ ~ (1 > i)
      BY <2>1
    <3>2. Cardinality(1 .. i) = i - 1 + 1
      BY <3>1, FS_Interval
    <3> QED
      BY <2>1, <3>2
  <2>3. Cardinality(1 .. i) <= c
    BY <1>3, <2>1, FS_Subset
  <2> QED
    BY <1>3, <2>1, <2>2, <2>3
<1>6. before = 1 .. c
  <2>1. IsFiniteSet(1 .. c) /\ Cardinality(1 .. c) = c
    BY <1>3, FS_Interval
  <2> QED
    BY <1>5, <2>1, FS_Subset
<1>7. Place(s) = 1 + c
  BY DEF Place
<1>8. \A i \in 1 .. n : i < Place(s) => NotAfter(seq[waiting[i]], s)
  <2> SUFFICES ASSUME NEW i \in 1 .. n, i < Place(s) PROVE i \in before
    OBVIOUS
  <2> HIDE DEF before
  <2> QED
    BY <1>1, <1>3, <1>6, <1>7
<1>9. \A i \in 1 .. n : ~ (i < Place(s)) => NotAfter(s, seq[waiting[i]])
  <2> SUFFICES ASSUME NEW i \in 1 .. n, ~ (i < Place(s)) PROVE NotAfter(s, seq[waiting[i]])
    OBVIOUS
  <2>1. i \notin before
    <3> HIDE DEF before
    <3> QED
      BY <1>1, <1>3, <1>6, <1>7
  <2> QED
    BY <1>1, <2>1, OrderOfKeys
<1> QED
  BY <1>1, <1>3, <1>7, <1>8, <1>9

\* Inserting there keeps the order, if the keys of those who wait stay what they
\* are and the newcomer's is the one it was inserted by.
LEMMA InsertKeepsOrder ==
  ASSUME TypeOK, QueuesApart, WaitingInOrder, NEW r \in Request, r \notin Members(waiting),
         NEW s \in Sequence, waiting' = InsertWaiting(r, s), seq' = [seq EXCEPT ![r] = s]
  PROVE  /\ Members(waiting)' = Members(waiting) \cup {r}
         /\ Distinct(waiting)'
         /\ WaitingInOrder'
<1>1. waiting \in Seq(Request) /\ Distinct(waiting)
  BY DEF TypeOK, QueuesApart
<1>2. waiting' = Insert(waiting, Place(s), r)
  BY DEF InsertWaiting, Place
<1>3. /\ Place(s) \in 1 .. Len(waiting) + 1
      /\ \A i \in 1 .. Len(waiting) :
           IF i < Place(s) THEN NotAfter(seq[waiting[i]], s)
                           ELSE NotAfter(s, seq[waiting[i]])
  BY PlaceInOrder
<1>4. /\ Len(waiting') = Len(waiting) + 1
      /\ Members(waiting') = Members(waiting) \cup {r}
      /\ Distinct(waiting')
  BY <1>1, <1>2, <1>3, InsertMembers
<1>5. \A j \in 1 .. Len(waiting') :
        waiting'[j] = IF j < Place(s) THEN waiting[j]
                      ELSE IF j = Place(s) THEN r ELSE waiting[j - 1]
  BY <1>2, <1>4 DEF Insert
<1>6. Len(waiting) \in Nat /\ \A i \in 1 .. Len(waiting) :
        waiting[i] \in Request /\ waiting[i] # r
  BY QueueTypes DEF Members
<1>7. \A i \in 1 .. Len(waiting) : seq'[waiting[i]] = seq[waiting[i]]
  BY <1>6 DEF TypeOK
<1>8. seq'[r] = s
  BY DEF TypeOK
<1>9. WaitingInOrder'
  <2> SUFFICES ASSUME NEW i \in 1 .. Len(waiting'), NEW j \in 1 .. Len(waiting'), i < j
               PROVE  NotAfter(seq'[waiting'[i]], seq'[waiting'[j]])
    BY DEF WaitingInOrder
  <2> DEFINE down(n) == IF n < Place(s) THEN n ELSE n - 1
  <2>1. i # Place(s) => down(i) \in 1 .. Len(waiting) /\ waiting'[i] = waiting[down(i)]
    BY <1>3, <1>4, <1>5, <1>6
  <2>2. j # Place(s) => down(j) \in 1 .. Len(waiting) /\ waiting'[j] = waiting[down(j)]
    BY <1>3, <1>4, <1>5, <1>6
  <2>3. CASE i = Place(s)
    <3>1. ~ (down(j) < Place(s)) /\ j # Place(s)
      BY <1>3, <1>4, <1>6, <2>3
    <3>2. NotAfter(s, seq[waiting[down(j)]])
      BY <1>3, <2>2, <3>1
    <3>3. waiting'[i] = r
      BY <1>5, <2>3
    <3> QED
      BY <1>7, <1>8, <2>2, <3>1, <3>2, <3>3
  <2>4. CASE j = Place(s)
    <3>1. down(i) < Place(s) /\ i # Place(s)
      BY <1>3, <1>4, <1>6, <2>4
    <3>2. NotAfter(seq[waiting[down(i)]], s)
      BY <1>3, <2>1, <3>1
    <3>3. waiting'[j] = r
      BY <1>5, <2>4
    <3> QED
      BY <1>7, <1>8, <2>1, <3>1, <3>2, <3>3
  <2>5. CASE i # Place(s) /\ j # Place(s)
    <3>1. down(i) < down(j)
      BY <1>3, <1>4, <1>6, <2>5
    <3>2. NotAfter(seq[waiting[down(i)]], seq[waiting[down(j)]])
      BY <2>1, <2>2, <2>5, <3>1 DEF WaitingInOrder
    <3> QED
      BY <1>7, <2>1, <2>2, <2>5, <3>2
  <2> QED
    BY <2>3, <2>4, <2>5
<1> QED
  BY <1>4, <1>9

\* Those who wait on have the keys they had.
KeysKept ==
  \A r \in Members(waiting)' :
    seq'[r].priority = seq[r].priority /\ seq'[r].arrival = seq[r].arrival

\* The order does not depend on anything else, and leaving keeps it.
LEMMA LeavingKeepsOrder ==
  ASSUME TypeOK, QueuesApart, WaitingInOrder, KeysKept,
         \/ waiting' = waiting
         \/ waiting # <<>> /\ waiting' = Tail(waiting)
         \/ \E k \in 1 .. Len(waiting) : waiting' = Without(waiting, k)
  PROVE  WaitingInOrder'
<1>1. waiting \in Seq(Request) /\ Distinct(waiting) /\ Len(waiting) \in Nat
  BY QueueTypes DEF TypeOK, QueuesApart
<1>2. \A i, j \in 1 .. Len(waiting') :
        NotAfter(seq[waiting'[i]], seq[waiting'[j]])
          => NotAfter(seq'[waiting'[i]], seq'[waiting'[j]])
  BY DEF KeysKept, Members, NotAfter
<1>3. CASE waiting' = waiting
  BY <1>2, <1>3 DEF WaitingInOrder
<1>4. CASE waiting # <<>> /\ waiting' = Tail(waiting)
  <2>1. Len(waiting') = Len(waiting) - 1
        /\ \A i \in 1 .. Len(waiting') : waiting'[i] = waiting[i + 1]
    BY <1>1, <1>4, HeadTailProperties
  <2> SUFFICES ASSUME NEW i \in 1 .. Len(waiting'), NEW j \in 1 .. Len(waiting'), i < j
               PROVE  NotAfter(seq[waiting'[i]], seq[waiting'[j]])
    BY <1>2 DEF WaitingInOrder
  <2>2. i + 1 \in 1 .. Len(waiting) /\ j + 1 \in 1 .. Len(waiting) /\ i + 1 < j + 1
    BY <1>1, <2>1
  <2> QED
    BY <2>1, <2>2 DEF WaitingInOrder
<1>5. ASSUME NEW k \in 1 .. Len(waiting), waiting' = Without(waiting, k)
      PROVE  WaitingInOrder'
  <2>1. Len(waiting') = Len(waiting) - 1
    BY <1>1, <1>5, WithoutMembers
  <2>2. \A i \in 1 .. Len(waiting') :
          waiting'[i] = IF i < k THEN waiting[i] ELSE waiting[i + 1]
    BY <1>5, <2>1 DEF Without
  <2> SUFFICES ASSUME NEW i \in 1 .. Len(waiting'), NEW j \in 1 .. Len(waiting'), i < j
               PROVE  NotAfter(seq[waiting'[i]], seq[waiting'[j]])
    BY <1>2 DEF WaitingInOrder
  <2> DEFINE up(n) == IF n < k THEN n ELSE n + 1
  <2>3. up(i) \in 1 .. Len(waiting) /\ up(j) \in 1 .. Len(waiting) /\ up(i) < up(j)
    BY <1>1, <2>1
  <2>4. waiting'[i] = waiting[up(i)] /\ waiting'[j] = waiting[up(j)]
    BY <2>2
  <2> QED
    BY <2>3, <2>4 DEF WaitingInOrder
<1> QED
  BY <1>3, <1>4, <1>5

\* A request that leaves a queue by name leaves it, and only it does.
LEMMA LeaveQueue ==
  ASSUME NEW q \in Seq(Request), Distinct(q), NEW r \in Members(q)
  PROVE  /\ IndexIn(q, r) \in 1 .. Len(q)
         /\ Len(Without(q, IndexIn(q, r))) = Len(q) - 1
         /\ Members(Without(q, IndexIn(q, r))) = Members(q) \ {r}
         /\ Distinct(Without(q, IndexIn(q, r)))
BY IndexInRange, WithoutMembers

\* finish takes the request out of the queue it runs in.
LEMMA FinishQueues ==
  ASSUME TypeOK, QueuesApart, WaitingInOrder, NEW r \in Request, Finish(r)
  PROVE  /\ QueuesApart' /\ WaitingInOrder'
         /\ r \in Running /\ waiting' = waiting
         /\ Members(prefilling)' = Members(prefilling) \ {r}
         /\ Members(decoding)' = Members(decoding) \ {r}
<1>1. prefilling \in Seq(Request) /\ decoding \in Seq(Request)
  BY DEF TypeOK
<1>2. Distinct(prefilling) /\ Distinct(decoding)
  BY DEF QueuesApart
<1>3. waiting' = waiting /\ seq' = [seq EXCEPT ![r] = NoSequence]
  BY DEF Finish
<1>4. /\ r \in Running
      /\ Members(prefilling') = Members(prefilling) \ {r}
      /\ Members(decoding') = Members(decoding) \ {r}
      /\ Distinct(prefilling') /\ Distinct(decoding')
      /\ Len(prefilling') + Len(decoding') <= max_num_seqs
  <2>0. /\ Len(prefilling) \in Nat /\ Len(decoding) \in Nat /\ max_num_seqs \in Nat
        /\ Len(prefilling) + Len(decoding) <= max_num_seqs
    BY QueueTypes, SchedulerAssumption DEF QueuesApart
  <2>1. CASE r \in Members(prefilling) /\ prefilling' = Without(prefilling, IndexIn(prefilling, r))
             /\ decoding' = decoding
    <3>1. /\ Len(prefilling') = Len(prefilling) - 1
          /\ Members(prefilling') = Members(prefilling) \ {r} /\ Distinct(prefilling')
      BY <1>1, <1>2, <2>1, LeaveQueue
    <3>2. r \notin Members(decoding)
      BY <2>1 DEF QueuesApart
    <3>3. Len(prefilling') + Len(decoding') <= max_num_seqs
      BY <2>0, <2>1, <3>1
    <3> QED
      BY <1>2, <2>1, <3>1, <3>2, <3>3 DEF Running
  <2>2. CASE r \in Members(decoding) \ Members(prefilling) /\ prefilling' = prefilling
             /\ decoding' = Without(decoding, IndexIn(decoding, r))
    <3>1. /\ Len(decoding') = Len(decoding) - 1
          /\ Members(decoding') = Members(decoding) \ {r} /\ Distinct(decoding')
      BY <1>1, <1>2, <2>2, LeaveQueue
    <3>2. Len(prefilling') + Len(decoding') <= max_num_seqs
      BY <2>0, <2>2, <3>1
    <3> QED
      BY <1>2, <2>2, <3>1, <3>2 DEF Running
  <2> QED
    BY <2>1, <2>2 DEF Finish
<1>5. QueuesApart'
  BY <1>3, <1>4 DEF QueuesApart
<1>6. r \notin Members(waiting)
  BY <1>4 DEF QueuesApart, Running
<1>7. KeysKept
  BY <1>3, <1>6 DEF KeysKept, TypeOK
<1>8. WaitingInOrder'
  BY <1>3, <1>7, LeavingKeepsOrder
<1> QED
  BY <1>3, <1>4, <1>5, <1>8

\* A cancelled request leaves whichever queue it is in.
LEMMA CancelQueues ==
  ASSUME TypeOK, QueuesApart, WaitingInOrder, NEW r \in Request, CancelSeq(r)
  PROVE  /\ QueuesApart' /\ WaitingInOrder' /\ r \in Live
         /\ Members(waiting)' = Members(waiting) \ {r}
         /\ Members(prefilling)' = Members(prefilling) \ {r}
         /\ Members(decoding)' = Members(decoding) \ {r}
<1>1. CASE CancelWaiting(r)
  <2>1. /\ waiting \in Seq(Request) /\ Distinct(waiting) /\ r \in Members(waiting)
        /\ waiting' = Without(waiting, IndexIn(waiting, r))
        /\ seq' = [seq EXCEPT ![r] = NoSequence]
        /\ prefilling' = prefilling /\ decoding' = decoding
    BY <1>1 DEF CancelWaiting, TypeOK, QueuesApart
  <2>2. IndexIn(waiting, r) \in 1 .. Len(waiting)
        /\ Members(waiting') = Members(waiting) \ {r} /\ Distinct(waiting')
    BY <2>1, LeaveQueue
  <2>3. r \notin Members(prefilling) /\ r \notin Members(decoding)
    BY <2>1 DEF QueuesApart
  <2>4. QueuesApart'
    BY <2>1, <2>2 DEF QueuesApart
  <2>5. KeysKept
    BY <2>1, <2>2, QueueTypes DEF KeysKept, TypeOK
  <2>6. WaitingInOrder'
    BY <2>1, <2>2, <2>5, LeavingKeepsOrder
  <2> QED
    BY <2>1, <2>2, <2>3, <2>4, <2>6 DEF Live
<1>2. CASE Finish(r)
  <2>1. r \notin Members(waiting)
    BY <1>2, FinishQueues DEF QueuesApart, Running
  <2> QED
    BY <1>2, <2>1, FinishQueues DEF Running, Live
<1> QED
  BY <1>1, <1>2 DEF CancelSeq

\* A new request joins the waiting list, in order.
LEMMA AddQueues ==
  ASSUME TypeOK, QueuesApart, WaitingInOrder, NEW r \in Request, r \notin Live,
         NEW prompt \in PromptLen, NEW max_tokens \in MaxTokens, NEW priority \in Priority,
         Add(r, prompt, max_tokens, priority)
  PROVE  /\ QueuesApart' /\ WaitingInOrder'
         /\ Members(waiting)' = Members(waiting) \cup {r}
         /\ prefilling' = prefilling /\ decoding' = decoding
         /\ seq' = [seq EXCEPT ![r] =
                      [NoSequence EXCEPT !.prompt = prompt, !.max_tokens = max_tokens,
                                         !.priority = priority, !.arrival = next_arrival]]
<1> DEFINE s == [NoSequence EXCEPT !.prompt = prompt, !.max_tokens = max_tokens,
                                   !.priority = priority, !.arrival = next_arrival]
<1>1. s \in Sequence
  BY SchedulerAssumption DEF TypeOK, NoSequence, Sequence
<1>2. /\ waiting' = InsertWaiting(r, s) /\ seq' = [seq EXCEPT ![r] = s]
      /\ prefilling' = prefilling /\ decoding' = decoding
  BY DEF Add
<1> HIDE DEF s
<1>3. r \notin Members(waiting)
  BY DEF Live
<1>4. Members(waiting)' = Members(waiting) \cup {r} /\ Distinct(waiting)' /\ WaitingInOrder'
  BY <1>1, <1>2, <1>3, InsertKeepsOrder
<1>5. QueuesApart'
  BY <1>2, <1>4 DEF QueuesApart, Live
<1> QED
  BY <1>2, <1>4, <1>5 DEF s

\* Promotion moves the head of the waiting list to the end of prefilling.
LEMMA PromoteQueues ==
  ASSUME TypeOK, QueuesApart, WaitingInOrder, Promote
  PROVE  LET r == Head(waiting)
         IN  /\ QueuesApart' /\ WaitingInOrder'
             /\ r \in Members(waiting)
             /\ Members(waiting)' = Members(waiting) \ {r}
             /\ Members(prefilling)' = Members(prefilling) \cup {r}
             /\ decoding' = decoding
             /\ \A w \in Members(waiting)' : NotAfter(seq[r], seq[w])
<1> DEFINE r == Head(waiting)
<1>1. /\ waiting # <<>> /\ waiting' = Tail(waiting) /\ decoding' = decoding
      /\ prefilling' = Append(prefilling, r)
      /\ seq' = [seq EXCEPT ![r].chunk_size = NextChunk(seq[r])]
      /\ Len(prefilling) + Len(decoding) < max_num_seqs
  BY DEF Promote, CanPromote
<1>2. /\ waiting \in Seq(Request) /\ prefilling \in Seq(Request)
      /\ Distinct(waiting) /\ Distinct(prefilling)
  BY DEF TypeOK, QueuesApart
<1>3. /\ r \in Members(waiting) /\ Distinct(waiting')
      /\ Members(waiting') = Members(waiting) \ {r}
  BY <1>1, <1>2, TailMembers
<1>4. r \in Request /\ r \notin Members(prefilling) /\ r \notin Members(decoding)
  BY <1>3, QueueTypes DEF QueuesApart
<1>5. /\ Len(prefilling') = Len(prefilling) + 1
      /\ Members(prefilling') = Members(prefilling) \cup {r} /\ Distinct(prefilling')
  BY <1>1, <1>2, <1>4, AppendMembers
<1>6. Len(prefilling') + Len(decoding') <= max_num_seqs
  BY <1>1, <1>5, QueueTypes, SchedulerAssumption
<1>7. QueuesApart'
  BY <1>1, <1>3, <1>4, <1>5, <1>6 DEF QueuesApart
<1>8. KeysKept
  BY <1>1, <1>3, <1>4, QueueTypes DEF KeysKept, TypeOK
<1>9. WaitingInOrder'
  BY <1>1, <1>8, LeavingKeepsOrder
<1>10. \A w \in Members(waiting') : NotAfter(seq[r], seq[w])
  <2> SUFFICES ASSUME NEW i \in 1 .. Len(waiting') PROVE NotAfter(seq[r], seq[waiting'[i]])
    BY DEF Members
  <2>1. Len(waiting) \in Nat /\ Len(waiting') = Len(waiting) - 1 /\ waiting'[i] = waiting[i + 1]
    BY <1>1, <1>2, HeadTailProperties, LenProperties
  <2>2. 1 \in 1 .. Len(waiting) /\ i + 1 \in 1 .. Len(waiting) /\ 1 < i + 1 /\ r = waiting[1]
    BY <2>1
  <2> QED
    BY <2>1, <2>2 DEF WaitingInOrder
<1> QED
  BY <1>1, <1>3, <1>5, <1>7, <1>9, <1>10

\* A preempted request goes from the queue it runs in back to the waiting list.
LEMMA PreemptQueues ==
  ASSUME TypeOK, QueuesApart, WaitingInOrder, Preempt
  PROVE  /\ QueuesApart' /\ WaitingInOrder'
         /\ \E v \in Running :
              /\ v \notin Members(waiting)
              /\ Members(waiting)' = Members(waiting) \cup {v}
              /\ Members(prefilling)' = Members(prefilling) \ {v}
              /\ Members(decoding)' = Members(decoding) \ {v}
              /\ seq' = [seq EXCEPT ![v] = Restarted(seq[v])]
              /\ ReturnBlocks(v)
              /\ preempted' = preempted \cup {v}
<1>1. PICK vi \in 1 .. Len(EnsuredQueue) :
        LET v == EnsuredQueue[vi]
            s == Restarted(seq[v])
        IN  /\ IF phase = "ensure_prefilling"
               THEN prefilling' = Without(prefilling, vi) /\ UNCHANGED decoding
               ELSE decoding' = Without(decoding, vi) /\ UNCHANGED prefilling
            /\ waiting' = InsertWaiting(v, s)
            /\ seq' = [seq EXCEPT ![v] = s]
            /\ ReturnBlocks(v)
            /\ preempted' = preempted \cup {v}
  BY DEF Preempt
<1> DEFINE v == EnsuredQueue[vi]
           s == Restarted(seq[v])
<1>2. /\ prefilling \in Seq(Request) /\ decoding \in Seq(Request)
      /\ Distinct(prefilling) /\ Distinct(decoding)
  BY DEF TypeOK, QueuesApart
<1>3. v \in Request /\ s \in Sequence
  <2>1. v \in Request
    BY QueueTypes
  <2>2. seq[v] \in Sequence
    BY <2>1 DEF TypeOK
  <2> QED
    BY <2>1, <2>2, SequenceUpdates
<1>4. /\ v \in Running
      /\ Members(prefilling') = Members(prefilling) \ {v}
      /\ Members(decoding') = Members(decoding) \ {v}
      /\ Distinct(prefilling') /\ Distinct(decoding')
      /\ Len(prefilling') + Len(decoding') <= max_num_seqs
  <2>0. /\ Len(prefilling) \in Nat /\ Len(decoding) \in Nat /\ max_num_seqs \in Nat
        /\ Len(prefilling) + Len(decoding) <= max_num_seqs
    BY QueueTypes, SchedulerAssumption DEF QueuesApart
  <2>1. CASE phase = "ensure_prefilling"
    <3>1. vi \in 1 .. Len(prefilling) /\ v = prefilling[vi]
          /\ prefilling' = Without(prefilling, vi) /\ decoding' = decoding
      BY <1>1, <2>1 DEF EnsuredQueue
    <3>2. /\ Len(prefilling') = Len(prefilling) - 1
          /\ Members(prefilling') = Members(prefilling) \ {v} /\ Distinct(prefilling')
      BY <1>2, <3>1, WithoutMembers
    <3>3. v \in Members(prefilling) /\ v \notin Members(decoding)
      BY <3>1 DEF Members, QueuesApart
    <3>4. Len(prefilling') + Len(decoding') <= max_num_seqs
      BY <2>0, <3>1, <3>2
    <3> QED
      BY <1>2, <3>1, <3>2, <3>3, <3>4 DEF Running
  <2>2. CASE phase # "ensure_prefilling"
    <3>1. vi \in 1 .. Len(decoding) /\ v = decoding[vi]
          /\ decoding' = Without(decoding, vi) /\ prefilling' = prefilling
      BY <1>1, <2>2 DEF EnsuredQueue
    <3>2. /\ Len(decoding') = Len(decoding) - 1
          /\ Members(decoding') = Members(decoding) \ {v} /\ Distinct(decoding')
      BY <1>2, <3>1, WithoutMembers
    <3>3. v \in Members(decoding) /\ v \notin Members(prefilling)
      BY <3>1 DEF Members, QueuesApart
    <3>4. Len(prefilling') + Len(decoding') <= max_num_seqs
      BY <2>0, <3>1, <3>2
    <3> QED
      BY <1>2, <3>1, <3>2, <3>3, <3>4 DEF Running
  <2> QED
    BY <2>1, <2>2
<1>5. v \notin Members(waiting)
  BY <1>4 DEF QueuesApart, Running
<1>6. waiting' = InsertWaiting(v, s) /\ seq' = [seq EXCEPT ![v] = s]
      /\ ReturnBlocks(v) /\ preempted' = preempted \cup {v}
  BY <1>1
<1> HIDE DEF v, s
<1>7. /\ Members(waiting)' = Members(waiting) \cup {v}
      /\ Distinct(waiting)' /\ WaitingInOrder'
  BY <1>3, <1>5, <1>6, InsertKeepsOrder
<1>8. QueuesApart'
  BY <1>4, <1>7 DEF QueuesApart
<1> QED
  BY <1>4, <1>5, <1>6, <1>7, <1>8 DEF s

\* A prefill that advances stays, or goes to the end of the decoding queue.
LEMMA AdvanceQueues ==
  ASSUME TypeOK, QueuesApart, WaitingInOrder, AdvancePrefill
  PROVE  /\ QueuesApart' /\ WaitingInOrder' /\ waiting' = waiting
         /\ \E r \in prefilled \cap Members(prefilling) :
              LET s == Advanced(seq[r])
              IN  /\ prefilled' = prefilled \ {r}
                  /\ IF s.prefill_pos >= s.prompt
                     THEN /\ Members(prefilling)' = Members(prefilling) \ {r}
                          /\ Members(decoding)' = Members(decoding) \cup {r}
                          /\ seq' = [seq EXCEPT ![r] = [s EXCEPT !.prefill_pending = FALSE]]
                     ELSE /\ Members(prefilling)' = Members(prefilling)
                          /\ Members(decoding)' = Members(decoding)
                          /\ seq' = [seq EXCEPT ![r] = s]
<1>1. PICK i \in 1 .. Len(prefilling) :
        LET r == prefilling[i]
            s == Advanced(seq[r])
        IN  /\ r \in prefilled
            /\ prefilled' = prefilled \ {r}
            /\ IF s.prefill_pos >= s.prompt
               THEN /\ prefilling' = Without(prefilling, i)
                    /\ decoding' = Append(decoding, r)
                    /\ seq' = [seq EXCEPT ![r] = [s EXCEPT !.prefill_pending = FALSE]]
               ELSE /\ seq' = [seq EXCEPT ![r] = s]
                    /\ UNCHANGED <<prefilling, decoding>>
  BY DEF AdvancePrefill
<1>2. waiting' = waiting
  BY DEF AdvancePrefill
<1> DEFINE r == prefilling[i]
           s == Advanced(seq[r])
<1>3. /\ prefilling \in Seq(Request) /\ decoding \in Seq(Request)
      /\ Distinct(prefilling) /\ Distinct(decoding)
  BY DEF TypeOK, QueuesApart
<1>4. r \in Request /\ r \in Members(prefilling)
      /\ r \notin Members(decoding) /\ r \notin Members(waiting)
  <2>1. r \in Request /\ r \in Members(prefilling)
    BY QueueTypes DEF Members
  <2> QED
    BY <2>1 DEF QueuesApart
<1>5. CASE s.prefill_pos >= s.prompt
  <2>1. prefilling' = Without(prefilling, i) /\ decoding' = Append(decoding, r)
        /\ prefilled' = prefilled \ {r} /\ r \in prefilled
        /\ seq' = [seq EXCEPT ![r] = [s EXCEPT !.prefill_pending = FALSE]]
    BY <1>1, <1>5
  <2>2. /\ Len(prefilling') = Len(prefilling) - 1
        /\ Members(prefilling') = Members(prefilling) \ {r} /\ Distinct(prefilling')
    BY <1>3, <2>1, WithoutMembers
  <2>3. /\ Len(decoding') = Len(decoding) + 1
        /\ Members(decoding') = Members(decoding) \cup {r} /\ Distinct(decoding')
    BY <1>3, <1>4, <2>1, AppendMembers
  <2>4. Len(prefilling') + Len(decoding') <= max_num_seqs
    BY <2>2, <2>3, QueueTypes, SchedulerAssumption DEF QueuesApart
  <2>5. QueuesApart'
    BY <1>2, <1>4, <2>2, <2>3, <2>4 DEF QueuesApart
  <2>6. KeysKept
    BY <1>2, <1>4, <2>1, QueueTypes DEF KeysKept, TypeOK
  <2>7. WaitingInOrder'
    BY <1>2, <2>6, LeavingKeepsOrder
  <2> QED
    BY <1>2, <1>4, <1>5, <2>1, <2>2, <2>3, <2>5, <2>7
<1>6. CASE ~ (s.prefill_pos >= s.prompt)
  <2>1. prefilling' = prefilling /\ decoding' = decoding
        /\ prefilled' = prefilled \ {r} /\ r \in prefilled /\ seq' = [seq EXCEPT ![r] = s]
    BY <1>1, <1>6
  <2>2. QueuesApart'
    BY <1>2, <2>1 DEF QueuesApart
  <2>3. KeysKept
    BY <1>2, <1>4, <2>1, QueueTypes DEF KeysKept, TypeOK
  <2>4. WaitingInOrder'
    BY <1>2, <2>3, LeavingKeepsOrder
  <2> QED
    BY <1>2, <1>4, <1>6, <2>1, <2>2, <2>4
<1> QED
  BY <1>5, <1>6

\* Whatever leaves the queues alone and the keys of those who wait.
LEMMA SameQueues ==
  ASSUME TypeOK, QueuesApart, WaitingInOrder, UNCHANGED queueVars, KeysKept
  PROVE  QueuesApart' /\ WaitingInOrder'
<1>1. QueuesApart'
  BY DEF QueuesApart, queueVars
<1>2. WaitingInOrder'
  BY LeavingKeepsOrder DEF queueVars
<1> QED
  BY <1>1, <1>2

\* A chunk is assigned to a request of the prefilling queue.
LEMMA AssignQueues ==
  ASSUME TypeOK, QueuesApart, WaitingInOrder, AssignChunk
  PROVE  /\ QueuesApart' /\ WaitingInOrder'
         /\ \E r \in Members(prefilling) :
              /\ r \notin Members(waiting) /\ r \notin Members(decoding)
              /\ \/ WantsChunk(r) /\ seq' = [seq EXCEPT ![r].chunk_size = NextChunk(seq[r])]
                 \/ UNCHANGED seq
<1> DEFINE r == prefilling[idx]
<1>1. idx \in 1 .. Len(prefilling)
  BY DEF AssignChunk, MoreChunks, TypeOK
<1>2. r \in Members(prefilling) /\ r \in Request
  BY <1>1, QueueTypes DEF Members
<1>3. r \notin Members(waiting) /\ r \notin Members(decoding)
  BY <1>2 DEF QueuesApart
<1>4. /\ \/ WantsChunk(r) /\ seq' = [seq EXCEPT ![r].chunk_size = NextChunk(seq[r])]
         \/ UNCHANGED seq
      /\ UNCHANGED queueVars
  BY DEF AssignChunk
<1>5. KeysKept
  BY <1>2, <1>3, <1>4, QueueTypes DEF KeysKept, TypeOK, queueVars
<1>6. QueuesApart' /\ WaitingInOrder'
  BY <1>4, <1>5, SameQueues
<1> QED
  BY <1>2, <1>3, <1>4, <1>6

\* The model's answers change no queue and no key.
LEMMA RunnerQueues ==
  ASSUME TypeOK, QueuesApart, WaitingInOrder,
         (\E eos \in SUBSET Batch : RunnerStep(eos)) \/ RunnerFail
  PROVE  QueuesApart' /\ WaitingInOrder' /\ UNCHANGED queueVars
<1>1. UNCHANGED queueVars
  BY DEF RunnerStep, RunnerFail
<1>2. \A r \in Request :
        seq'[r].priority = seq[r].priority /\ seq'[r].arrival = seq[r].arrival
  <2> SUFFICES ASSUME NEW r \in Request
               PROVE  seq'[r].priority = seq[r].priority /\ seq'[r].arrival = seq[r].arrival
    OBVIOUS
  <2>1. seq[r] \in Sequence
    BY DEF TypeOK
  <2>2. \/ seq'[r] = seq[r]
        \/ seq'[r] = [seq[r] EXCEPT !.output = OutputAfter(r),
                                    !.prefill_pending = @ /\ ~is_final_chunk(seq[r])]
    BY DEF RunnerStep, RunnerFail
  <2> QED
    BY <2>1, <2>2 DEF Sequence
<1>3. KeysKept
  BY <1>1, <1>2, QueueTypes DEF KeysKept, queueVars
<1> QED
  BY <1>1, <1>3, SameQueues

\* Steps that touch neither queue nor sequence.
StaysPut ==
  \/ BeginSchedule \/ AssignDone \/ PromoteDone
  \/ EnsureAllocate \/ EnsureNext \/ EnsureDone
  \/ AdvanceDone \/ FinishDone \/ TakeResult

\* The other steps leave the queues and sequences alone.
LEMMA OtherQueues ==
  ASSUME TypeOK, QueuesApart, WaitingInOrder, UNCHANGED vars \/ StaysPut
  PROVE  QueuesApart' /\ WaitingInOrder' /\ UNCHANGED <<waiting, prefilling, decoding, seq>>
<1>1. UNCHANGED <<waiting, prefilling, decoding, seq>>
  BY DEF StaysPut, vars, schedVars, queueVars, BeginSchedule, AssignDone, PromoteDone,
         EnsureAllocate, EnsureNext, EnsureDone, AdvanceDone, FinishDone, TakeResult
<1>2. KeysKept
  BY <1>1 DEF KeysKept
<1> QED
  BY <1>1, <1>2, SameQueues DEF queueVars

\* The queues stay apart and in order.
LEMMA NextQueues ==
  ASSUME TypeOK, QueuesApart, WaitingInOrder, [Next]_vars
  PROVE  QueuesApart' /\ WaitingInOrder'
<1>1. ASSUME NEW r \in Request, NEW prompt \in PromptLen, NEW max_tokens \in MaxTokens,
             NEW priority \in Priority, Submit(r, prompt, max_tokens, priority)
      PROVE  QueuesApart' /\ WaitingInOrder'
  <2>1. CASE Add(r, prompt, max_tokens, priority)
    BY <1>1, <2>1, AddQueues DEF Submit, IsNew
  <2>2. CASE UNCHANGED schedVars
    <3>1. KeysKept /\ UNCHANGED queueVars
      BY <2>2 DEF KeysKept, schedVars, queueVars
    <3> QED
      BY <3>1, SameQueues
  <2> QED
    BY <1>1, <2>1, <2>2 DEF Submit
<1>2. ASSUME NEW r \in Request, Cancel(r) PROVE QueuesApart' /\ WaitingInOrder'
  BY <1>2, CancelQueues DEF Cancel
<1>3. CASE AssignChunk
  BY <1>3, AssignQueues
<1>4. CASE Promote
  BY <1>4, PromoteQueues
<1>5. CASE Preempt
  BY <1>5, PreemptQueues
<1>6. CASE (\E eos \in SUBSET Batch : RunnerStep(eos)) \/ RunnerFail
  BY <1>6, RunnerQueues
<1>7. CASE AdvancePrefill
  BY <1>7, AdvanceQueues
<1>8. CASE FinishSeq
  <2>1. DOMAIN finished \subseteq Request
    BY DEF TypeOK
  <2> QED
    BY <1>8, <2>1, FinishQueues DEF FinishSeq
<1>9. CASE UNCHANGED vars \/ StaysPut
  BY <1>9, OtherQueues
<1> QED
  BY <1>1, <1>2, <1>3, <1>4, <1>5, <1>6, <1>7, <1>8, <1>9
     DEF Next, Step, Schedule, StaysPut

\* Empty queues are apart and in order.
LEMMA InitQueues == Init => QueuesApart /\ WaitingInOrder
<1> SUFFICES ASSUME Init PROVE QueuesApart /\ WaitingInOrder
  OBVIOUS
<1>1. waiting = <<>> /\ prefilling = <<>> /\ decoding = <<>> /\ Len(<<>>) = 0
  BY DEF Init, SchedInit
<1>2. Members(<<>>) = {} /\ Distinct(<<>>)
  BY <1>1 DEF Members, Distinct
<1> QED
  BY <1>1, <1>2, SchedulerAssumption DEF QueuesApart, WaitingInOrder

\* Whoever starts running was at the head of a list in order.
LEMMA PromotionStep ==
  ASSUME TypeOK, QueuesApart, WaitingInOrder, [Next]_vars,
         NEW r \in Members(waiting), r \in Members(prefilling')
  PROVE  \A w \in Members(waiting') : NotAfter(seq[r], seq[w])
<1>1. r \notin Members(prefilling)
  BY DEF QueuesApart
<1>2. CASE Promote
  BY <1>1, <1>2, PromoteQueues
<1>3. CASE ~ Promote
  <2> SUFFICES Members(prefilling') \subseteq Members(prefilling)
    BY <1>1
  <2>1. ASSUME NEW x \in Request, NEW prompt \in PromptLen, NEW max_tokens \in MaxTokens,
               NEW priority \in Priority, Submit(x, prompt, max_tokens, priority)
        PROVE  Members(prefilling') \subseteq Members(prefilling)
    BY <2>1 DEF Submit, Add, schedVars
  <2>2. ASSUME NEW x \in Request, Cancel(x)
        PROVE  Members(prefilling') \subseteq Members(prefilling)
    BY <2>2, CancelQueues DEF Cancel
  <2>3. CASE AssignChunk
    BY <2>3 DEF AssignChunk, queueVars
  <2>4. CASE Preempt
    BY <2>4, PreemptQueues
  <2>5. CASE (\E eos \in SUBSET Batch : RunnerStep(eos)) \/ RunnerFail
    BY <2>5, RunnerQueues DEF queueVars
  <2>6. CASE AdvancePrefill
    BY <2>6, AdvanceQueues
  <2>7. CASE FinishSeq
    <3>1. DOMAIN finished \subseteq Request
      BY DEF TypeOK
    <3> QED
      BY <2>7, <3>1, FinishQueues DEF FinishSeq
  <2>8. CASE UNCHANGED vars \/ StaysPut
    BY <2>8, OtherQueues
  <2> QED
    BY <1>3, <2>1, <2>2, <2>3, <2>4, <2>5, <2>6, <2>7, <2>8
       DEF Next, Step, Schedule, StaysPut
<1> QED
  BY <1>2, <1>3

\* Nobody is in a queue twice or in two queues, and the waiting list is sorted by
\* (priority, arrival), however requests are preempted and inserted again
\* (insert_waiting, ensure_blocks, finish).
THEOREM QueuesAlwaysInOrder == Spec => [](QueuesApart /\ WaitingInOrder)
<1>1. TypeOK /\ QueuesApart /\ WaitingInOrder /\ [Next]_vars => (QueuesApart /\ WaitingInOrder)'
  BY NextQueues
<1> QED
  BY <1>1, InitQueues, EngineTypeCorrect, PTL DEF Spec

\* Requests start in (priority, arrival) order: nobody is promoted past a waiting
\* request that sorts before it (schedule, insert_waiting), however often requests
\* are preempted and wait again.
THEOREM PromotionAlwaysInOrder == Spec => PromotionInOrder
<1>1. TypeOK /\ QueuesApart /\ WaitingInOrder /\ [Next]_vars =>
        [\A r \in Members(waiting) :
           r \in Members(prefilling') =>
             \A w \in Members(waiting') : NotAfter(seq[r], seq[w])]_vars
  BY PromotionStep
<1> QED
  BY <1>1, QueuesAlwaysInOrder, EngineTypeCorrect, PTL DEF Spec, PromotionInOrder

-----------------------------------------------------------------------------
(* What a request has, by its queue *)

\* What a step has in hand between its phases.
StepShape ==
  /\ DOMAIN finished \subseteq Running
  /\ DOMAIN finished # {} => phase \in {"advance", "finish"}
  /\ prefilled \subseteq Members(prefilling)
  /\ prefilled # {} => phase = "advance"
  /\ preempted \subseteq Members(waiting)
  /\ preempted # {} => phase \notin {"ready", "assign", "promote", "result"}

\* Who waits starts its prompt over.
WaitsAfresh(r) ==
  r \in Members(waiting) =>
    seq[r].prefill_pending /\ seq[r].prefill_pos = 0 /\ seq[r].chunk_size = 0

\* Who prefills has prompt left, unless the model has just computed the last of it.
PrefillsOn(r) ==
  r \in Members(prefilling) =>
    /\ seq[r].prefill_pos + seq[r].chunk_size <= seq[r].prompt
    /\ r \notin prefilled => seq[r].prefill_pending /\ seq[r].prefill_pos < seq[r].prompt
    /\ r \in prefilled => IF is_final_chunk(seq[r])
                            THEN ~seq[r].prefill_pending /\ seq[r].output > 0
                            ELSE seq[r].prefill_pending

\* Who decodes has a last token.
DecodesOn(r) ==
  r \in Members(decoding) => ~seq[r].prefill_pending /\ seq[r].output > 0

\* Who has a block runs.
HoldsRunning(r) == blocks[r] # {} => r \in Running

\* What a live sequence counts is what its client was sent, within its limit, which
\* only who is about to finish has reached.
Streams(r) ==
  /\ r \in Live => /\ outcome[r] = Unfinished
                   /\ seq[r].prompt > 0
                   /\ seq[r].output = emitted[r] /\ seq[r].output <= seq[r].max_tokens
                   /\ r \notin DOMAIN finished => seq[r].output < seq[r].max_tokens
  /\ outcome[r].reason = "none" => outcome[r] = Unfinished
  /\ r \notin Live /\ outcome[r] = Unfinished => emitted[r] = 0
  /\ outcome[r].reason \in {"stop", "length"} => outcome[r].completion = emitted[r]
  /\ r \in DOMAIN finished =>
       seq[r].output > 0 /\ (finished[r] = "length" => seq[r].output = seq[r].max_tokens)

RequestOK(r) ==
  WaitsAfresh(r) /\ PrefillsOn(r) /\ DecodesOn(r) /\ HoldsRunning(r) /\ Streams(r)

\* The runner has fed what the scheduler believes, but for who was preempted and
\* whose state the step has still to drop.
Fed(r) ==
  failures = 0 =>
    /\ r \notin Running =>
         \/ kv[r] = NoKv
         \/ r \in preempted /\ phase \in {"ensure_prefilling", "ensure_decoding", "run"}
    /\ r \in Members(prefilling) =>
         kv[r].prompt = IF r \in prefilled THEN seq[r].prefill_pos + seq[r].chunk_size
                                           ELSE seq[r].prefill_pos
    /\ r \in Members(decoding) => kv[r].prompt = seq[r].prompt

\* The inductive invariant, together with TypeOK, QueuesApart and WaitingInOrder.
RequestsOK == StepShape /\ \A r \in Request : RequestOK(r) /\ Fed(r)

\* What RequestsOK says of a request stays true of one that a step leaves alone.
Untouched(r) ==
  /\ (r \in Members(waiting))' <=> r \in Members(waiting)
  /\ (r \in Members(prefilling))' <=> r \in Members(prefilling)
  /\ (r \in Members(decoding))' <=> r \in Members(decoding)
  /\ seq'[r] = seq[r] /\ emitted'[r] = emitted[r] /\ outcome'[r] = outcome[r]
  /\ blocks'[r] = blocks[r]
  /\ r \in prefilled' <=> r \in prefilled
  /\ r \in DOMAIN finished' <=> r \in DOMAIN finished
  /\ r \in DOMAIN finished => finished'[r] = finished[r]

\* What it has agrees with its queue still.
LEMMA UntouchedOK ==
  ASSUME NEW r \in Request, RequestOK(r), Untouched(r)
  PROVE  RequestOK(r)'
<1>1. /\ WaitsAfresh(r)' /\ PrefillsOn(r)' /\ DecodesOn(r)' /\ HoldsRunning(r)'
  BY DEF RequestOK, Untouched, WaitsAfresh, PrefillsOn, DecodesOn, HoldsRunning, Running,
         is_final_chunk
<1>2. Streams(r)'
  BY DEF RequestOK, Untouched, Streams, Live
<1> QED
  BY <1>1, <1>2 DEF RequestOK

\* And so does what the runner was fed of it.
LEMMA UntouchedFed ==
  ASSUME NEW r \in Request, Fed(r), Untouched(r),
         kv'[r] = kv[r], failures' = failures,
         r \in preempted /\ phase \in {"ensure_prefilling", "ensure_decoding", "run"} =>
           r \in preempted' /\ phase' \in {"ensure_prefilling", "ensure_decoding", "run"}
  PROVE  Fed(r)'
BY DEF Fed, Untouched, Running

\* At first there are no requests.
LEMMA InitOK == Init => RequestsOK
<1> SUFFICES ASSUME Init PROVE RequestsOK
  OBVIOUS
<1>1. Members(waiting) = {} /\ Members(prefilling) = {} /\ Members(decoding) = {}
  <2>1. waiting = <<>> /\ prefilling = <<>> /\ decoding = <<>> /\ Len(<<>>) = 0
    BY DEF Init, SchedInit
  <2> QED
    BY <2>1 DEF Members
<1>2. StepShape
  BY <1>1 DEF Init, SchedInit, StepShape, NoneFinished
<1>3. ASSUME NEW r \in Request PROVE RequestOK(r) /\ Fed(r)
  BY <1>1 DEF Init, SchedInit, RequestOK, WaitsAfresh, PrefillsOn, DecodesOn, HoldsRunning,
              Streams, Fed, Live, Running, NoneFinished, Unfinished
<1> QED
  BY <1>2, <1>3 DEF RequestsOK

\* A new sequence.
LEMMA SubmitOK ==
  ASSUME TypeOK, QueuesApart, WaitingInOrder, RequestsOK,
         NEW r \in Request, NEW prompt \in PromptLen, NEW max_tokens \in MaxTokens,
         NEW priority \in Priority, Submit(r, prompt, max_tokens, priority)
  PROVE  RequestsOK'
<1>1. r \notin Live /\ outcome[r] = Unfinished /\ phase = "ready"
  BY DEF Submit, IsNew, Add, TooLong
<1>2. CASE Add(r, prompt, max_tokens, priority) /\ UNCHANGED outcome
  <2> DEFINE s == [NoSequence EXCEPT !.prompt = prompt, !.max_tokens = max_tokens,
                                     !.priority = priority, !.arrival = next_arrival]
  <2>1. /\ Members(waiting)' = Members(waiting) \cup {r}
        /\ Members(prefilling)' = Members(prefilling)
        /\ Members(decoding)' = Members(decoding)
        /\ seq' = [seq EXCEPT ![r] = s]
    <3>1. /\ Members(waiting)' = Members(waiting) \cup {r}
          /\ prefilling' = prefilling /\ decoding' = decoding
          /\ seq' = [seq EXCEPT ![r] = s]
      <4>1. Add(r, prompt, max_tokens, priority) /\ r \notin Live
        BY <1>1, <1>2
      <4> QED
        BY <4>1, AddQueues DEF Add
    <3> QED
      BY <3>1 DEF Members
  <2>2. /\ UNCHANGED <<phase, blocks, preempted, outcome>>
        /\ UNCHANGED <<kv, prefilled, finished, emitted, failures>>
    BY <1>2 DEF Submit, Add
  <2>3. StepShape'
    BY <2>1, <2>2 DEF RequestsOK, StepShape, Running
  <2>4. RequestOK(r)'
    <3>1. prompt > 0 /\ max_tokens > 0 /\ s.prompt = prompt /\ s.max_tokens = max_tokens
          /\ s.output = 0 /\ s.prefill_pending /\ s.prefill_pos = 0 /\ s.chunk_size = 0
      BY SchedulerAssumption DEF NoSequence
    <3>2. seq'[r] = s
      BY <2>1 DEF TypeOK
    <3>3. r \in Members(waiting)' /\ r \notin Members(prefilling)' /\ r \notin Members(decoding)'
      BY <1>1, <2>1 DEF Live
    <3>4. WaitsAfresh(r)' /\ PrefillsOn(r)' /\ DecodesOn(r)'
      BY <3>1, <3>2, <3>3 DEF WaitsAfresh, PrefillsOn, DecodesOn
    <3>5. HoldsRunning(r)'
      BY <1>1, <2>1, <2>2 DEF RequestsOK, RequestOK, HoldsRunning, Running, Live
    <3>6. Streams(r)'
      <4>1. seq'[r].prompt > 0 /\ seq'[r].max_tokens > 0 /\ seq'[r].output = 0
        BY <3>1, <3>2
      <4>2. emitted[r] = 0 /\ r \notin DOMAIN finished
        BY <1>1 DEF RequestsOK, RequestOK, StepShape, Streams, Running, Live
      <4>3. outcome'[r] = Unfinished /\ r \in Live' /\ Unfinished.reason = "none"
        <5>1. outcome'[r] = Unfinished
          BY <1>1, <2>2
        <5> QED
          BY <3>3, <5>1 DEF Live, Unfinished
      <4>4. 0 <= seq'[r].max_tokens /\ 0 < seq'[r].max_tokens
        <5>1. seq'[r].max_tokens = max_tokens /\ max_tokens \in Nat
          BY <3>1, <3>2, SchedulerAssumption
        <5> QED
          BY <3>1, <5>1
      <4> QED
        <5>1. emitted'[r] = 0 /\ r \notin DOMAIN finished'
          BY <2>2, <4>2
        <5>2. outcome'[r].reason = "none"
          BY <4>3
        <5> QED
          BY <3>3, <4>1, <4>3, <4>4, <5>1, <5>2 DEF Streams, Live
    <3> QED
      BY <3>4, <3>5, <3>6 DEF RequestOK
  <2>5. Fed(r)'
    BY <1>1, <2>1, <2>2 DEF RequestsOK, Fed, Running, Live
  <2>6. ASSUME NEW x \in Request, x # r PROVE RequestOK(x)' /\ Fed(x)'
    <3>1. Untouched(x)
      BY <2>1, <2>2, <2>6 DEF Untouched, TypeOK
    <3> QED
      BY <2>2, <3>1, UntouchedOK, UntouchedFed DEF RequestsOK
  <2> QED
    BY <2>3, <2>4, <2>5, <2>6 DEF RequestsOK
<1>3. CASE TooLong(prompt, max_tokens) /\ End(r, "rejected", 0) /\ UNCHANGED schedVars
  <2>1. /\ UNCHANGED <<waiting, prefilling, decoding, seq, phase, blocks, preempted>>
        /\ UNCHANGED <<kv, prefilled, finished, emitted, failures>>
        /\ outcome' = [outcome EXCEPT ![r] = [reason |-> "rejected", completion |-> 0]]
    BY <1>3 DEF Submit, End, schedVars
  <2>2. StepShape'
    BY <2>1 DEF RequestsOK, StepShape, Running
  <2>3. RequestOK(r)'
    <3>1. outcome'[r].reason = "rejected" /\ outcome'[r] # Unfinished
      BY <2>1 DEF TypeOK, Unfinished
    <3> QED
      BY <1>1, <2>1, <3>1 DEF RequestsOK, RequestOK, WaitsAfresh, PrefillsOn, DecodesOn,
                               HoldsRunning, Streams, StepShape, Running, Live
  <2>4. Fed(r)'
    BY <2>1 DEF RequestsOK, Fed, Running
  <2>5. ASSUME NEW x \in Request, x # r PROVE RequestOK(x)' /\ Fed(x)'
    <3>1. Untouched(x)
      BY <2>1, <2>5 DEF Untouched, TypeOK
    <3> QED
      BY <2>1, <3>1, UntouchedOK, UntouchedFed DEF RequestsOK
  <2> QED
    BY <2>2, <2>3, <2>4, <2>5 DEF RequestsOK
<1> QED
  BY <1>2, <1>3 DEF Submit

\* A request that leaves the engine takes nothing along.
LEMMA LeaveOK ==
  ASSUME TypeOK, NEW r \in Request, RequestOK(r),
         r \notin Members(waiting)', r \notin Members(prefilling)', r \notin Members(decoding)',
         blocks'[r] = {}, emitted'[r] = emitted[r], r \notin DOMAIN finished',
         outcome'[r].reason # "none", outcome'[r] # Unfinished,
         outcome'[r].reason \in {"stop", "length"} => outcome'[r].completion = emitted[r]
  PROVE  RequestOK(r)'
<1>1. WaitsAfresh(r)' /\ PrefillsOn(r)' /\ DecodesOn(r)' /\ HoldsRunning(r)'
  BY DEF WaitsAfresh, PrefillsOn, DecodesOn, HoldsRunning
<1>2. Streams(r)'
  BY DEF Streams, Live
<1> QED
  BY <1>1, <1>2 DEF RequestOK

\* A cancel.
LEMMA CancelOK ==
  ASSUME TypeOK, QueuesApart, WaitingInOrder, RequestsOK, NEW r \in Request, Cancel(r)
  PROVE  RequestsOK'
<1>1. /\ CancelSeq(r) /\ phase = "ready"
      /\ UNCHANGED <<phase, preempted, prefilled, finished, emitted, failures>>
  BY DEF Cancel
<1>2. /\ Members(waiting)' = Members(waiting) \ {r}
      /\ Members(prefilling)' = Members(prefilling) \ {r}
      /\ Members(decoding)' = Members(decoding) \ {r}
      /\ r \in Live
  BY <1>1, CancelQueues
<1>3. prefilled = {} /\ preempted = {} /\ DOMAIN finished = {}
  BY <1>1 DEF RequestsOK, StepShape
<1>4. StepShape'
  <2>1. prefilled' = {} /\ preempted' = {} /\ DOMAIN finished' = {}
    BY <1>1, <1>3
  <2> QED
    BY <2>1 DEF StepShape
<1>5. /\ blocks' = blocks \/ blocks' = [blocks EXCEPT ![r] = {}]
      /\ seq' = [seq EXCEPT ![r] = NoSequence]
      /\ kv' = kv \/ kv' = [kv EXCEPT ![r] = NoKv]
      /\ blocks' = blocks \/ kv' = [kv EXCEPT ![r] = NoKv]
      /\ \E n : outcome' = [outcome EXCEPT ![r] = [reason |-> "cancel", completion |-> n]]
      /\ blocks' = blocks => r \in Members(waiting) \/ kv' = [kv EXCEPT ![r] = NoKv]
      /\ r \notin Members(waiting) => blocks' = [blocks EXCEPT ![r] = {}]
                                      /\ kv' = [kv EXCEPT ![r] = NoKv]
  BY <1>1 DEF CancelSeq, CancelWaiting, Finish, ReturnBlocks, End
<1>6. blocks'[r] = {}
  <2>1. r \in Members(waiting) => r \notin Running
    BY DEF QueuesApart, Running
  <2> QED
    BY <1>5, <2>1 DEF RequestsOK, RequestOK, HoldsRunning, TypeOK
<1>7. RequestOK(r)'
  <2>1. outcome'[r].reason = "cancel" /\ outcome'[r] # Unfinished
    BY <1>5 DEF TypeOK, Unfinished
  <2>2. RequestOK(r) /\ emitted'[r] = emitted[r] /\ r \notin DOMAIN finished'
    BY <1>1, <1>3 DEF RequestsOK
  <2> QED
    BY <1>2, <1>6, <2>1, <2>2, LeaveOK
<1>8. Fed(r)'
  <2>1. kv'[r] = NoKv \/ failures' # 0
    <3>1. r \in Members(waiting) => r \notin Running
      BY DEF QueuesApart, Running
    <3> QED
      BY <1>1, <1>3, <1>5, <3>1 DEF RequestsOK, Fed, TypeOK
  <2> QED
    BY <1>2, <2>1 DEF Fed, Running
<1>9. ASSUME NEW x \in Request, x # r PROVE RequestOK(x)' /\ Fed(x)'
  <2>1. Untouched(x) /\ kv'[x] = kv[x]
    BY <1>1, <1>2, <1>5, <1>9 DEF Untouched, TypeOK
  <2> QED
    BY <1>1, <1>3, <2>1, UntouchedOK, UntouchedFed DEF RequestsOK
<1> QED
  BY <1>4, <1>7, <1>8, <1>9 DEF RequestsOK

\* A sequence that stopped.
LEMMA FinishSeqOK ==
  ASSUME TypeOK, QueuesApart, WaitingInOrder, RequestsOK, FinishSeq
  PROVE  RequestsOK'
<1>1. PICK r \in DOMAIN finished :
        /\ Finish(r)
        /\ End(r, finished[r], seq[r].output)
        /\ kv' = [kv EXCEPT ![r] = NoKv]
        /\ finished' = [x \in DOMAIN finished \ {r} |-> finished[x]]
  BY DEF FinishSeq
<1>2. r \in Request /\ finished[r] \in {"stop", "length"}
  BY DEF TypeOK
<1>3. /\ phase = "finish"
      /\ UNCHANGED <<phase, preempted, prefilled, emitted, failures>>
  BY DEF FinishSeq
<1>4. /\ waiting' = waiting /\ r \in Running
      /\ Members(prefilling)' = Members(prefilling) \ {r}
      /\ Members(decoding)' = Members(decoding) \ {r}
  BY <1>1, <1>2, FinishQueues
<1>5. Members(waiting)' = Members(waiting) /\ r \notin Members(waiting)
  BY <1>4 DEF Members, QueuesApart, Running
<1>6. /\ blocks' = [blocks EXCEPT ![r] = {}]
      /\ seq' = [seq EXCEPT ![r] = NoSequence]
      /\ outcome' = [outcome EXCEPT ![r] = [reason |-> finished[r],
                                            completion |-> seq[r].output]]
  BY <1>1 DEF Finish, ReturnBlocks, End
<1>7. StepShape'
  <2>1. prefilled = {} /\ prefilled' = {}
    BY <1>3 DEF RequestsOK, StepShape
  <2>2. DOMAIN finished' = DOMAIN finished \ {r}
    BY <1>1
  <2>3. DOMAIN finished' \subseteq Running'
    BY <1>4, <2>2 DEF RequestsOK, StepShape, Running
  <2> QED
    BY <1>3, <1>5, <2>1, <2>3 DEF RequestsOK, StepShape
<1>8. RequestOK(r)'
  <2>1. /\ outcome'[r].reason = finished[r] /\ outcome'[r] # Unfinished
        /\ outcome'[r].completion = seq[r].output
    BY <1>2, <1>6 DEF TypeOK, Unfinished
  <2>2. RequestOK(r) /\ emitted'[r] = emitted[r] /\ r \notin DOMAIN finished'
    BY <1>1, <1>2, <1>3 DEF RequestsOK
  <2>3. seq[r].output = emitted[r]
    BY <1>4, <2>2 DEF RequestOK, Streams, Live, Running
  <2>4. blocks'[r] = {}
    BY <1>2, <1>6 DEF TypeOK
  <2> QED
    BY <1>2, <1>4, <1>5, <2>1, <2>2, <2>3, <2>4, LeaveOK
<1>9. Fed(r)'
  <2>1. kv'[r] = NoKv
    BY <1>1, <1>2 DEF TypeOK
  <2> QED
    BY <1>4, <2>1 DEF Fed, Running
<1>10. ASSUME NEW x \in Request, x # r PROVE RequestOK(x)' /\ Fed(x)'
  <2>1. x \in DOMAIN finished' <=> x \in DOMAIN finished
    BY <1>1, <1>10
  <2>2. x \in DOMAIN finished => finished'[x] = finished[x]
    BY <1>1, <1>10
  <2>3. seq'[x] = seq[x] /\ outcome'[x] = outcome[x] /\ blocks'[x] = blocks[x]
        /\ kv'[x] = kv[x]
    BY <1>1, <1>6, <1>10 DEF TypeOK
  <2>4. Untouched(x)
    BY <1>3, <1>4, <1>5, <1>10, <2>1, <2>2, <2>3 DEF Untouched
  <2> QED
    BY <1>3, <2>3, <2>4, UntouchedOK, UntouchedFed DEF RequestsOK
<1> QED
  BY <1>7, <1>8, <1>9, <1>10 DEF RequestsOK

\* A chunk of a running prompt.
LEMMA AssignOK ==
  ASSUME TypeOK, QueuesApart, WaitingInOrder, RequestsOK, AssignChunk, UNCHANGED engineVars
  PROVE  RequestsOK'
<1>1. /\ phase = "assign"
      /\ UNCHANGED <<queueVars, phase, blocks, preempted>>
      /\ UNCHANGED <<kv, prefilled, finished, emitted, outcome, failures>>
  BY DEF AssignChunk, engineVars
<1>2. /\ Members(waiting)' = Members(waiting)
      /\ Members(prefilling)' = Members(prefilling)
      /\ Members(decoding)' = Members(decoding)
  BY <1>1 DEF Members, queueVars
<1>3. PICK r \in Members(prefilling) :
        /\ r \notin Members(waiting) /\ r \notin Members(decoding)
        /\ \/ WantsChunk(r) /\ seq' = [seq EXCEPT ![r].chunk_size = NextChunk(seq[r])]
           \/ UNCHANGED seq
  BY AssignQueues
<1>4. r \in Request /\ prefilled = {} /\ DOMAIN finished = {}
  BY <1>1, QueueTypes DEF RequestsOK, StepShape
<1>5. StepShape'
  BY <1>1, <1>2 DEF RequestsOK, StepShape, Running
<1>6. /\ seq'[r].prompt = seq[r].prompt /\ seq'[r].output = seq[r].output
      /\ seq'[r].max_tokens = seq[r].max_tokens
      /\ seq'[r].prefill_pending = seq[r].prefill_pending
      /\ seq'[r].prefill_pos = seq[r].prefill_pos
  BY <1>3, <1>4 DEF TypeOK, Sequence
<1>7. RequestOK(r)'
  <2>1. RequestOK(r)
    BY <1>4 DEF RequestsOK
  <2>2. seq'[r].prefill_pos + seq'[r].chunk_size <= seq'[r].prompt
    <3>1. seq[r].prefill_pos + seq[r].chunk_size <= seq[r].prompt
          /\ seq[r].prefill_pos < seq[r].prompt
      BY <1>3, <1>4, <2>1 DEF RequestOK, PrefillsOn
    <3>2. seq[r] \in Sequence
      BY <1>4 DEF TypeOK
    <3>3. seq[r].prefill_pos + NextChunk(seq[r]) <= seq[r].prompt
      BY <3>1, <3>2, SchedulerAssumption DEF NextChunk, Sequence
    <3>4. \/ seq'[r].chunk_size = NextChunk(seq[r])
          \/ seq'[r].chunk_size = seq[r].chunk_size
      BY <1>3, <1>4, <3>2 DEF TypeOK, Sequence
    <3> QED
      BY <1>6, <3>1, <3>3, <3>4
  <2>3. WaitsAfresh(r)' /\ PrefillsOn(r)' /\ DecodesOn(r)' /\ HoldsRunning(r)'
    BY <1>1, <1>2, <1>3, <1>4, <1>6, <2>1, <2>2
       DEF RequestOK, WaitsAfresh, PrefillsOn, DecodesOn, HoldsRunning, Running
  <2>4. Streams(r)'
    BY <1>1, <1>2, <1>6, <2>1 DEF RequestOK, Streams, Live
  <2> QED
    BY <2>3, <2>4 DEF RequestOK
<1>8. Fed(r)'
  BY <1>1, <1>2, <1>3, <1>4, <1>6 DEF RequestsOK, Fed, Running
<1>9. ASSUME NEW x \in Request, x # r PROVE RequestOK(x)' /\ Fed(x)'
  <2>1. Untouched(x)
    BY <1>1, <1>2, <1>3, <1>9 DEF Untouched, TypeOK
  <2> QED
    BY <1>1, <2>1, UntouchedOK, UntouchedFed DEF RequestsOK
<1> QED
  BY <1>5, <1>7, <1>8, <1>9 DEF RequestsOK

\* The head of the waiting list starts running.
LEMMA PromoteOK ==
  ASSUME TypeOK, QueuesApart, WaitingInOrder, RequestsOK, Promote, UNCHANGED engineVars
  PROVE  RequestsOK'
<1>0. PICK r \in Request : r = Head(waiting)
  BY PromoteTakes DEF Promote
<1>1. /\ phase = "promote"
      /\ UNCHANGED <<decoding, phase, preempted>>
      /\ UNCHANGED <<kv, prefilled, finished, emitted, outcome, failures>>
      /\ seq' = [seq EXCEPT ![r].chunk_size = NextChunk(seq[r])]
      /\ \A x \in Request : x # r => blocks'[x] = blocks[x]
  BY <1>0 DEF Promote, engineVars, TypeOK
<1>2. /\ r \in Members(waiting)
      /\ Members(waiting)' = Members(waiting) \ {r}
      /\ Members(prefilling)' = Members(prefilling) \cup {r}
      /\ decoding' = decoding
  BY <1>0, PromoteQueues
<1>3. /\ Members(decoding)' = Members(decoding)
      /\ r \in Request /\ r \notin Members(prefilling) /\ r \notin Members(decoding)
  BY <1>2 DEF Members, QueuesApart
<1>4. prefilled = {} /\ DOMAIN finished = {} /\ preempted = {}
  BY <1>1 DEF RequestsOK, StepShape
<1>5. StepShape'
  BY <1>1, <1>4 DEF StepShape
<1>6. /\ seq'[r].prompt = seq[r].prompt /\ seq'[r].output = seq[r].output
      /\ seq'[r].max_tokens = seq[r].max_tokens
      /\ seq'[r].prefill_pending = seq[r].prefill_pending
      /\ seq'[r].prefill_pos = seq[r].prefill_pos
      /\ seq'[r].chunk_size = NextChunk(seq[r])
  BY <1>1, <1>3 DEF TypeOK, Sequence
<1>7. RequestOK(r)'
  <2>1. RequestOK(r) /\ r \in Live /\ seq[r] \in Sequence
    BY <1>2, <1>3 DEF RequestsOK, Live, TypeOK
  <2>2. seq[r].prefill_pos = 0 /\ seq[r].prefill_pending /\ seq[r].prompt > 0
    BY <1>2, <2>1 DEF RequestOK, WaitsAfresh, Streams
  <2>3. NextChunk(seq[r]) <= seq[r].prompt /\ NextChunk(seq[r]) \in Nat
    BY <2>1, <2>2, SchedulerAssumption DEF NextChunk, Sequence
  <2>4. seq'[r].prefill_pos + seq'[r].chunk_size <= seq'[r].prompt
    BY <1>6, <2>2, <2>3
  <2>5. WaitsAfresh(r)' /\ PrefillsOn(r)' /\ DecodesOn(r)' /\ HoldsRunning(r)'
    BY <1>1, <1>2, <1>3, <1>4, <1>6, <2>2, <2>4
       DEF WaitsAfresh, PrefillsOn, DecodesOn, HoldsRunning, Running
  <2>6. Streams(r)'
    BY <1>1, <1>2, <1>6, <2>1 DEF RequestOK, Streams, Live
  <2> QED
    BY <2>5, <2>6 DEF RequestOK
<1>8. Fed(r)'
  <2>1. Fed(r) /\ WaitsAfresh(r) /\ r \notin Running
    BY <1>3 DEF RequestsOK, RequestOK, Running
  <2>2. failures = 0 => kv[r].prompt = seq[r].prefill_pos
    BY <1>1, <1>2, <2>1 DEF Fed, WaitsAfresh, NoKv
  <2> QED
    BY <1>1, <1>2, <1>3, <1>4, <1>6, <2>2 DEF Fed, Running
<1>9. ASSUME NEW x \in Request, x # r PROVE RequestOK(x)' /\ Fed(x)'
  <2>1. Untouched(x)
    BY <1>1, <1>2, <1>3, <1>9 DEF Untouched, TypeOK
  <2> QED
    BY <1>1, <2>1, UntouchedOK, UntouchedFed DEF RequestsOK
<1> QED
  BY <1>5, <1>7, <1>8, <1>9 DEF RequestsOK

\* A victim waits again: it keeps its output and nothing else.
LEMMA PreemptOK ==
  ASSUME TypeOK, QueuesApart, WaitingInOrder, RequestsOK, Preempt, UNCHANGED engineVars
  PROVE  RequestsOK'
<1>1. /\ phase \in {"ensure_prefilling", "ensure_decoding"}
      /\ phase' = phase
      /\ UNCHANGED <<kv, prefilled, finished, emitted, outcome, failures>>
  BY DEF Preempt, Ensuring, engineVars
<1>2. PICK r \in Running :
        /\ r \notin Members(waiting)
        /\ Members(waiting)' = Members(waiting) \cup {r}
        /\ Members(prefilling)' = Members(prefilling) \ {r}
        /\ Members(decoding)' = Members(decoding) \ {r}
        /\ seq' = [seq EXCEPT ![r] = Restarted(seq[r])]
        /\ ReturnBlocks(r)
        /\ preempted' = preempted \cup {r}
  BY PreemptQueues
<1>3. r \in Request /\ blocks' = [blocks EXCEPT ![r] = {}]
  BY <1>2, QueueTypes DEF Running, ReturnBlocks
<1>4. prefilled = {} /\ DOMAIN finished = {}
  BY <1>1 DEF RequestsOK, StepShape
<1>5. StepShape'
  BY <1>1, <1>2, <1>4 DEF RequestsOK, StepShape
<1>6. /\ seq'[r].prompt = seq[r].prompt /\ seq'[r].output = seq[r].output
      /\ seq'[r].max_tokens = seq[r].max_tokens
      /\ seq'[r].prefill_pending /\ seq'[r].prefill_pos = 0 /\ seq'[r].chunk_size = 0
  BY <1>2, <1>3 DEF TypeOK, Sequence, Restarted
<1>7. RequestOK(r)'
  <2>1. RequestOK(r) /\ r \in Live
    BY <1>2, <1>3 DEF RequestsOK, Live, Running
  <2>2. WaitsAfresh(r)' /\ PrefillsOn(r)' /\ DecodesOn(r)' /\ HoldsRunning(r)'
    <3>1. blocks'[r] = {}
      BY <1>3 DEF TypeOK
    <3> QED
      BY <1>2, <1>6, <3>1 DEF WaitsAfresh, PrefillsOn, DecodesOn, HoldsRunning
  <2>3. Streams(r)'
    BY <1>1, <1>2, <1>6, <2>1 DEF RequestOK, Streams, Live
  <2> QED
    BY <2>2, <2>3 DEF RequestOK
<1>8. Fed(r)'
  BY <1>1, <1>2 DEF Fed, Running
<1>9. ASSUME NEW x \in Request, x # r PROVE RequestOK(x)' /\ Fed(x)'
  <2>1. Untouched(x)
    BY <1>1, <1>2, <1>3, <1>9 DEF Untouched, TypeOK
  <2> QED
    BY <1>1, <1>2, <2>1, UntouchedOK, UntouchedFed DEF RequestsOK
<1> QED
  BY <1>5, <1>7, <1>8, <1>9 DEF RequestsOK

\* A block for a running sequence.
LEMMA AllocateOK ==
  ASSUME TypeOK, QueuesApart, WaitingInOrder, RequestsOK, EnsureAllocate,
         UNCHANGED engineVars
  PROVE  RequestsOK'
<1> DEFINE r == EnsuredQueue[idx]
<1>1. /\ UNCHANGED <<queueVars, seq, phase, preempted>>
      /\ UNCHANGED <<kv, prefilled, finished, emitted, outcome, failures>>
      /\ \A x \in Request : x # r => blocks'[x] = blocks[x]
  BY DEF EnsureAllocate, engineVars, TypeOK
<1>2. /\ Members(waiting)' = Members(waiting)
      /\ Members(prefilling)' = Members(prefilling)
      /\ Members(decoding)' = Members(decoding)
  BY <1>1 DEF Members, queueVars
<1>3. r \in Running
  <2>1. idx \in 1 .. Len(EnsuredQueue)
    BY QueueTypes DEF EnsureAllocate, TypeOK, EnsuredQueue
  <2> QED
    BY <2>1 DEF Running, Members, EnsuredQueue
<1> HIDE DEF r
<1>4. StepShape'
  BY <1>1, <1>2 DEF RequestsOK, StepShape, Running
<1>5. ASSUME NEW x \in Request PROVE RequestOK(x)'
  <2>1. CASE x = r
    <3>1. WaitsAfresh(x)' /\ PrefillsOn(x)' /\ DecodesOn(x)' /\ HoldsRunning(x)'
      BY <1>1, <1>2, <1>3, <2>1
         DEF RequestsOK, RequestOK, WaitsAfresh, PrefillsOn, DecodesOn, HoldsRunning, Running,
             is_final_chunk
    <3>2. Streams(x)'
      BY <1>1, <1>2 DEF RequestsOK, RequestOK, Streams, Live
    <3> QED
      BY <3>1, <3>2 DEF RequestOK
  <2>2. CASE x # r
    <3>1. Untouched(x)
      BY <1>1, <1>2, <2>2 DEF Untouched
    <3> QED
      BY <3>1, UntouchedOK DEF RequestsOK
  <2> QED
    BY <2>1, <2>2
<1>6. ASSUME NEW x \in Request PROVE Fed(x)'
  BY <1>1, <1>2 DEF RequestsOK, Fed, Running
<1> QED
  BY <1>4, <1>5, <1>6 DEF RequestsOK

\* The steps that move the engine on and touch no request.
LEMMA StaysOK ==
  ASSUME TypeOK, QueuesApart, WaitingInOrder, RequestsOK,
         \/ UNCHANGED vars
         \/ BeginSchedule /\ UNCHANGED engineVars
         \/ AssignDone /\ UNCHANGED engineVars
         \/ PromoteDone /\ UNCHANGED engineVars
         \/ EnsureNext /\ UNCHANGED engineVars
         \/ EnsureDone /\ UNCHANGED engineVars
         \/ AdvanceDone \/ FinishDone \/ TakeResult
  PROVE  RequestsOK'
<1>1. /\ UNCHANGED <<queueVars, seq, blocks>>
      /\ UNCHANGED <<kv, prefilled, finished, emitted, outcome, failures>>
  BY DEF BeginSchedule, AssignDone, PromoteDone, EnsureNext, EnsureDone, AdvanceDone,
         FinishDone, TakeResult, engineVars, vars, schedVars, queueVars
<1>2. /\ Members(waiting)' = Members(waiting)
      /\ Members(prefilling)' = Members(prefilling)
      /\ Members(decoding)' = Members(decoding)
  BY <1>1 DEF Members, queueVars
<1>3. \/ /\ preempted' = preempted
         /\ \/ phase' = phase
            \/ phase = "ready" /\ phase' = "assign"
            \/ phase = "assign" /\ phase' = "promote"
            \/ phase = "promote" /\ phase' = "ensure_prefilling"
            \/ phase = "ensure_prefilling" /\ phase' = "ensure_decoding"
            \/ phase = "ensure_decoding" /\ phase' = "run"
            \/ phase = "advance" /\ phase' = "finish" /\ prefilled = {}
            \/ phase = "result" /\ phase' = "ready"
      \/ phase = "finish" /\ phase' = "result" /\ preempted' = {} /\ DOMAIN finished = {}
  BY DEF BeginSchedule, AssignDone, PromoteDone, EnsureNext, EnsureDone, AdvanceDone,
         FinishDone, TakeResult, LeaveStep, vars, schedVars, Ensuring
<1>4. StepShape'
  BY <1>1, <1>2, <1>3 DEF RequestsOK, StepShape, Running
<1>5. ASSUME NEW x \in Request PROVE RequestOK(x)' /\ Fed(x)'
  <2>1. Untouched(x)
    BY <1>1, <1>2 DEF Untouched
  <2>2. RequestOK(x)'
    BY <2>1, UntouchedOK DEF RequestsOK
  <2>3. Fed(x)'
    BY <1>1, <1>2, <1>3 DEF RequestsOK, StepShape, Fed, Running
  <2> QED
    BY <2>2, <2>3
<1> QED
  BY <1>4, <1>5 DEF RequestsOK

\* The model ran: who computed a last chunk, or decodes, has one more token.
LEMMA RunnerStepOK ==
  ASSUME TypeOK, QueuesApart, WaitingInOrder, RequestsOK,
         NEW eos \in SUBSET Batch, RunnerStep(eos)
  PROVE  RequestsOK'
<1> DEFINE valid == {r \in Batch : ValidOutput(r)}
           done == eos \cup {r \in Batch : LimitReached(r)}
<1>1. /\ phase = "run" /\ phase' = "advance" /\ eos \subseteq valid
      /\ kv' = KvAfterFeeding(Batch)
      /\ emitted' = [r \in Request |-> emitted[r] + (IF r \in valid THEN 1 ELSE 0)]
      /\ finished' = [r \in done |-> IF r \in eos THEN "stop" ELSE "length"]
      /\ prefilled' = {r \in Batch : seq[r].prefill_pending}
      /\ seq' = [r \in Request |->
                   IF r \in Batch
                   THEN [seq[r] EXCEPT
                           !.output = OutputAfter(r),
                           !.prefill_pending = @ /\ ~is_final_chunk(seq[r])]
                   ELSE seq[r]]
      /\ UNCHANGED <<queueVars, blocks, preempted, outcome, failures>>
  BY DEF RunnerStep
<1>2. /\ Members(waiting)' = Members(waiting)
      /\ Members(prefilling)' = Members(prefilling)
      /\ Members(decoding)' = Members(decoding)
  BY <1>1 DEF Members, queueVars
<1>3. prefilled = {} /\ DOMAIN finished = {}
  BY <1>1 DEF RequestsOK, StepShape
<1>4. Batch \subseteq Running /\ Members(decoding) \subseteq Batch
  BY DEF Batch, Running
<1>5. ASSUME NEW r \in Request, r \in Batch, r \in Members(prefilling)
      PROVE  /\ seq[r].prefill_pending /\ seq[r].prefill_pos < seq[r].prompt
             /\ r \notin Members(decoding) /\ r \notin Members(waiting)
  BY <1>3, <1>5 DEF RequestsOK, RequestOK, PrefillsOn, QueuesApart
<1>6. ASSUME NEW r \in Request, r \in Members(decoding)
      PROVE  /\ ~ seq[r].prefill_pending /\ seq[r].output > 0
             /\ r \notin Members(prefilling) /\ r \notin Members(waiting)
  BY <1>6 DEF RequestsOK, RequestOK, DecodesOn, QueuesApart
<1>7. StepShape'
  <2>1. prefilled' \subseteq Members(prefilling)'
    <3>1. ASSUME NEW r \in prefilled' PROVE r \in Members(prefilling)'
      BY <1>1, <1>2, <1>4, <1>6, <3>1, QueueTypes DEF Running
    <3> QED
      BY <3>1
  <2>2. DOMAIN finished' \subseteq Running'
    <3>1. DOMAIN finished' = done /\ done \subseteq Batch
      BY <1>1
    <3> QED
      BY <1>2, <1>4, <3>1 DEF Running
  <2>3. preempted' \subseteq Members(waiting)'
    BY <1>1, <1>2 DEF RequestsOK, StepShape
  <2> QED
    BY <1>1, <2>1, <2>2, <2>3 DEF StepShape
<1>8. ASSUME NEW r \in Request, r \in Batch
      PROVE  /\ seq'[r].prompt = seq[r].prompt /\ seq'[r].max_tokens = seq[r].max_tokens
             /\ seq'[r].prefill_pos = seq[r].prefill_pos
             /\ seq'[r].chunk_size = seq[r].chunk_size
             /\ seq'[r].output = OutputAfter(r)
             /\ seq'[r].prefill_pending = (seq[r].prefill_pending /\ ~is_final_chunk(seq[r]))
  <2>1. seq[r] \in Sequence
    BY DEF TypeOK
  <2>2. seq'[r] = [seq[r] EXCEPT
                     !.output = OutputAfter(r),
                     !.prefill_pending = @ /\ ~is_final_chunk(seq[r])]
    BY <1>1, <1>8
  <2> QED
    BY <2>1, <2>2 DEF Sequence
<1>9. ASSUME NEW r \in Request, r \in Batch PROVE RequestOK(r)' /\ Fed(r)'
  <2>1. /\ RequestOK(r) /\ Fed(r) /\ r \in Running /\ r \in Live /\ r \notin Members(waiting)
        /\ seq[r] \in Sequence
    BY <1>4, <1>9 DEF RequestsOK, Running, Live, QueuesApart, TypeOK
  <2>2. /\ seq[r].output = emitted[r] /\ seq[r].output < seq[r].max_tokens
        /\ outcome[r] = Unfinished /\ seq[r].prompt > 0
    BY <1>3, <2>1 DEF RequestOK, Streams
  <2>3. /\ OutputAfter(r) = emitted'[r]
        /\ ValidOutput(r) => OutputAfter(r) > 0 /\ OutputAfter(r) = seq[r].output + 1
        /\ ~ ValidOutput(r) => OutputAfter(r) = seq[r].output
        /\ OutputAfter(r) <= seq[r].max_tokens
    <3>1. seq[r].output \in Nat /\ seq[r].max_tokens \in Nat
      BY <2>1 DEF Sequence
    <3>2. emitted'[r] = emitted[r] + (IF ValidOutput(r) THEN 1 ELSE 0)
      BY <1>1, <1>9
    <3> QED
      BY <2>2, <3>1, <3>2 DEF OutputAfter
  <2>4. /\ r \in prefilled' <=> seq[r].prefill_pending
        /\ r \in Members(prefilling) => seq[r].prefill_pending
        /\ r \in Members(decoding) => ~ seq[r].prefill_pending
        /\ r \in Members(prefilling) <=> r \notin Members(decoding)
    BY <1>1, <1>4, <1>5, <1>6, <1>9 DEF Running
  <2>5. /\ r \in DOMAIN finished' <=> r \in eos \/ LimitReached(r)
        /\ r \in eos => ValidOutput(r)
        /\ r \in DOMAIN finished' => finished'[r] = IF r \in eos THEN "stop" ELSE "length"
    BY <1>1, <1>9
  <2>6. LimitReached(r) => ValidOutput(r)
    BY <2>1, <2>2, <2>3 DEF LimitReached, Sequence
  <2>7. WaitsAfresh(r)' /\ HoldsRunning(r)'
    BY <1>1, <1>2, <2>1 DEF RequestOK, WaitsAfresh, HoldsRunning, Running
  <2>8. PrefillsOn(r)'
    <3>1. is_final_chunk(seq[r])' <=> is_final_chunk(seq[r])
      BY <1>8, <1>9 DEF is_final_chunk
    <3>2. seq[r].prefill_pos + seq[r].chunk_size <= seq[r].prompt \/ r \notin Members(prefilling)
      BY <2>1 DEF RequestOK, PrefillsOn
    <3> QED
      BY <1>2, <1>8, <1>9, <2>3, <2>4, <3>1, <3>2 DEF PrefillsOn, ValidOutput
  <2>9. DecodesOn(r)'
    BY <1>2, <1>8, <1>9, <2>3, <2>4 DEF DecodesOn, ValidOutput
  <2>10. Streams(r)'
    <3>1. /\ outcome'[r] = Unfinished /\ Unfinished.reason = "none"
          /\ seq'[r].prompt > 0 /\ seq'[r].output = emitted'[r]
          /\ seq'[r].output <= seq'[r].max_tokens
          /\ r \in Live'
      <4>1. r \in Live'
        BY <1>2, <2>1 DEF Live
      <4> QED
        BY <1>1, <1>8, <1>9, <2>2, <2>3, <4>1 DEF Unfinished
    <3>2. r \notin DOMAIN finished' => seq'[r].output < seq'[r].max_tokens
      <4>1. OutputAfter(r) \in Nat /\ seq[r].max_tokens \in Nat
        BY <2>1 DEF OutputAfter, Sequence
      <4> QED
        BY <1>8, <1>9, <2>3, <2>5, <4>1 DEF LimitReached
    <3>3. r \in DOMAIN finished' => /\ seq'[r].output > 0
                                    /\ finished'[r] = "length" => seq'[r].output = seq'[r].max_tokens
      <4>1. OutputAfter(r) \in Nat /\ seq[r].max_tokens \in Nat
        BY <2>1 DEF OutputAfter, Sequence
      <4> QED
        BY <1>8, <1>9, <2>3, <2>5, <2>6, <4>1 DEF LimitReached
    <3> QED
      BY <3>1, <3>2, <3>3 DEF Streams
  <2>11. Fed(r)'
    <3>1. kv'[r].prompt = IF seq[r].prefill_pending THEN kv[r].prompt + seq[r].chunk_size
                                                    ELSE kv[r].prompt
      <4>1. kv'[r] = IF seq[r].prefill_pending
                     THEN [prompt |-> kv[r].prompt + seq[r].chunk_size,
                           output |-> kv[r].output + seq[r].output]
                     ELSE [kv[r] EXCEPT !.output = @ + 1]
        BY <1>1, <1>9 DEF KvAfterFeeding
      <4>2. kv[r] \in [prompt : Nat, output : Nat]
        BY DEF TypeOK
      <4> QED
        BY <4>1, <4>2
    <3> QED
      <4>1. failures' = failures /\ r \in Running'
        BY <1>1, <1>2, <2>1 DEF Running
      <4>2. failures = 0 /\ r \in Members(prefilling) =>
              kv'[r].prompt = seq'[r].prefill_pos + seq'[r].chunk_size
        BY <1>3, <1>8, <1>9, <2>1, <2>4, <3>1 DEF Fed
      <4>3. failures = 0 /\ r \in Members(decoding) => kv'[r].prompt = seq'[r].prompt
        BY <1>8, <1>9, <2>1, <2>4, <3>1 DEF Fed
      <4> QED
        BY <1>2, <2>4, <4>1, <4>2, <4>3 DEF Fed
  <2> QED
    BY <2>7, <2>8, <2>9, <2>10, <2>11 DEF RequestOK
<1>10. ASSUME NEW r \in Request, r \notin Batch PROVE RequestOK(r)' /\ Fed(r)'
  <2>1. /\ r \notin prefilled' /\ r \notin DOMAIN finished' /\ seq'[r] = seq[r]
        /\ emitted'[r] = emitted[r] /\ kv'[r] = KvAfterDrops[r]
    <3>1. emitted[r] \in Nat
      BY DEF TypeOK
    <3>2. r \notin valid /\ r \notin done
      BY <1>1, <1>10
    <3> HIDE DEF valid, done
    <3>3. r \notin prefilled' /\ r \notin DOMAIN finished'
      BY <1>1, <1>10, <3>2
    <3>4. seq'[r] = seq[r] /\ emitted'[r] = emitted[r]
      <4>1. seq'[r] = seq[r]
        BY <1>1, <1>10
      <4>2. emitted'[r] = emitted[r] + 0
        BY <1>1, <1>10, <3>2
      <4> QED
        BY <3>1, <4>1, <4>2
    <3>5. kv'[r] = KvAfterDrops[r]
      BY <1>1, <1>10 DEF KvAfterFeeding
    <3> QED
      BY <3>3, <3>4, <3>5
  <2>2. Untouched(r)
    BY <1>1, <1>2, <1>3, <2>1 DEF Untouched
  <2>3. RequestOK(r)'
    BY <2>2, UntouchedOK DEF RequestsOK
  <2>4. kv'[r] = IF r \in preempted THEN NoKv ELSE kv[r]
    BY <2>1 DEF KvAfterDrops
  <2>5. r \in preempted => r \notin Running
    BY DEF RequestsOK, StepShape, QueuesApart, Running
  <2>6. Fed(r)'
    BY <1>1, <1>2, <1>3, <2>1, <2>4, <2>5 DEF RequestsOK, Fed, Running
  <2> QED
    BY <2>3, <2>6
<1> QED
  BY <1>7, <1>9, <1>10 DEF RequestsOK

\* A model error leaves everything but the runner's state as it was.
LEMMA RunnerFailOK ==
  ASSUME TypeOK, QueuesApart, WaitingInOrder, RequestsOK, RunnerFail
  PROVE  RequestsOK'
<1>1. /\ phase = "run" /\ phase' = "ready" /\ preempted' = {} /\ failures' = failures + 1
      /\ UNCHANGED <<queueVars, seq, blocks, prefilled, finished, emitted, outcome>>
  BY DEF RunnerFail, LeaveStep
<1>2. /\ Members(waiting)' = Members(waiting)
      /\ Members(prefilling)' = Members(prefilling)
      /\ Members(decoding)' = Members(decoding)
  BY <1>1 DEF Members, queueVars
<1>3. StepShape'
  BY <1>1, <1>2 DEF RequestsOK, StepShape
<1>4. ASSUME NEW r \in Request PROVE RequestOK(r)'
  <2>1. Untouched(r)
    BY <1>1, <1>2 DEF Untouched
  <2> QED
    BY <2>1, UntouchedOK DEF RequestsOK
<1>5. failures' # 0
  BY <1>1 DEF TypeOK
<1>6. ASSUME NEW r \in Request PROVE Fed(r)'
  BY <1>5 DEF Fed
<1> QED
  BY <1>3, <1>4, <1>6 DEF RequestsOK

\* A sequence moves past the chunk that was computed.
LEMMA AdvanceOK ==
  ASSUME TypeOK, QueuesApart, WaitingInOrder, RequestsOK, AdvancePrefill
  PROVE  RequestsOK'
<1>1. /\ phase = "advance" /\ phase' = phase
      /\ UNCHANGED <<blocks, preempted, kv, finished, emitted, outcome, failures>>
  BY DEF AdvancePrefill
<1>2. PICK r \in prefilled \cap Members(prefilling) :
        LET s == Advanced(seq[r])
        IN  /\ prefilled' = prefilled \ {r}
            /\ IF s.prefill_pos >= s.prompt
               THEN /\ Members(prefilling)' = Members(prefilling) \ {r}
                    /\ Members(decoding)' = Members(decoding) \cup {r}
                    /\ seq' = [seq EXCEPT ![r] = [s EXCEPT !.prefill_pending = FALSE]]
               ELSE /\ Members(prefilling)' = Members(prefilling)
                    /\ Members(decoding)' = Members(decoding)
                    /\ seq' = [seq EXCEPT ![r] = s]
  BY AdvanceQueues
<1>3. Members(waiting)' = Members(waiting) /\ waiting' = waiting
  BY AdvanceQueues DEF Members
<1> DEFINE s == Advanced(seq[r])
           last == s.prefill_pos >= s.prompt
<1>4. /\ r \in Request /\ r \notin Members(waiting) /\ r \notin Members(decoding)
      /\ seq[r] \in Sequence /\ RequestOK(r) /\ Fed(r)
  BY QueueTypes DEF QueuesApart, TypeOK, RequestsOK
<1>5. /\ s.prompt = seq[r].prompt /\ s.output = seq[r].output
      /\ s.max_tokens = seq[r].max_tokens
      /\ s.prefill_pending = seq[r].prefill_pending
      /\ s.prefill_pos = seq[r].prefill_pos + seq[r].chunk_size
      /\ s.chunk_size = 0 /\ s \in Sequence
  BY <1>4, SequenceUpdates DEF Advanced, Sequence
<1> HIDE DEF s
<1>6. /\ last <=> is_final_chunk(seq[r])
      /\ s.prefill_pos <= s.prompt
      /\ last => s.output > 0 /\ s.prefill_pos = s.prompt
      /\ ~ last => s.prefill_pending /\ s.prefill_pos < s.prompt
  <2>1. s.prefill_pos \in Nat /\ s.prompt \in Nat
    BY <1>5 DEF Sequence
  <2> QED
    BY <1>4, <1>5, <2>1 DEF RequestOK, PrefillsOn, is_final_chunk
<1>7. /\ seq'[r].prompt = s.prompt /\ seq'[r].output = s.output
      /\ seq'[r].max_tokens = s.max_tokens
      /\ seq'[r].prefill_pending = (~ last /\ s.prefill_pending)
      /\ seq'[r].prefill_pos = s.prefill_pos /\ seq'[r].chunk_size = 0
  <2>1. seq'[r] = IF last THEN [s EXCEPT !.prefill_pending = FALSE] ELSE s
    BY <1>2, <1>4 DEF s, TypeOK
  <2> QED
    BY <1>5, <2>1 DEF Sequence
<1>8. /\ Members(prefilling)' = IF last THEN Members(prefilling) \ {r} ELSE Members(prefilling)
      /\ Members(decoding)' = IF last THEN Members(decoding) \cup {r} ELSE Members(decoding)
      /\ prefilled' = prefilled \ {r}
      /\ \A x \in Request : x # r => seq'[x] = seq[x]
  BY <1>2 DEF s, TypeOK
<1> HIDE DEF last
<1>9. StepShape'
  <2>1. Running' = Running
    BY <1>2, <1>8 DEF Running
  <2>2. prefilled' \subseteq Members(prefilling)'
    BY <1>2, <1>8 DEF RequestsOK, StepShape
  <2> QED
    BY <1>1, <1>3, <2>1, <2>2 DEF RequestsOK, StepShape
<1>10. RequestOK(r)'
  <2>1. WaitsAfresh(r)' /\ HoldsRunning(r)'
    BY <1>1, <1>2, <1>3, <1>4, <1>8 DEF WaitsAfresh, HoldsRunning, Running
  <2>2. PrefillsOn(r)'
    <3>1. s.prefill_pos + 0 <= s.prompt
      BY <1>5, <1>6 DEF Sequence
    <3> QED
      BY <1>2, <1>6, <1>7, <1>8, <3>1 DEF PrefillsOn
  <2>3. DecodesOn(r)'
    BY <1>4, <1>6, <1>7, <1>8 DEF DecodesOn
  <2>4. Streams(r)'
    <3>1. r \in Live' /\ r \in Live
      BY <1>2, <1>8 DEF Live
    <3> QED
      BY <1>1, <1>4, <1>5, <1>7, <3>1 DEF RequestOK, Streams
  <2> QED
    BY <2>1, <2>2, <2>3, <2>4 DEF RequestOK
<1>11. Fed(r)'
  <2>1. failures = 0 => kv[r].prompt = s.prefill_pos
    BY <1>2, <1>4, <1>5 DEF Fed
  <2>2. r \in Running'
    BY <1>2, <1>8 DEF Running
  <2> QED
    BY <1>1, <1>4, <1>6, <1>7, <1>8, <2>1, <2>2 DEF Fed
<1>12. ASSUME NEW x \in Request, x # r PROVE RequestOK(x)' /\ Fed(x)'
  <2>1. Untouched(x)
    BY <1>1, <1>3, <1>8, <1>12 DEF Untouched
  <2> QED
    BY <1>1, <2>1, UntouchedOK, UntouchedFed DEF RequestsOK
<1> QED
  BY <1>9, <1>10, <1>11, <1>12 DEF RequestsOK

\* Every step keeps what requests have in agreement with their queues.
LEMMA NextOK ==
  ASSUME TypeOK, QueuesApart, WaitingInOrder, RequestsOK, [Next]_vars
  PROVE  RequestsOK'
<1>1. CASE Schedule /\ UNCHANGED engineVars
  BY <1>1, AssignOK, PromoteOK, PreemptOK, AllocateOK, StaysOK DEF Schedule
<1>2. CASE \E eos \in SUBSET Batch : RunnerStep(eos)
  BY <1>2, RunnerStepOK
<1>3. CASE AdvancePrefill \/ FinishSeq \/ RunnerFail
  BY <1>3, AdvanceOK, FinishSeqOK, RunnerFailOK
<1>4. CASE UNCHANGED vars \/ AdvanceDone \/ FinishDone \/ TakeResult
  BY <1>4, StaysOK
<1>5. ASSUME NEW r \in Request, NEW prompt \in PromptLen, NEW max_tokens \in MaxTokens,
             NEW priority \in Priority, Submit(r, prompt, max_tokens, priority)
      PROVE  RequestsOK'
  BY <1>5, SubmitOK
<1>6. ASSUME NEW r \in Request, Cancel(r) PROVE RequestsOK'
  BY <1>6, CancelOK
<1> QED
  BY <1>1, <1>2, <1>3, <1>4, <1>5, <1>6 DEF Next, Step

\* What a request has agrees with its queue, whatever the engine does to it and to
\* the others it competes with (schedule, step, cancel).
THEOREM RequestsAlwaysOK == Spec => []RequestsOK
<1>1. TypeOK /\ QueuesApart /\ WaitingInOrder /\ RequestsOK /\ [Next]_vars => RequestsOK'
  BY NextOK
<1> QED
  BY <1>1, InitOK, EngineTypeCorrect, QueuesAlwaysInOrder, PTL DEF Spec

\* Disjoint sets add up.
LEMMA DisjointUnion ==
  ASSUME NEW S, IsFiniteSet(S), NEW T, IsFiniteSet(T), S \cap T = {}
  PROVE  IsFiniteSet(S \cup T) /\ Cardinality(S \cup T) = Cardinality(S) + Cardinality(T)
<1>1. /\ IsFiniteSet(S \cup T)
      /\ Cardinality(S \cup T) = Cardinality(S) + Cardinality(T) - Cardinality(S \cap T)
  BY FS_Union
<1>2. Cardinality(S \cap T) = 0
  BY FS_EmptySet
<1>3. Cardinality(S) \in Nat /\ Cardinality(T) \in Nat
  BY FS_CardinalityType
<1> QED
  BY <1>1, <1>2, <1>3

\* A live request is in exactly one queue, once, at most max_num_seqs run, only
\* those that run hold blocks, and who waits starts its prompt over (insert_waiting,
\* ensure_blocks, finish, cancel).
THEOREM QueuesAlwaysDisciplined == Spec => []QueueDiscipline
<1>1. ASSUME TypeOK, QueuesApart, RequestsOK PROVE QueueDiscipline
  <2>1. /\ IsFiniteSet(Members(waiting)) /\ Cardinality(Members(waiting)) = Len(waiting)
        /\ IsFiniteSet(Members(prefilling)) /\ Cardinality(Members(prefilling)) = Len(prefilling)
        /\ IsFiniteSet(Members(decoding)) /\ Cardinality(Members(decoding)) = Len(decoding)
    BY <1>1, DistinctLength DEF TypeOK, QueuesApart
  <2>2. Len(waiting) \in Nat /\ Len(prefilling) \in Nat /\ Len(decoding) \in Nat
    BY <1>1, QueueTypes
  <2>3. /\ IsFiniteSet(Members(waiting) \cup Members(prefilling))
        /\ Cardinality(Members(waiting) \cup Members(prefilling)) = Len(waiting) + Len(prefilling)
    <3>1. Members(waiting) \cap Members(prefilling) = {}
      BY <1>1 DEF QueuesApart
    <3>2. IsFiniteSet(Members(waiting)) /\ IsFiniteSet(Members(prefilling))
      BY <2>1
    <3>3. /\ IsFiniteSet(Members(waiting) \cup Members(prefilling))
          /\ Cardinality(Members(waiting) \cup Members(prefilling))
               = Cardinality(Members(waiting)) + Cardinality(Members(prefilling))
      BY <3>1, <3>2, DisjointUnion
    <3> QED
      BY <2>1, <3>3
  <2>4. Cardinality(Live) = Len(waiting) + Len(prefilling) + Len(decoding)
    <3>1. (Members(waiting) \cup Members(prefilling)) \cap Members(decoding) = {}
      BY <1>1 DEF QueuesApart
    <3> QED
      BY <2>1, <2>3, <3>1, DisjointUnion DEF Live
  <2>5. ASSUME NEW r \in Request
        PROVE  /\ blocks[r] # {} => r \in Running
               /\ r \in Members(waiting) =>
                    seq[r].prefill_pending /\ seq[r].prefill_pos = 0 /\ seq[r].chunk_size = 0
               /\ r \in Members(decoding) => ~seq[r].prefill_pending /\ seq[r].output > 0
    BY <1>1 DEF RequestsOK, RequestOK, HoldsRunning, WaitsAfresh, DecodesOn
  <2>6. ASSUME NEW r \in Members(prefilling), phase \notin {"advance", "finish"}
        PROVE  seq[r].prefill_pending /\ seq[r].prefill_pos < seq[r].prompt
    BY <1>1, <2>6, QueueTypes DEF RequestsOK, RequestOK, StepShape, PrefillsOn
  <2>7. Members(waiting) \subseteq Request /\ Members(decoding) \subseteq Request
    BY <1>1, QueueTypes
  <2>8. Len(prefilling) + Len(decoding) <= max_num_seqs
    BY <1>1 DEF QueuesApart
  <2> QED
    BY <2>4, <2>5, <2>6, <2>7, <2>8 DEF QueueDiscipline
<1> QED
  BY <1>1, EngineTypeCorrect, QueuesAlwaysInOrder, RequestsAlwaysOK, PTL

\* What a sequence keeps across preemptions, and the usage reported when it
\* finishes, is what its client was sent (step, finish).
THEOREM UsageAlwaysMatches == Spec => []UsageMatchesStream
<1>1. RequestsOK => UsageMatchesStream
  BY DEF RequestsOK, RequestOK, Streams, UsageMatchesStream
<1> QED
  BY <1>1, RequestsAlwaysOK, PTL

\* Between steps the runner's state of a request is the prompt prefix the
\* scheduler believes computed: no drop_state is missing and none too many.
THEOREM PromptAlwaysFedOnce == Spec => []PromptFedOnce
<1>1. TypeOK /\ RequestsOK => PromptFedOnce
  BY QueueTypes DEF RequestsOK, StepShape, Fed, PromptFedOnce
<1> QED
  BY <1>1, EngineTypeCorrect, RequestsAlwaysOK, PTL

-----------------------------------------------------------------------------
(* The life of a request *)

\* Steps between which no request is accepted, ends or gets a token.
LEMMA LifeGoesOn ==
  ASSUME UNCHANGED <<emitted, outcome>>, Live' = Live,
         \A r \in Request : seq'[r].max_tokens = seq[r].max_tokens
  PROVE  UNCHANGED Lifecycle!genVars
<1>1. Stage' = Stage
  BY DEF Stage
<1>2. [r \in Request |-> seq[r].max_tokens]' = [r \in Request |-> seq[r].max_tokens]
  OBVIOUS
<1> QED
  BY <1>1, <1>2 DEF Lifecycle!genVars

\* The stage of a request follows from its outcome and queues.
LEMMA StageOf ==
  ASSUME TypeOK, RequestsOK, NEW r \in Request
  PROVE  /\ r \in Live => Stage[r] = "live" /\ outcome[r].reason = "none"
         /\ r \notin Live /\ outcome[r] = Unfinished => Stage[r] = "new"
<1>1. Unfinished.reason = "none"
  BY DEF Unfinished
<1>2. r \in Live => outcome[r] = Unfinished
  BY DEF RequestsOK, RequestOK, Streams
<1> QED
  BY <1>1, <1>2 DEF Stage

\* A request that ends.
LEMMA EndIsEnd ==
  ASSUME TypeOK, RequestsOK, NEW r \in Request, r \in Live,
         NEW reason \in {"stop", "length", "cancel"},
         reason = "stop" => emitted[r] > 0,
         reason = "length" => emitted[r] = seq[r].max_tokens,
         Live' = Live \ {r}, emitted' = emitted,
         outcome'[r].reason = reason,
         \A x \in Request : x # r => outcome'[x] = outcome[x],
         seq' = [seq EXCEPT ![r] = NoSequence]
  PROVE  Lifecycle!GenNext
<1>1. Stage[r] = "live"
  BY StageOf
<1>2. Stage' = [Stage EXCEPT ![r] = reason]
  BY DEF Stage
<1>3. [x \in Request |-> seq[x].max_tokens]' = [[x \in Request |-> seq[x].max_tokens] EXCEPT ![r] = 0]
  <2>1. seq'[r].max_tokens = 0
    BY DEF NoSequence, TypeOK
  <2>2. \A x \in Request : x # r => seq'[x] = seq[x]
    BY DEF TypeOK
  <2>3. \A x \in Request : seq'[x].max_tokens = IF x = r THEN 0 ELSE seq[x].max_tokens
    BY <2>1, <2>2
  <2> QED
    BY <2>3
<1>4. Lifecycle!End(r, reason)
  BY <1>1, <1>2, <1>3 DEF Lifecycle!End
<1> QED
  BY <1>4 DEF Lifecycle!GenNext

\* A chunk changes no limit.
LEMMA ChunkOnly ==
  ASSUME TypeOK, NEW r \in Request, NEW chunk, seq' = [seq EXCEPT ![r].chunk_size = chunk]
  PROVE  \A x \in Request : seq'[x].max_tokens = seq[x].max_tokens
<1> SUFFICES ASSUME NEW x \in Request PROVE seq'[x].max_tokens = seq[x].max_tokens
  OBVIOUS
<1>1. CASE x = r
  <2>1. seq[r] \in Sequence /\ seq'[r] = [seq[r] EXCEPT !.chunk_size = chunk]
    BY DEF TypeOK
  <2> QED
    BY <1>1, <2>1 DEF Sequence
<1>2. CASE x # r
  BY <1>2 DEF TypeOK
<1> QED
  BY <1>1, <1>2

\* Every step is one of Generation's, or none.
LEMMA NextIsLife ==
  ASSUME TypeOK, TypeOK', QueuesApart, WaitingInOrder, RequestsOK, [Next]_vars
  PROVE  [Lifecycle!GenNext]_(Lifecycle!genVars)
<1>1. ASSUME NEW r \in Request, NEW prompt \in PromptLen, NEW max_tokens \in MaxTokens,
             NEW priority \in Priority, Submit(r, prompt, max_tokens, priority)
      PROVE  Lifecycle!GenNext
  <2>1. r \notin Live /\ outcome[r] = Unfinished /\ Stage[r] = "new" /\ emitted' = emitted
    BY <1>1, StageOf DEF Submit, IsNew
  <2>2. CASE Add(r, prompt, max_tokens, priority) /\ UNCHANGED outcome
    <3>1. Add(r, prompt, max_tokens, priority)
      BY <2>2
    <3>2. Members(waiting)' = Members(waiting) \cup {r}
      BY <2>1, <3>1, AddQueues
    <3>3. Live' = Live \cup {r}
      BY <2>2, <3>2 DEF Add, Live, Members
    <3>4. seq'[r].max_tokens = max_tokens /\ \A x \in Request : x # r => seq'[x] = seq[x]
      BY <2>2 DEF Add, NoSequence, TypeOK
    <3>5. Stage' = [Stage EXCEPT ![r] = "live"]
      <4>1. \A x \in Request : x # r => (x \in Live' <=> x \in Live)
        BY <3>3
      <4>2. r \in Live' /\ outcome'[r].reason = "none" /\ outcome' = outcome
        BY <2>1, <2>2, <3>3 DEF Unfinished
      <4> QED
        BY <4>1, <4>2 DEF Stage
    <3>6. Lifecycle!Accept(r, max_tokens)
      BY <2>1, <3>4, <3>5 DEF Lifecycle!Accept
    <3> QED
      BY <3>6 DEF Lifecycle!GenNext
  <2>3. CASE TooLong(prompt, max_tokens) /\ End(r, "rejected", 0) /\ UNCHANGED schedVars
    <3>1. Live' = Live /\ seq' = seq
      BY <2>3 DEF schedVars, Live, Members
    <3>2. outcome'[r].reason = "rejected" /\ \A x \in Request : x # r => outcome'[x] = outcome[x]
      BY <2>3 DEF End, TypeOK
    <3>3. Stage' = [Stage EXCEPT ![r] = "rejected"]
      BY <3>1, <3>2 DEF Stage
    <3>4. Lifecycle!Reject(r)
      BY <2>1, <3>1, <3>3 DEF Lifecycle!Reject
    <3> QED
      BY <3>4 DEF Lifecycle!GenNext
  <2> QED
    BY <1>1, <2>2, <2>3 DEF Submit
<1>2. ASSUME NEW r \in Request, Cancel(r) PROVE Lifecycle!GenNext
  <2>1. CancelSeq(r) /\ emitted' = emitted
    BY <1>2 DEF Cancel
  <2>2. r \in Live /\ Live' = Live \ {r}
    BY <2>1, CancelQueues DEF Live
  <2>3. /\ outcome'[r].reason = "cancel"
        /\ \A x \in Request : x # r => outcome'[x] = outcome[x]
        /\ seq' = [seq EXCEPT ![r] = NoSequence]
    <3>1. /\ \E n : outcome' = [outcome EXCEPT ![r] = [reason |-> "cancel", completion |-> n]]
          /\ seq' = [seq EXCEPT ![r] = NoSequence]
      BY <2>1 DEF CancelSeq, CancelWaiting, Finish, End
    <3> QED
      BY <3>1 DEF TypeOK
  <2> QED
    BY <2>1, <2>2, <2>3, EndIsEnd
<1>3. CASE FinishSeq
  <2>1. PICK r \in DOMAIN finished : Finish(r) /\ End(r, finished[r], seq[r].output)
    BY <1>3 DEF FinishSeq
  <2>2. /\ r \in Request /\ finished[r] \in {"stop", "length"} /\ emitted' = emitted
    BY <1>3 DEF TypeOK, FinishSeq
  <2>3. r \in Live /\ Live' = Live \ {r}
    <3>1. /\ r \in Running /\ waiting' = waiting
          /\ Members(prefilling)' = Members(prefilling) \ {r}
          /\ Members(decoding)' = Members(decoding) \ {r}
      BY <2>1, <2>2, FinishQueues
    <3> QED
      <4>1. Members(waiting)' = Members(waiting)
        BY <3>1
      <4>2. r \notin Members(waiting)
        BY <3>1 DEF Running, QueuesApart
      <4> QED
        BY <3>1, <4>1, <4>2 DEF Live, Running
  <2>4. /\ outcome'[r].reason = finished[r]
        /\ \A x \in Request : x # r => outcome'[x] = outcome[x]
        /\ seq' = [seq EXCEPT ![r] = NoSequence]
    BY <2>1, <2>2 DEF Finish, End, TypeOK
  <2>5. emitted[r] > 0 /\ (finished[r] = "length" => emitted[r] = seq[r].max_tokens)
    BY <2>1, <2>2, <2>3 DEF RequestsOK, RequestOK, Streams
  <2> QED
    BY <2>2, <2>3, <2>4, <2>5, EndIsEnd
<1>4. ASSUME NEW eos \in SUBSET Batch, RunnerStep(eos) PROVE Lifecycle!GenNext
  <2> DEFINE valid == {r \in Batch : ValidOutput(r)}
  <2>1. /\ phase = "run" /\ UNCHANGED <<queueVars, outcome>>
        /\ emitted' = [r \in Request |-> emitted[r] + (IF r \in valid THEN 1 ELSE 0)]
    BY <1>4 DEF RunnerStep
  <2>2. valid \in SUBSET Request /\ \A r \in valid : r \in Live
    BY QueueTypes DEF Batch, Live
  <2>3. \A r \in Request : seq'[r].max_tokens = seq[r].max_tokens
    <3>1. ASSUME NEW r \in Request PROVE seq'[r].max_tokens = seq[r].max_tokens
      <4>1. seq[r] \in Sequence
        BY DEF TypeOK
      <4>2. \/ seq'[r] = seq[r]
            \/ seq'[r] = [seq[r] EXCEPT !.output = OutputAfter(r),
                                        !.prefill_pending = @ /\ ~is_final_chunk(seq[r])]
        BY <1>4 DEF RunnerStep
      <4> QED
        BY <4>1, <4>2 DEF Sequence
    <3> QED
      BY <3>1
  <2>4. Stage' = Stage
    BY <2>1 DEF Stage, Live, Members, queueVars
  <2>5. \A r \in valid : Stage[r] = "live" /\ emitted[r] < seq[r].max_tokens
    <3>1. ASSUME NEW r \in valid PROVE Stage[r] = "live" /\ emitted[r] < seq[r].max_tokens
      <4>1. r \in Request /\ r \in Live
        BY <2>2
      <4>2. r \notin DOMAIN finished
        BY <2>1 DEF RequestsOK, StepShape
      <4>3. emitted[r] < seq[r].max_tokens
        BY <4>1, <4>2 DEF RequestsOK, RequestOK, Streams
      <4> QED
        BY <4>1, <4>3, StageOf
    <3> QED
      BY <3>1
  <2>6. emitted' = [r \in Request |-> IF r \in valid THEN emitted[r] + 1 ELSE emitted[r]]
    <3>1. \A r \in Request : emitted[r] \in Nat
      BY DEF TypeOK
    <3> HIDE DEF valid
    <3> QED
      BY <2>1, <3>1
  <2> HIDE DEF valid
  <2>7. Lifecycle!Produce(valid)
    <3>1. [r \in Request |-> seq[r].max_tokens]' = [r \in Request |-> seq[r].max_tokens]
      BY <2>3
    <3>2. \A r \in valid : Stage[r] = "live" /\ emitted[r] < [x \in Request |-> seq[x].max_tokens][r]
      BY <2>2, <2>5
    <3> QED
      BY <2>4, <2>6, <3>1, <3>2 DEF Lifecycle!Produce
  <2> QED
    BY <2>2, <2>7 DEF Lifecycle!GenNext
<1>5. CASE Schedule /\ UNCHANGED engineVars
  <2>1. UNCHANGED <<emitted, outcome>>
    BY <1>5 DEF engineVars
  <2>2. CASE AssignChunk
    <3>1. Live' = Live
      BY <2>2 DEF AssignChunk, queueVars, Live, Members
    <3>2. PICK r \in Members(prefilling) :
            \/ seq' = [seq EXCEPT ![r].chunk_size = NextChunk(seq[r])]
            \/ UNCHANGED seq
      BY <2>2, AssignQueues
    <3>3. \A x \in Request : seq'[x].max_tokens = seq[x].max_tokens
      <4>1. r \in Request
        BY <3>2, QueueTypes
      <4>2. CASE seq' = [seq EXCEPT ![r].chunk_size = NextChunk(seq[r])]
        BY <4>1, <4>2, ChunkOnly
      <4>3. CASE UNCHANGED seq
        BY <4>3
      <4> QED
        BY <3>2, <4>2, <4>3
    <3> QED
      BY <2>1, <3>1, <3>3, LifeGoesOn
  <2>3. CASE Promote
    <3>1. PICK r \in Request : r = Head(waiting)
      BY <2>3, PromoteTakes DEF Promote
    <3>2. /\ r \in Members(waiting)
          /\ Members(waiting)' = Members(waiting) \ {r}
          /\ Members(prefilling)' = Members(prefilling) \cup {r}
          /\ decoding' = decoding
      BY <2>3, <3>1, PromoteQueues
    <3>3. Live' = Live
      BY <3>2 DEF Live, Members
    <3>4. seq' = [seq EXCEPT ![r].chunk_size = NextChunk(seq[r])]
      BY <2>3, <3>1 DEF Promote
    <3>5. \A x \in Request : seq'[x].max_tokens = seq[x].max_tokens
      BY <3>4, ChunkOnly
    <3> QED
      BY <2>1, <3>3, <3>5, LifeGoesOn
  <2>4. CASE Preempt
    <3>1. PICK r \in Running :
            /\ Members(waiting)' = Members(waiting) \cup {r}
            /\ Members(prefilling)' = Members(prefilling) \ {r}
            /\ Members(decoding)' = Members(decoding) \ {r}
            /\ seq' = [seq EXCEPT ![r] = Restarted(seq[r])]
      BY <2>4, PreemptQueues
    <3>2. Live' = Live
      BY <3>1 DEF Live, Running
    <3>3. \A x \in Request : seq'[x].max_tokens = seq[x].max_tokens
      BY <3>1, QueueTypes DEF TypeOK, Sequence, Restarted, Running
    <3> QED
      BY <2>1, <3>2, <3>3, LifeGoesOn
  <2>5. CASE StaysPut \/ EnsureAllocate
    <3>1. UNCHANGED <<waiting, prefilling, decoding, seq>>
      BY <2>5, OtherQueues DEF StaysPut
    <3>2. Live' = Live
      BY <3>1 DEF Live, Members
    <3> QED
      BY <2>1, <3>1, <3>2, LifeGoesOn
  <2> QED
    BY <1>5, <2>2, <2>3, <2>4, <2>5 DEF Schedule, StaysPut
<1>6. CASE AdvancePrefill
  <2>1. UNCHANGED <<emitted, outcome>>
    BY <1>6 DEF AdvancePrefill
  <2>2. waiting' = waiting
    BY <1>6, AdvanceQueues
  <2>3. PICK r \in prefilled \cap Members(prefilling) :
          /\ \/ /\ Members(prefilling)' = Members(prefilling) \ {r}
                /\ Members(decoding)' = Members(decoding) \cup {r}
             \/ /\ Members(prefilling)' = Members(prefilling)
                /\ Members(decoding)' = Members(decoding)
          /\ \/ seq' = [seq EXCEPT ![r] = [Advanced(seq[r]) EXCEPT !.prefill_pending = FALSE]]
             \/ seq' = [seq EXCEPT ![r] = Advanced(seq[r])]
    BY <1>6, AdvanceQueues
  <2>4. Live' = Live
    BY <2>2, <2>3 DEF Live, Members
  <2>5. \A x \in Request : seq'[x].max_tokens = seq[x].max_tokens
    <3>1. r \in Request
      BY <2>3, QueueTypes
    <3>2. /\ Advanced(seq[r]).max_tokens = seq[r].max_tokens
          /\ [Advanced(seq[r]) EXCEPT !.prefill_pending = FALSE].max_tokens = seq[r].max_tokens
      BY <3>1 DEF TypeOK, Sequence, Advanced
    <3> QED
      BY <2>3, <3>1, <3>2 DEF TypeOK
  <2> QED
    BY <2>1, <2>4, <2>5, LifeGoesOn
<1>7. CASE RunnerFail \/ UNCHANGED vars \/ AdvanceDone \/ FinishDone \/ TakeResult
  <2>1. UNCHANGED <<emitted, outcome, waiting, prefilling, decoding, seq>>
    BY <1>7 DEF RunnerFail, vars, schedVars, engineVars, queueVars, AdvanceDone, FinishDone,
                TakeResult
  <2>2. Live' = Live
    BY <2>1 DEF Live, Members
  <2> QED
    BY <2>1, <2>2, LifeGoesOn
<1> QED
  BY <1>1, <1>2, <1>3, <1>4, <1>5, <1>6, <1>7 DEF Next, Step

\* Each request lives the life Generation.tla promises: accepted or turned away, one
\* token at a time within its limit, one end after which nothing follows, whatever
\* is preempted, cancelled or fails in between.
THEOREM EngineImplementsGeneration == Spec => ImplementsGeneration
<1>1. ASSUME Init PROVE Lifecycle!GenInit
  <2>1. /\ outcome = [r \in Request |-> Unfinished] /\ emitted = [r \in Request |-> 0]
        /\ seq = [r \in Request |-> NoSequence]
    BY <1>1 DEF Init, SchedInit
  <2>2. Live = {}
    <3>1. waiting = <<>> /\ prefilling = <<>> /\ decoding = <<>> /\ Len(<<>>) = 0
      BY <1>1 DEF Init, SchedInit
    <3> QED
      BY <3>1 DEF Live, Members
  <2>3. Stage = [r \in Request |-> "new"]
    BY <2>1, <2>2 DEF Stage, Unfinished
  <2>4. [r \in Request |-> seq[r].max_tokens] = [r \in Request |-> 0]
    BY <2>1 DEF NoSequence
  <2> QED
    BY <2>1, <2>3, <2>4 DEF Lifecycle!GenInit
<1>2. TypeOK /\ TypeOK' /\ QueuesApart /\ WaitingInOrder /\ RequestsOK /\ [Next]_vars =>
        [Lifecycle!GenNext]_(Lifecycle!genVars)
  BY NextIsLife
<1> QED
  BY <1>1, <1>2, EngineTypeCorrect, QueuesAlwaysInOrder, RequestsAlwaysOK, PTL
     DEF Spec, ImplementsGeneration, Lifecycle!GenSpec

-----------------------------------------------------------------------------
(* What the model is given to run *)

\* Every live request fits the pool, alone, with all it may still produce (add).
Admitted ==
  \A r \in Live : blocks_for(seq[r].prompt + seq[r].max_tokens) <= num_gpu_blocks

Resting == {"ready", "advance", "finish", "result"}

\* Who prefills at position i.  Behind the head everybody had its blocks when it
\* last ran; from the end of loop 1 on, only who has a chunk can be short of any;
\* and whom loop 3 has passed has them, or nobody left to take them from.
PrefillAt(i, r) ==
  /\ phase \in Resting /\ i > 1 /\ seq[r].prefill_pending => Covered(r)
  /\ phase = "assign" /\ (i > 1 \/ idx > 1) => seq[r].chunk_size > 0 \/ Covered(r)
  /\ phase \in {"promote", "ensure_prefilling"} => seq[r].chunk_size > 0 \/ Covered(r)
  /\ (phase = "ensure_prefilling" /\ i < idx) \/ phase \in {"ensure_decoding", "run"} =>
       Covered(r) \/ Len(prefilling) = 1

\* Who decodes at position i.
DecodeAt(i, r) ==
  (phase = "ensure_decoding" /\ i < idx) \/ phase = "run" => Covered(r) \/ Len(decoding) = 1

Supplied ==
  /\ \A i \in 1 .. Len(prefilling) : PrefillAt(i, prefilling[i])
  /\ \A i \in 1 .. Len(decoding) : DecodeAt(i, decoding[i])

\* Loop 1 gives the head of the prefilling queue a chunk, whatever the budget.
HeadServed ==
  /\ phase \in {"ready", "result"} => idx = 1 /\ prefill_tokens = 0
  /\ phase = "assign" /\ idx = 1 => prefill_tokens = 0
  /\ phase \in {"assign", "promote"} =>
       /\ ~is_idle
       /\ prefilling = <<>> => prefill_tokens = 0
       /\ prefilling # <<>> /\ (phase = "promote" \/ idx > 1) => seq[prefilling[1]].chunk_size > 0

\* Loop 3 keeps somebody to run.
SomebodyRuns == phase \in {"ensure_prefilling", "ensure_decoding", "run"} => Batch # {}

\* The chunks assigned, against the budgets of this step and of the failed ones.
WithinBudget ==
  IF phase \in {"advance", "finish", "result"}
  THEN \A r \in Members(prefilling) \ prefilled : seq[r].chunk_size = 0
  ELSE /\ prefill_tokens <= max_prefill_tokens
       /\ Cardinality(Chunks(Members(prefilling))) <= failures * max_prefill_tokens + prefill_tokens

BatchInv ==
  Admitted /\ Supplied /\ HeadServed /\ SomebodyRuns /\ WithinBudget

-----------------------------------------------------------------------------
\* Positions after one was removed.
LEMMA WithoutPositions ==
  ASSUME NEW q \in Seq(Request), NEW k \in 1 .. Len(q)
  PROVE  /\ Len(Without(q, k)) = Len(q) - 1 /\ Len(q) \in Nat
         /\ \A i \in 1 .. Len(Without(q, k)) :
              \E j \in 1 .. Len(q) :
                /\ j \in {i, i + 1} /\ (i < k => j = i) /\ (i >= k => j = i + 1)
                /\ Without(q, k)[i] = q[j]
<1>1. Len(q) \in Nat
  BY LenProperties
<1>2. Len(Without(q, k)) = Len(q) - 1
  BY <1>1 DEF Without
<1>3. ASSUME NEW i \in 1 .. Len(q) - 1
      PROVE  Without(q, k)[i] = IF i < k THEN q[i] ELSE q[i + 1]
  BY <1>1 DEF Without
<1>4. ASSUME NEW i \in 1 .. Len(Without(q, k))
      PROVE  \E j \in 1 .. Len(q) :
                /\ j \in {i, i + 1} /\ (i < k => j = i) /\ (i >= k => j = i + 1)
                /\ Without(q, k)[i] = q[j]
  <2>1. CASE i < k
    <3>1. i \in 1 .. Len(q) /\ Without(q, k)[i] = q[i] /\ ~(i >= k)
      BY <1>1, <1>2, <1>3, <2>1
    <3> QED
      BY <2>1, <3>1
  <2>2. CASE ~(i < k)
    <3>1. i + 1 \in 1 .. Len(q) /\ Without(q, k)[i] = q[i + 1]
      BY <1>1, <1>2, <1>3, <2>2
    <3> QED
      BY <2>2, <3>1
  <2> QED
    BY <2>1, <2>2
<1> QED
  BY <1>1, <1>2, <1>4

\* Who is at position i of a queue of requests.
LEMMA AtPosition ==
  ASSUME NEW q \in Seq(Request)
  PROVE  /\ Len(q) \in Nat
         /\ \A i \in 1 .. Len(q) : q[i] \in Members(q) /\ q[i] \in Request
         /\ \A r \in Members(q) : \E i \in 1 .. Len(q) : q[i] = r
         /\ q = <<>> <=> Len(q) = 0
         /\ Members(q) = {} <=> Len(q) = 0
<1>1. Len(q) \in Nat /\ \A i \in 1 .. Len(q) : q[i] \in Request
  BY LenProperties, ElementOfSeq
<1>2. q = <<>> <=> Len(q) = 0
  BY EmptySeq
<1>3. /\ \A i \in 1 .. Len(q) : q[i] \in Members(q)
      /\ \A r \in Members(q) : \E i \in 1 .. Len(q) : q[i] = r
  BY DEF Members
<1>4. Len(q) # 0 => 1 \in 1 .. Len(q)
  BY <1>1
<1>5. Len(q) = 0 => \A i \in 1 .. Len(q) : FALSE
  OBVIOUS
<1>6. Members(q) = {} <=> Len(q) = 0
  BY <1>3, <1>4, <1>5
<1> QED
  BY <1>1, <1>2, <1>3, <1>6

\* A larger sequence needs no fewer blocks.
LEMMA BlocksForGrows ==
  ASSUME NEW m \in Nat, NEW n \in Nat, m <= n
  PROVE  blocks_for(m) <= blocks_for(n)
<1>1. block_size \in Nat \ {0}
  BY SchedulerAssumption
<1>2. m + block_size - 1 \in Nat /\ n + block_size - 1 \in Nat
      /\ m + block_size - 1 <= n + block_size - 1
  BY <1>1
<1>3. \A a \in Nat, b \in Nat, d \in Nat \ {0} : a <= b => a \div d <= b \div d
  OBVIOUS
<1> QED
  BY <1>1, <1>2, <1>3 DEF blocks_for

\* The chunks of finitely many requests are finitely many tokens.
LEMMA ChunksFinite ==
  ASSUME NEW S \in SUBSET Request, NEW c \in [Request -> Nat]
  PROVE  IsFiniteSet(UNION {{r} \X (1 .. c[r]) : r \in S})
<1> DEFINE f == [r \in S |-> {r} \X (1 .. c[r])]
           T == {f[r] : r \in S}
<1>1. IsFiniteSet(S)
  BY SchedulerAssumption, FS_Subset
<1>2. f \in Surjection(S, T)
  BY DEF Surjection
<1>3. IsFiniteSet(T)
  BY <1>1, <1>2, FS_Surjection
<1>4. ASSUME NEW r \in S PROVE IsFiniteSet(f[r])
  <2>1. IsFiniteSet({r})
    BY FS_Singleton
  <2>2. c[r] \in Nat /\ IsFiniteSet(1 .. c[r])
    BY FS_Interval
  <2>3. IsFiniteSet({r} \X (1 .. c[r]))
    BY <2>1, <2>2, FS_Product
  <2> QED
    BY <2>3
<1>5. IsFiniteSet(UNION T)
  BY <1>3, <1>4, FS_UNION
<1>6. UNION T = UNION {{r} \X (1 .. c[r]) : r \in S}
  OBVIOUS
<1> QED
  BY <1>5, <1>6

\* One more chunk is as many more tokens, and dropping chunks adds none.
LEMMA ChunksGrow ==
  ASSUME NEW S \in SUBSET Request, NEW c \in [Request -> Nat],
         NEW T \in SUBSET Request, NEW d \in [Request -> Nat],
         NEW r \in Request, T \subseteq S \cup {r}, \A x \in T \ {r} : d[x] = c[x]
  PROVE  /\ Cardinality(UNION {{x} \X (1 .. d[x]) : x \in T})
              <= Cardinality(UNION {{x} \X (1 .. c[x]) : x \in S}) + d[r]
         /\ Cardinality(UNION {{x} \X (1 .. c[x]) : x \in S}) \in Nat
         /\ Cardinality(UNION {{x} \X (1 .. d[x]) : x \in T}) \in Nat
<1> DEFINE A == UNION {{x} \X (1 .. c[x]) : x \in S}
           B == UNION {{x} \X (1 .. d[x]) : x \in T}
           N == {r} \X (1 .. d[r])
<1>1. IsFiniteSet(A) /\ IsFiniteSet(B)
  BY ChunksFinite
<1>2. IsFiniteSet(N) /\ Cardinality(N) = d[r]
  <2>1. IsFiniteSet({r}) /\ Cardinality({r}) = 1
    BY FS_Singleton
  <2>2. d[r] \in Nat
    OBVIOUS
  <2>3. IsFiniteSet(1 .. d[r]) /\ Cardinality(1 .. d[r]) = d[r]
    BY <2>2, FS_Interval
  <2>4. IsFiniteSet(N) /\ Cardinality(N) = 1 * d[r]
    BY <2>1, <2>3, FS_Product
  <2> QED
    BY <2>2, <2>4
<1>3. B \subseteq A \cup N
  <2> SUFFICES ASSUME NEW x \in T, NEW y \in {x} \X (1 .. d[x]) PROVE y \in A \cup N
    OBVIOUS
  <2>1. CASE x = r
    BY <2>1
  <2>2. CASE x # r
    <3>1. x \in S /\ d[x] = c[x]
      BY <2>2
    <3> QED
      BY <3>1
  <2> QED
    BY <2>1, <2>2
<1>4. /\ IsFiniteSet(A \cup N)
      /\ Cardinality(A \cup N) = Cardinality(A) + Cardinality(N) - Cardinality(A \cap N)
  BY <1>1, <1>2, FS_Union
<1>5. IsFiniteSet(A \cap N)
  BY <1>1, FS_Intersection
<1>6. Cardinality(B) <= Cardinality(A \cup N)
  BY <1>3, <1>4, FS_Subset
<1>7. /\ Cardinality(A) \in Nat /\ Cardinality(B) \in Nat
      /\ Cardinality(A \cap N) \in Nat /\ Cardinality(N) \in Nat
  BY <1>1, <1>2, <1>5, FS_CardinalityType
<1> HIDE DEF A, B, N
<1>8. Cardinality(B) <= Cardinality(A) + d[r]
  BY <1>2, <1>4, <1>6, <1>7
<1> QED
  BY <1>7, <1>8 DEF A, B

\* Who stays keeps the length it was admitted with.
Stay(r) ==
  r \in Live /\ seq'[r].prompt = seq[r].prompt /\ seq'[r].max_tokens = seq[r].max_tokens

\* Only add makes a request live, after its check.
LEMMA NextAdmitted ==
  ASSUME TypeOK, QueuesApart, WaitingInOrder, Admitted, [Next]_vars
  PROVE  Admitted'
<1> SUFFICES ASSUME NEW x \in Request, x \in Live'
             PROVE  \/ Stay(x)
                    \/ blocks_for(seq'[x].prompt + seq'[x].max_tokens) <= num_gpu_blocks
  <2>1. Live' \subseteq Request
    <3>1. waiting' \in Seq(Request) /\ prefilling' \in Seq(Request) /\ decoding' \in Seq(Request)
      BY NextType DEF TypeOK
    <3>2. /\ Members(waiting') \subseteq Request /\ Members(prefilling') \subseteq Request
          /\ Members(decoding') \subseteq Request
      BY <3>1, MembersType
    <3> QED
      BY <3>2 DEF Live, Members
  <2>2. ASSUME NEW y \in Live'
        PROVE  blocks_for(seq'[y].prompt + seq'[y].max_tokens) <= num_gpu_blocks
    BY <2>1, <2>2 DEF Admitted, Stay
  <2> QED
    BY <2>2 DEF Admitted, blocks_for, num_gpu_blocks
<1>0. seq[x] \in Sequence
  BY DEF TypeOK
<1>1. ASSUME NEW r \in Request, NEW prompt \in PromptLen, NEW max_tokens \in MaxTokens,
             NEW priority \in Priority, Submit(r, prompt, max_tokens, priority)
      PROVE  \/ Stay(x)
             \/ blocks_for(seq'[x].prompt + seq'[x].max_tokens) <= num_gpu_blocks
  <2>1. CASE UNCHANGED schedVars
    BY <2>1 DEF schedVars, queueVars, Live, Members, Stay
  <2>2. CASE Add(r, prompt, max_tokens, priority)
    <3>1. /\ Members(waiting)' = Members(waiting) \cup {r}
          /\ prefilling' = prefilling /\ decoding' = decoding
          /\ seq' = [seq EXCEPT ![r] =
                       [NoSequence EXCEPT !.prompt = prompt, !.max_tokens = max_tokens,
                                          !.priority = priority, !.arrival = next_arrival]]
      <4>1. r \notin Live
        BY <1>1 DEF Submit, IsNew
      <4>2. Members(waiting)' = Members(waiting) \cup {r}
        BY <2>2, <4>1, AddQueues
      <4> QED
        BY <2>2, <4>2 DEF Add
    <3>2. CASE x = r
      <4>1. seq'[x].prompt = prompt /\ seq'[x].max_tokens = max_tokens
        BY <3>1, <3>2 DEF TypeOK, NoSequence
      <4>2. blocks_for(prompt + max_tokens) <= num_gpu_blocks
        BY <2>2 DEF Add
      <4> QED
        BY <4>1, <4>2
    <3>3. CASE x # r
      BY <3>1, <3>3 DEF TypeOK, Live, Members, Stay
    <3> QED
      BY <3>2, <3>3
  <2> QED
    BY <1>1, <2>1, <2>2 DEF Submit
<1>2. ASSUME NEW r \in Request, CancelSeq(r) PROVE Stay(x)
  <2>1. /\ Members(waiting)' = Members(waiting) \ {r}
        /\ Members(prefilling)' = Members(prefilling) \ {r}
        /\ Members(decoding)' = Members(decoding) \ {r}
    BY <1>2, CancelQueues
  <2>2. seq' = [seq EXCEPT ![r] = NoSequence]
    BY <1>2 DEF CancelSeq, CancelWaiting, Finish
  <2>3. x # r /\ x \in Live
    BY <2>1 DEF Live
  <2> QED
    BY <2>2, <2>3 DEF TypeOK, Stay
<1>3. CASE AssignChunk
  <2>1. PICK r \in Members(prefilling) :
          \/ seq' = [seq EXCEPT ![r].chunk_size = NextChunk(seq[r])]
          \/ UNCHANGED seq
    BY <1>3, AssignQueues
  <2>2. Live' = Live
    BY <1>3 DEF AssignChunk, queueVars, Live, Members
  <2>3. r \in Request
    BY <2>1, QueueTypes
  <2>4. seq'[x].prompt = seq[x].prompt /\ seq'[x].max_tokens = seq[x].max_tokens
    <3>1. CASE seq' = [seq EXCEPT ![r].chunk_size = NextChunk(seq[r])]
      BY <1>0, <2>3, <3>1 DEF TypeOK, Sequence
    <3>2. CASE UNCHANGED seq
      BY <3>2
    <3> QED
      BY <2>1, <3>1, <3>2
  <2> QED
    BY <2>2, <2>4 DEF Stay
<1>4. CASE Promote
  <2>1. PICK r \in Request :
          /\ seq' = [seq EXCEPT ![r].chunk_size = NextChunk(seq[r])]
          /\ r \in Members(waiting)
          /\ Members(waiting)' = Members(waiting) \ {r}
          /\ Members(prefilling)' = Members(prefilling) \cup {r}
          /\ decoding' = decoding
    BY <1>4, PromoteQueues, PromoteTakes DEF Promote
  <2>2. x \in Live
    BY <2>1 DEF Live, Members
  <2> QED
    BY <1>0, <2>1, <2>2 DEF TypeOK, Stay, Sequence
<1>5. CASE Preempt
  <2>1. PICK v \in Running :
          /\ Members(waiting)' = Members(waiting) \cup {v}
          /\ Members(prefilling)' = Members(prefilling) \ {v}
          /\ Members(decoding)' = Members(decoding) \ {v}
          /\ seq' = [seq EXCEPT ![v] = Restarted(seq[v])]
    BY <1>5, PreemptQueues
  <2>2. x \in Live
    BY <2>1 DEF Live, Running
  <2> QED
    BY <1>0, <2>1, <2>2 DEF TypeOK, Stay, Sequence, Restarted
<1>6. CASE (\E eos \in SUBSET Batch : RunnerStep(eos)) \/ RunnerFail
  <2>1. \/ seq'[x] = seq[x]
        \/ seq'[x] = [seq[x] EXCEPT !.output = OutputAfter(x),
                                    !.prefill_pending = @ /\ ~is_final_chunk(seq[x])]
    BY <1>6 DEF RunnerStep, RunnerFail
  <2>2. Live' = Live
    BY <1>6, RunnerQueues DEF queueVars, Live, Members
  <2> QED
    BY <1>0, <2>1, <2>2 DEF Stay, Sequence
<1>7. CASE AdvancePrefill
  <2>1. PICK r \in prefilled \cap Members(prefilling) :
          LET s == Advanced(seq[r])
          IN  IF s.prefill_pos >= s.prompt
              THEN /\ Members(prefilling)' = Members(prefilling) \ {r}
                   /\ Members(decoding)' = Members(decoding) \cup {r}
                   /\ seq' = [seq EXCEPT ![r] = [s EXCEPT !.prefill_pending = FALSE]]
              ELSE /\ Members(prefilling)' = Members(prefilling)
                   /\ Members(decoding)' = Members(decoding)
                   /\ seq' = [seq EXCEPT ![r] = s]
    BY <1>7, AdvanceQueues
  <2>2. Members(waiting)' = Members(waiting)
    BY <1>7, AdvanceQueues DEF Members
  <2>3. x \in Live
    BY <2>1, <2>2 DEF Live
  <2>4. \/ seq'[x] = seq[x] \/ seq'[x] = Advanced(seq[x])
        \/ seq'[x] = [Advanced(seq[x]) EXCEPT !.prefill_pending = FALSE]
    BY <2>1 DEF TypeOK
  <2> QED
    BY <1>0, <2>3, <2>4 DEF Stay, Sequence, Advanced
<1>8. CASE FinishSeq
  <2>1. PICK r \in Request : Finish(r)
    BY <1>8 DEF FinishSeq, TypeOK
  <2>2. /\ waiting' = waiting
        /\ Members(prefilling)' = Members(prefilling) \ {r}
        /\ Members(decoding)' = Members(decoding) \ {r}
        /\ r \notin Members(waiting)
    BY <2>1, FinishQueues DEF QueuesApart, Running
  <2>3. seq' = [seq EXCEPT ![r] = NoSequence]
    BY <2>1 DEF Finish
  <2>4. x # r /\ x \in Live
    BY <2>2 DEF Live, Members
  <2> QED
    BY <2>3, <2>4 DEF TypeOK, Stay
<1>9. CASE UNCHANGED vars \/ StaysPut
  <2>1. UNCHANGED <<waiting, prefilling, decoding, seq>>
    BY <1>9, OtherQueues
  <2> QED
    BY <2>1 DEF Live, Members, Stay
<1>10. ASSUME NEW r \in Request, Cancel(r) PROVE Stay(x)
  BY <1>2, <1>10 DEF Cancel
<1> QED
  BY <1>1, <1>3, <1>4, <1>5, <1>6, <1>7, <1>8, <1>9, <1>10
     DEF Next, Step, Schedule, StaysPut

-----------------------------------------------------------------------------
\* What holds at every position of the next queues holds of those queues.
LEMMA SuppliedNext ==
  ASSUME TypeOK',
         \A i \in Nat \ {0}, r \in Request :
           /\ i <= Len(prefilling') /\ r = prefilling'[i] => PrefillAt(i, r)'
           /\ i <= Len(decoding') /\ r = decoding'[i] => DecodeAt(i, r)'
  PROVE  Supplied'
<1>1. /\ \A i \in 1 .. Len(prefilling') : prefilling'[i] \in Request /\ i \in Nat \ {0} /\ i <= Len(prefilling')
      /\ \A i \in 1 .. Len(decoding') : decoding'[i] \in Request /\ i \in Nat \ {0} /\ i <= Len(decoding')
  <2>1. prefilling' \in Seq(Request) /\ decoding' \in Seq(Request)
    BY DEF TypeOK
  <2> QED
    BY <2>1, AtPosition
<1>2. ASSUME NEW i \in 1 .. Len(prefilling') PROVE PrefillAt(i, prefilling[i])'
  <2>1. PICK r \in Request : r = prefilling'[i]
    BY <1>1
  <2>2. PrefillAt(i, r)'
    BY <1>1, <2>1
  <2> QED
    BY <2>1, <2>2 DEF PrefillAt, Covered, SeqLen, blocks_for, Resting
<1>3. ASSUME NEW i \in 1 .. Len(decoding') PROVE DecodeAt(i, decoding[i])'
  <2>1. PICK r \in Request : r = decoding'[i]
    BY <1>1
  <2>2. DecodeAt(i, r)'
    BY <1>1, <2>1
  <2> QED
    BY <2>1, <2>2 DEF DecodeAt, Covered, SeqLen, blocks_for
<1> QED
  BY <1>2, <1>3 DEF Supplied

\* More blocks for the same sequence cover it as well.
LEMMA StillCovered ==
  ASSUME TypeOK, NEW r \in Request, Covered(r),
         SeqLen(seq'[r]) = SeqLen(seq[r]), blocks'[r] \in SUBSET Block, blocks[r] \subseteq blocks'[r]
  PROVE  Covered(r)'
<1>1. IsFiniteSet(blocks'[r]) /\ IsFiniteSet(blocks[r])
  BY SchedulerAssumption, FS_Subset
<1>2. Cardinality(blocks[r]) <= Cardinality(blocks'[r])
  BY <1>1, FS_Subset
<1>3. Cardinality(blocks[r]) \in Nat /\ Cardinality(blocks'[r]) \in Nat
  BY <1>1, FS_CardinalityType
<1>4. SeqLen(seq[r]) \in Nat
  BY DEF TypeOK, Sequence, SeqLen
<1>5. blocks_for(SeqLen(seq[r])) \in Nat
  BY <1>4, BlocksForType
<1>6. Cardinality(blocks'[r]) >= blocks_for(SeqLen(seq[r]))
  BY <1>2, <1>3, <1>5 DEF Covered
<1> QED
  BY <1>6 DEF Covered, SeqLen, blocks_for

\* Tokens of a set of requests, as a set of pairs of a function.
LEMMA ChunksOf ==
  ASSUME TypeOK, NEW S \in SUBSET Request
  PROVE  Chunks(S) = UNION {{x} \X (1 .. [y \in Request |-> seq[y].chunk_size][x]) : x \in S}
BY DEF Chunks

\* A chunk more, for one request.
LEMMA BudgetGrows ==
  ASSUME TypeOK, TypeOK', NEW r \in Request,
         Members(prefilling') \subseteq Members(prefilling) \cup {r},
         \A x \in Members(prefilling') : x # r => seq'[x].chunk_size = seq[x].chunk_size
  PROVE  /\ Cardinality(Chunks(Members(prefilling)))' <=
              Cardinality(Chunks(Members(prefilling))) + seq'[r].chunk_size
         /\ Cardinality(Chunks(Members(prefilling))) \in Nat
         /\ Cardinality(Chunks(Members(prefilling)))' \in Nat
<1>1. PICK S \in SUBSET Request : S = Members(prefilling)
  BY QueueTypes
<1>2. PICK T \in SUBSET Request : T = Members(prefilling')
  BY MembersType DEF TypeOK
<1>3. PICK c \in [Request -> Nat] : c = [x \in Request |-> seq[x].chunk_size]
  BY DEF TypeOK, Sequence
<1>4. PICK d \in [Request -> Nat] : d = [x \in Request |-> seq'[x].chunk_size]
  BY DEF TypeOK, Sequence
<1>5. Chunks(Members(prefilling)) = UNION {{x} \X (1 .. c[x]) : x \in S}
  BY <1>1, <1>3 DEF Chunks
<1>6. Chunks(Members(prefilling))' = UNION {{x} \X (1 .. d[x]) : x \in T}
  <2>1. Chunks(Members(prefilling))' = UNION {{x} \X (1 .. seq'[x].chunk_size) : x \in T}
    BY <1>2 DEF Chunks, Members
  <2>2. \A x \in T : seq'[x].chunk_size = d[x]
    BY <1>4
  <2> QED
    BY <2>1, <2>2
<1>7. T \subseteq S \cup {r} /\ \A x \in T \ {r} : d[x] = c[x]
  BY <1>1, <1>2, <1>3, <1>4
<1>8. /\ Cardinality(UNION {{x} \X (1 .. d[x]) : x \in T})
           <= Cardinality(UNION {{x} \X (1 .. c[x]) : x \in S}) + d[r]
      /\ Cardinality(UNION {{x} \X (1 .. c[x]) : x \in S}) \in Nat
      /\ Cardinality(UNION {{x} \X (1 .. d[x]) : x \in T}) \in Nat
  BY <1>7, ChunksGrow
<1>9. d[r] = seq'[r].chunk_size
  BY <1>4
<1> QED
  BY <1>5, <1>6, <1>8, <1>9

\* Requests leave, and the others keep their chunks.
LEMMA BudgetShrinks ==
  ASSUME TypeOK, Members(prefilling') \subseteq Members(prefilling),
         \A x \in Members(prefilling') : seq'[x].chunk_size = seq[x].chunk_size
  PROVE  /\ Cardinality(Chunks(Members(prefilling)))' <= Cardinality(Chunks(Members(prefilling)))
         /\ Cardinality(Chunks(Members(prefilling))) \in Nat
         /\ Cardinality(Chunks(Members(prefilling)))' \in Nat
<1>1. PICK S \in SUBSET Request : S = Members(prefilling)
  BY QueueTypes
<1>2. PICK c \in [Request -> Nat] : c = [x \in Request |-> seq[x].chunk_size]
  BY DEF TypeOK, Sequence
<1>3. Chunks(Members(prefilling)) = UNION {{x} \X (1 .. c[x]) : x \in S}
  BY <1>1, <1>2 DEF Chunks
<1>4. IsFiniteSet(Chunks(Members(prefilling)))
  BY <1>3, ChunksFinite
<1>5. Chunks(Members(prefilling))' \subseteq Chunks(Members(prefilling))
  <2>1. Chunks(Members(prefilling))' = UNION {{x} \X (1 .. seq'[x].chunk_size) : x \in Members(prefilling')}
    BY DEF Chunks, Members
  <2>2. \A x \in Members(prefilling') :
          x \in Members(prefilling) /\ {x} \X (1 .. seq'[x].chunk_size) = {x} \X (1 .. seq[x].chunk_size)
    OBVIOUS
  <2> QED
    BY <2>1, <2>2 DEF Chunks
<1>6. /\ IsFiniteSet(Chunks(Members(prefilling))')
      /\ Cardinality(Chunks(Members(prefilling))') <= Cardinality(Chunks(Members(prefilling)))
  BY <1>4, <1>5, FS_Subset
<1>7. /\ Cardinality(Chunks(Members(prefilling))') \in Nat
      /\ Cardinality(Chunks(Members(prefilling))) \in Nat
  BY <1>4, <1>6, FS_CardinalityType
<1> QED
  BY <1>6, <1>7

-----------------------------------------------------------------------------
\* The steps that move the loops on.  Nobody's blocks or chunks change.
Still == UNCHANGED <<waiting, prefilling, decoding, seq, blocks, failures>>

LEMMA StillFrame ==
  ASSUME TypeOK, Still
  PROVE  /\ \A r \in Request : Covered(r)' <=> Covered(r)
         /\ Batch' = Batch /\ Members(prefilling)' = Members(prefilling)
         /\ Cardinality(Chunks(Members(prefilling)))' = Cardinality(Chunks(Members(prefilling)))
         /\ Cardinality(Chunks(Members(prefilling))) \in Nat
         /\ is_idle' = is_idle
<1>1. \A r \in Request : Covered(r)' <=> Covered(r)
  BY DEF Still, Covered, SeqLen, blocks_for
<1>2. Batch' = Batch /\ Members(prefilling)' = Members(prefilling)
  BY DEF Still, Batch, Members
<1>3. Chunks(Members(prefilling))' = Chunks(Members(prefilling))
  BY DEF Still, Chunks, Members
<1>4. Cardinality(Chunks(Members(prefilling))) \in Nat
  BY BudgetShrinks DEF Still, Members
<1>5. is_idle' = is_idle
  BY DEF Still, is_idle
<1> QED
  BY <1>1, <1>2, <1>3, <1>4, <1>5

\* Who prefills between the phases of a step has its prompt to go on with.
LEMMA PrefillingGoesOn ==
  ASSUME TypeOK, RequestsOK, phase # "advance", NEW r \in Members(prefilling)
  PROVE  /\ r \in Request /\ r \notin prefilled
         /\ seq[r].prefill_pending /\ seq[r].prefill_pos < seq[r].prompt
BY QueueTypes DEF RequestsOK, StepShape, RequestOK, PrefillsOn

\* The next chunk is a part of the prompt, within the step's budget.
LEMMA NextChunkSize ==
  ASSUME prefill_chunk_size <= max_prefill_tokens,
         NEW s \in Sequence, s.prefill_pos < s.prompt
  PROVE  /\ NextChunk(s) \in Nat \ {0}
         /\ NextChunk(s) <= max_prefill_tokens
         /\ s.prefill_pos + NextChunk(s) <= s.prompt
BY SchedulerAssumption DEF NextChunk, Sequence

\* Loop 1 does not break at the head of the queue.
LEMMA HeadFits ==
  ASSUME prefill_chunk_size <= max_prefill_tokens,
         TypeOK, RequestsOK, HeadServed, phase = "assign", idx = 1, prefilling # <<>>
  PROVE  MoreChunks
<1>1. /\ Len(prefilling) \in Nat \ {0} /\ prefilling[1] \in Members(prefilling)
      /\ 1 <= Len(prefilling)
  <2>1. Len(prefilling) \in Nat /\ Len(prefilling) # 0
    BY AtPosition DEF TypeOK
  <2>2. 1 \in 1 .. Len(prefilling)
    BY <2>1
  <2> QED
    BY <2>1, <2>2, AtPosition DEF TypeOK
<1>2. prefilling[1] \in Request /\ seq[prefilling[1]].prefill_pos < seq[prefilling[1]].prompt
  BY <1>1, PrefillingGoesOn
<1>3. seq[prefilling[1]] \in Sequence
  BY <1>2 DEF TypeOK
<1>4. NextChunk(seq[prefilling[1]]) \in Nat /\ NextChunk(seq[prefilling[1]]) <= max_prefill_tokens
  BY <1>2, <1>3, NextChunkSize
<1>5. prefill_tokens = 0
  BY DEF HeadServed
<1>6. ~(prefill_tokens + NextChunk(seq[prefilling[1]]) > max_prefill_tokens)
  BY <1>4, <1>5, SchedulerAssumption
<1> QED
  BY <1>1, <1>6 DEF MoreChunks, ChunkOverBudget

\* schedule() begins.
LEMMA BeginRunnable ==
  ASSUME TypeOK, TypeOK', RequestsOK, BatchInv, BeginSchedule, UNCHANGED engineVars
  PROVE  Supplied' /\ HeadServed' /\ SomebodyRuns' /\ WithinBudget'
<1>1. /\ Still /\ phase = "ready" /\ phase' = "assign" /\ ~is_idle
      /\ idx' = idx /\ prefill_tokens' = prefill_tokens /\ prefilled' = prefilled
  BY DEF BeginSchedule, engineVars, queueVars, Still
<1>2. idx = 1 /\ prefill_tokens = 0
  BY <1>1 DEF BatchInv, HeadServed
<1>3. Supplied'
  <2>1. ASSUME NEW i \in Nat \ {0}, NEW r \in Request
        PROVE  /\ i <= Len(prefilling') /\ r = prefilling'[i] => PrefillAt(i, r)'
               /\ i <= Len(decoding') /\ r = decoding'[i] => DecodeAt(i, r)'
    <3>1. ASSUME i <= Len(prefilling), r = prefilling[i], i > 1 PROVE Covered(r)
      <4>1. i \in 1 .. Len(prefilling) /\ r \in Members(prefilling)
        BY <3>1, QueueTypes DEF Members
      <4>2. PrefillAt(i, r)
        BY <3>1, <4>1 DEF BatchInv, Supplied
      <4> QED
        BY <1>1, <3>1, <4>1, <4>2, PrefillingGoesOn DEF PrefillAt, Resting
    <3>2. prefilling' = prefilling /\ (Covered(r)' <=> Covered(r))
      BY <1>1, StillFrame DEF Still
    <3> QED
      BY <1>1, <1>2, <3>1, <3>2 DEF PrefillAt, DecodeAt, Resting
  <2> QED
    BY <2>1, SuppliedNext
<1>4. HeadServed'
  BY <1>1, <1>2, StillFrame DEF HeadServed
<1>5. SomebodyRuns'
  BY <1>1 DEF SomebodyRuns
<1>6. WithinBudget'
  BY <1>1, StillFrame DEF BatchInv, WithinBudget, Still
<1> QED
  BY <1>3, <1>4, <1>5, <1>6

\* Loop 1 ends.
LEMMA AssignDoneRunnable ==
  ASSUME prefill_chunk_size <= max_prefill_tokens,
         TypeOK, TypeOK', RequestsOK, BatchInv, AssignDone, UNCHANGED engineVars
  PROVE  Supplied' /\ HeadServed' /\ SomebodyRuns' /\ WithinBudget'
<1>1. /\ Still /\ phase = "assign" /\ phase' = "promote" /\ ~MoreChunks
      /\ idx' = idx /\ prefill_tokens' = prefill_tokens /\ prefilled' = prefilled
  BY DEF AssignDone, engineVars, queueVars, Still
<1>2. prefilling # <<>> => idx > 1
  <2>1. idx \in Nat \ {0}
    BY DEF TypeOK
  <2> QED
    BY <1>1, <2>1, HeadFits DEF BatchInv
<1>3. Supplied'
  <2>1. ASSUME NEW i \in Nat \ {0}, NEW r \in Request
        PROVE  /\ i <= Len(prefilling') /\ r = prefilling'[i] => PrefillAt(i, r)'
               /\ i <= Len(decoding') /\ r = decoding'[i] => DecodeAt(i, r)'
    <3>1. ASSUME i <= Len(prefilling), r = prefilling[i] PROVE seq[r].chunk_size > 0 \/ Covered(r)
      <4>1. i \in 1 .. Len(prefilling) /\ prefilling # <<>>
        BY <3>1, QueueTypes, AtPosition DEF TypeOK
      <4>2. PrefillAt(i, r)
        BY <3>1, <4>1 DEF BatchInv, Supplied
      <4> QED
        BY <1>1, <1>2, <4>1, <4>2 DEF PrefillAt
    <3>2. prefilling' = prefilling /\ (Covered(r)' <=> Covered(r)) /\ seq' = seq
      BY <1>1, StillFrame DEF Still
    <3> QED
      BY <1>1, <3>1, <3>2 DEF PrefillAt, DecodeAt, Resting
  <2> QED
    BY <2>1, SuppliedNext
<1>4. HeadServed'
  BY <1>1, <1>2, StillFrame DEF BatchInv, HeadServed, Still
<1>5. SomebodyRuns'
  BY <1>1 DEF SomebodyRuns
<1>6. WithinBudget'
  BY <1>1, StillFrame DEF BatchInv, WithinBudget, Still
<1> QED
  BY <1>3, <1>4, <1>5, <1>6

\* When nobody runs, all blocks are free and the head of the waiting list is
\* promoted: admission control saw to it that it fits.
LEMMA HeadPromotes ==
  ASSUME TypeOK, BlocksPartitioned, RequestsOK, BatchInv,
         phase = "promote", prefilling = <<>>, decoding = <<>>
  PROVE  CanPromote
<1>1. waiting # <<>> /\ prefill_tokens = 0
  BY DEF BatchInv, HeadServed, is_idle
<1>2. PICK r \in Request : r = Head(waiting) /\ r \in Members(waiting)
  <2>1. Len(waiting) \in Nat /\ Len(waiting) # 0
    BY <1>1, AtPosition DEF TypeOK
  <2>2. 1 \in 1 .. Len(waiting)
    BY <2>1
  <2>3. waiting[1] \in Members(waiting) /\ waiting[1] \in Request
    BY <2>2, AtPosition DEF TypeOK
  <2>4. Head(waiting) = waiting[1]
    BY <1>1, HeadTailProperties DEF TypeOK
  <2> QED
    BY <2>3, <2>4
<1>3. /\ seq[r] \in Sequence /\ seq[r].prefill_pos = 0 /\ seq[r].prompt > 0
      /\ seq[r].output <= seq[r].max_tokens
      /\ blocks_for(seq[r].prompt + seq[r].max_tokens) <= num_gpu_blocks
  BY <1>2 DEF TypeOK, RequestsOK, RequestOK, WaitsAfresh, Streams, Live, BatchInv, Admitted
<1>4. NextChunk(seq[r]) \in Nat /\ NextChunk(seq[r]) <= seq[r].prompt
  BY <1>3, SchedulerAssumption DEF NextChunk, Sequence
<1>5. /\ seq[r].prefill_pos + NextChunk(seq[r]) + seq[r].output \in Nat
      /\ seq[r].prompt + seq[r].max_tokens \in Nat
      /\ seq[r].prefill_pos + NextChunk(seq[r]) + seq[r].output <= seq[r].prompt + seq[r].max_tokens
  BY <1>3, <1>4 DEF Sequence
<1>6. PromotionNeed(seq[r]) <= blocks_for(seq[r].prompt + seq[r].max_tokens)
  BY <1>5, BlocksForGrows DEF PromotionNeed
<1>7. free = Block
  <2>1. Members(prefilling) = {} /\ Members(decoding) = {}
    BY DEF Members
  <2>2. \A x \in Request : blocks[x] = {}
    BY <2>1 DEF RequestsOK, RequestOK, HoldsRunning, Running
  <2> QED
    BY <2>2 DEF BlocksPartitioned
<1>8. PromotionNeed(seq[r]) <= Cardinality(free)
  <2>1. PromotionNeed(seq[r]) \in Nat /\ blocks_for(seq[r].prompt + seq[r].max_tokens) \in Nat
    BY <1>5, BlocksForType DEF PromotionNeed
  <2>2. num_gpu_blocks \in Nat
    BY SchedulerAssumption, FS_CardinalityType DEF num_gpu_blocks
  <2>3. Cardinality(free) = num_gpu_blocks
    BY <1>7 DEF num_gpu_blocks
  <2> QED
    BY <1>3, <1>6, <2>1, <2>2, <2>3
<1>9. Len(prefilling) + Len(decoding) < max_num_seqs
  BY SchedulerAssumption
<1> QED
  BY <1>1, <1>2, <1>8, <1>9 DEF CanPromote, FitsBudget

\* Loop 2 ends.
LEMMA PromoteDoneRunnable ==
  ASSUME TypeOK, TypeOK', BlocksPartitioned, RequestsOK, BatchInv, PromoteDone,
         UNCHANGED engineVars
  PROVE  Supplied' /\ HeadServed' /\ SomebodyRuns' /\ WithinBudget'
<1>1. /\ Still /\ phase = "promote" /\ phase' = "ensure_prefilling" /\ ~CanPromote
      /\ idx' = 1 /\ prefill_tokens' = prefill_tokens /\ prefilled' = prefilled
  BY DEF PromoteDone, engineVars, queueVars, Still
<1>2. Supplied'
  <2>1. ASSUME NEW i \in Nat \ {0}, NEW r \in Request
        PROVE  /\ i <= Len(prefilling') /\ r = prefilling'[i] => PrefillAt(i, r)'
               /\ i <= Len(decoding') /\ r = decoding'[i] => DecodeAt(i, r)'
    <3>1. ASSUME i <= Len(prefilling), r = prefilling[i] PROVE seq[r].chunk_size > 0 \/ Covered(r)
      <4>1. i \in 1 .. Len(prefilling)
        BY <3>1, QueueTypes
      <4>2. PrefillAt(i, r)
        BY <3>1, <4>1 DEF BatchInv, Supplied
      <4> QED
        BY <1>1, <4>2 DEF PrefillAt
    <3>2. prefilling' = prefilling /\ (Covered(r)' <=> Covered(r)) /\ seq' = seq
      BY <1>1, StillFrame DEF Still
    <3>3. ~(i < 1)
      OBVIOUS
    <3> QED
      BY <1>1, <3>1, <3>2, <3>3 DEF PrefillAt, DecodeAt, Resting
  <2> QED
    BY <2>1, SuppliedNext
<1>3. HeadServed'
  BY <1>1 DEF HeadServed
<1>4. SomebodyRuns'
  <2>1. Batch # {}
    <3>1. CASE prefilling # <<>>
      <4>1. Len(prefilling) \in Nat /\ Len(prefilling) # 0
        BY <3>1, AtPosition DEF TypeOK
      <4>2. 1 \in 1 .. Len(prefilling)
        BY <4>1
      <4>3. prefilling[1] \in Members(prefilling)
        BY <4>2, AtPosition DEF TypeOK
      <4>4. seq[prefilling[1]].chunk_size > 0
        BY <1>1, <3>1 DEF BatchInv, HeadServed
      <4> QED
        BY <4>3, <4>4 DEF Batch
    <3>2. CASE prefilling = <<>>
      <4>1. decoding # <<>>
        BY <1>1, <3>2, HeadPromotes
      <4>2. Members(decoding) # {}
        BY <4>1, AtPosition DEF TypeOK
      <4> QED
        BY <4>2 DEF Batch
    <3> QED
      BY <3>1, <3>2
  <2> QED
    BY <1>1, <2>1, StillFrame DEF SomebodyRuns
<1>5. WithinBudget'
  BY <1>1, StillFrame DEF BatchInv, WithinBudget, Still
<1> QED
  BY <1>2, <1>3, <1>4, <1>5

\* Loop 3 goes on past a sequence, or is over for a queue.
LEMMA EnsurePassesRunnable ==
  ASSUME TypeOK, TypeOK', RequestsOK, BatchInv, EnsureNext \/ EnsureDone, UNCHANGED engineVars
  PROVE  Supplied' /\ HeadServed' /\ SomebodyRuns' /\ WithinBudget'
<1>1. /\ Still /\ Ensuring
      /\ \/ phase' = phase /\ idx' = idx + 1 /\ idx <= Len(EnsuredQueue)
            /\ (Covered(EnsuredQueue[idx]) \/ Victims = {})
         \/ /\ idx > Len(EnsuredQueue) /\ idx' = 1
            /\ phase' = IF phase = "ensure_prefilling" THEN "ensure_decoding" ELSE "run"
      /\ prefill_tokens' = prefill_tokens /\ prefilled' = prefilled
  BY DEF EnsureNext, EnsureDone, engineVars, queueVars, Still
<1>2. EnsureNext => Covered(EnsuredQueue[idx]) \/ Len(EnsuredQueue) = 1
  <2> SUFFICES ASSUME EnsureNext, Victims = {} PROVE Len(EnsuredQueue) = 1
    BY DEF EnsureNext
  <2>1. Len(EnsuredQueue) \in Nat /\ idx \in 1 .. Len(EnsuredQueue)
    BY QueueTypes DEF EnsureNext, EnsuredQueue, TypeOK
  <2>2. \A i \in 1 .. Len(EnsuredQueue) : i = idx
    BY DEF Victims
  <2>3. 1 \in 1 .. Len(EnsuredQueue) /\ Len(EnsuredQueue) \in 1 .. Len(EnsuredQueue)
    BY <2>1
  <2> QED
    BY <2>2, <2>3
<1>3. Supplied'
  <2>1. ASSUME NEW i \in Nat \ {0}, NEW r \in Request
        PROVE  /\ i <= Len(prefilling') /\ r = prefilling'[i] => PrefillAt(i, r)'
               /\ i <= Len(decoding') /\ r = decoding'[i] => DecodeAt(i, r)'
    <3>0. /\ prefilling' = prefilling /\ decoding' = decoding
          /\ (Covered(r)' <=> Covered(r)) /\ seq' = seq
      BY <1>1, StillFrame DEF Still
    <3>1. ASSUME i <= Len(prefilling), r = prefilling[i] PROVE PrefillAt(i, r)'
      <4>1. i \in 1 .. Len(prefilling)
        BY <3>1, QueueTypes
      <4>2. PrefillAt(i, r)
        BY <3>1, <4>1 DEF BatchInv, Supplied
      <4>3. idx \in Nat /\ Len(prefilling) \in Nat
        BY QueueTypes DEF TypeOK
      <4>4. CASE EnsureNext
        <5>1. i < idx + 1 => i < idx \/ i = idx
          BY <4>3
        <5>2. phase' = phase /\ idx' = idx + 1
          BY <4>4 DEF EnsureNext
        <5> QED
          BY <1>1, <1>2, <3>0, <3>1, <4>2, <4>4, <5>1, <5>2
             DEF PrefillAt, Ensuring, EnsuredQueue, Resting
      <4>5. CASE EnsureDone
        <5>1. phase = "ensure_prefilling" => i < idx
          BY <3>1, <4>3, <4>5 DEF EnsureDone, EnsuredQueue
        <5>2. phase' \in {"ensure_decoding", "run"}
          BY <4>5 DEF EnsureDone
        <5> QED
          BY <1>1, <3>0, <4>2, <5>1, <5>2 DEF PrefillAt, Ensuring, Resting
      <4> QED
        BY <4>4, <4>5
    <3>2. ASSUME i <= Len(decoding), r = decoding[i] PROVE DecodeAt(i, r)'
      <4>1. i \in 1 .. Len(decoding)
        BY <3>2, QueueTypes
      <4>2. DecodeAt(i, r)
        BY <3>2, <4>1 DEF BatchInv, Supplied
      <4>3. idx \in Nat /\ Len(decoding) \in Nat
        BY QueueTypes DEF TypeOK
      <4>4. CASE EnsureNext
        <5>1. i < idx + 1 => i < idx \/ i = idx
          BY <4>3
        <5>2. phase' = phase /\ idx' = idx + 1
          BY <4>4 DEF EnsureNext
        <5> QED
          BY <1>1, <1>2, <3>0, <3>2, <4>2, <4>4, <5>1, <5>2
             DEF DecodeAt, Ensuring, EnsuredQueue
      <4>5. CASE EnsureDone
        <5>1. phase = "ensure_decoding" => i < idx
          BY <3>2, <4>3, <4>5 DEF EnsureDone, EnsuredQueue
        <5>2. /\ idx' = 1 /\ ~(i < 1)
              /\ phase' = IF phase = "ensure_prefilling" THEN "ensure_decoding" ELSE "run"
          BY <4>5 DEF EnsureDone
        <5> QED
          BY <1>1, <3>0, <4>2, <5>1, <5>2 DEF DecodeAt, Ensuring
      <4> QED
        BY <4>4, <4>5
    <3> QED
      BY <3>0, <3>1, <3>2
  <2> QED
    BY <2>1, SuppliedNext
<1>4. phase \in {"ensure_prefilling", "ensure_decoding"}
      /\ phase' \in {"ensure_prefilling", "ensure_decoding", "run"}
  BY <1>1 DEF Ensuring
<1>5. HeadServed'
  BY <1>4 DEF HeadServed
<1>6. SomebodyRuns'
  BY <1>1, <1>4, StillFrame DEF BatchInv, SomebodyRuns
<1>7. WithinBudget'
  BY <1>1, <1>4, StillFrame DEF BatchInv, WithinBudget, Still
<1> QED
  BY <1>3, <1>5, <1>6, <1>7

\* The step ends, or nothing that is scheduled changes.
LEMMA RestRunnable ==
  ASSUME TypeOK, TypeOK', RequestsOK, BatchInv,
         UNCHANGED vars \/ AdvanceDone \/ FinishDone \/ TakeResult
  PROVE  Supplied' /\ HeadServed' /\ SomebodyRuns' /\ WithinBudget'
<1>1. Still /\ prefilled' = prefilled
  BY DEF AdvanceDone, FinishDone, TakeResult, engineVars, queueVars, vars, schedVars, Still
<1>2. \/ phase' = phase /\ idx' = idx /\ prefill_tokens' = prefill_tokens
      \/ phase = "advance" /\ phase' = "finish" /\ prefilled = {}
      \/ phase = "finish" /\ phase' = "result" /\ idx' = 1 /\ prefill_tokens' = 0
      \/ phase = "result" /\ phase' = "ready" /\ idx' = idx /\ prefill_tokens' = prefill_tokens
  BY DEF AdvanceDone, FinishDone, TakeResult, LeaveStep, vars, schedVars
<1>3. Supplied'
  <2>1. ASSUME NEW i \in Nat \ {0}, NEW r \in Request
        PROVE  /\ i <= Len(prefilling') /\ r = prefilling'[i] => PrefillAt(i, r)'
               /\ i <= Len(decoding') /\ r = decoding'[i] => DecodeAt(i, r)'
    <3>0. /\ prefilling' = prefilling /\ decoding' = decoding
          /\ (Covered(r)' <=> Covered(r)) /\ seq' = seq
      BY <1>1, StillFrame DEF Still
    <3>1. ASSUME i <= Len(prefilling), r = prefilling[i] PROVE PrefillAt(i, r)'
      <4>1. i \in 1 .. Len(prefilling)
        BY <3>1, QueueTypes
      <4>2. PrefillAt(i, r)
        BY <3>1, <4>1 DEF BatchInv, Supplied
      <4> QED
        BY <1>2, <3>0, <4>2 DEF PrefillAt, Resting
    <3>2. ASSUME i <= Len(decoding), r = decoding[i] PROVE DecodeAt(i, r)'
      <4>1. i \in 1 .. Len(decoding)
        BY <3>2, QueueTypes
      <4>2. DecodeAt(i, r)
        BY <3>2, <4>1 DEF BatchInv, Supplied
      <4> QED
        BY <1>2, <3>0, <4>2 DEF DecodeAt
    <3> QED
      BY <3>0, <3>1, <3>2
  <2> QED
    BY <2>1, SuppliedNext
<1>4. HeadServed'
  BY <1>1, <1>2, StillFrame DEF BatchInv, HeadServed, Still
<1>5. SomebodyRuns'
  BY <1>1, <1>2, StillFrame DEF BatchInv, SomebodyRuns
<1>6. WithinBudget'
  <2>0. WithinBudget
    BY DEF BatchInv
  <2>1. CASE phase = "result" /\ phase' = "ready"
    <3>1. prefill_tokens' = 0 /\ failures' = failures
      BY <1>1, <1>2, <2>1 DEF BatchInv, HeadServed, Still
    <3>2. \A r \in Members(prefilling) : seq[r].chunk_size = 0
      BY <2>0, <2>1 DEF WithinBudget, RequestsOK, StepShape
    <3>3. Chunks(Members(prefilling)) = {}
      <4>1. \A r \in Members(prefilling) : {r} \X (1 .. seq[r].chunk_size) = {}
        BY <3>2
      <4> QED
        BY <4>1 DEF Chunks
    <3>4. Cardinality(Chunks(Members(prefilling))) = 0
      BY <3>3, FS_EmptySet
    <3>5. Cardinality(Chunks(Members(prefilling)))' = 0
      BY <1>1, <3>4, StillFrame
    <3>6. failures * max_prefill_tokens \in Nat /\ max_prefill_tokens \in Nat
      BY SchedulerAssumption DEF TypeOK
    <3>7. Cardinality(Chunks(Members(prefilling)))' <= failures' * max_prefill_tokens + prefill_tokens'
      BY <3>1, <3>5, <3>6
    <3> QED
      BY <2>1, <3>1, <3>6, <3>7 DEF WithinBudget
  <2>2. CASE phase' \in {"advance", "finish", "result"} /\ phase \in {"advance", "finish", "result"}
    BY <1>1, <2>0, <2>2, StillFrame DEF WithinBudget, Still
  <2>3. CASE phase' = phase /\ idx' = idx /\ prefill_tokens' = prefill_tokens
    BY <1>1, <2>0, <2>3, StillFrame DEF WithinBudget, Still
  <2> QED
    BY <1>2, <2>1, <2>2, <2>3
<1> QED
  BY <1>3, <1>4, <1>5, <1>6

-----------------------------------------------------------------------------
\* Between steps, and when one ends: a request leaves, or a new one waits.
LEMMA LeaveRunnable ==
  ASSUME TypeOK, TypeOK', BatchInv, phase \in {"ready", "finish"},
         UNCHANGED <<phase, idx, prefill_tokens, failures, prefilled>>,
         NEW r \in Request, r \notin Members(prefilling'),
         \A x \in Request : x # r => seq'[x] = seq[x] /\ blocks'[x] = blocks[x],
         \/ prefilling' = prefilling
         \/ \E k \in 1 .. Len(prefilling) : prefilling' = Without(prefilling, k)
  PROVE  Supplied' /\ HeadServed' /\ SomebodyRuns' /\ WithinBudget'
<1>1. ASSUME NEW i \in Nat \ {0}, NEW x \in Request, i <= Len(prefilling'), x = prefilling'[i]
      PROVE  /\ x # r /\ \E j \in 1 .. Len(prefilling) : j >= i /\ x = prefilling[j]
  <2>0. prefilling \in Seq(Request) /\ prefilling' \in Seq(Request)
    BY DEF TypeOK
  <2>1. Len(prefilling') \in Nat /\ i \in 1 .. Len(prefilling')
    BY <1>1, <2>0, LenProperties
  <2>2. x # r
    BY <1>1, <2>0, <2>1, AtPosition
  <2>3. CASE prefilling' = prefilling
    BY <1>1, <2>1, <2>2, <2>3
  <2>4. CASE \E k \in 1 .. Len(prefilling) : prefilling' = Without(prefilling, k)
    <3>1. PICK k \in 1 .. Len(prefilling) : prefilling' = Without(prefilling, k)
      BY <2>4
    <3>2. PICK j \in 1 .. Len(prefilling) : j \in {i, i + 1} /\ prefilling'[i] = prefilling[j]
      <4>1. i \in 1 .. Len(Without(prefilling, k))
        BY <2>1, <3>1
      <4>2. \E j \in 1 .. Len(prefilling) :
              j \in {i, i + 1} /\ Without(prefilling, k)[i] = prefilling[j]
        BY <2>0, <4>1, WithoutPositions
      <4> QED
        BY <3>1, <4>2
    <3>3. j >= i
      BY <3>2
    <3> QED
      BY <1>1, <2>2, <3>2, <3>3
  <2> QED
    BY <2>3, <2>4
<1>2. Supplied'
  <2>1. ASSUME NEW i \in Nat \ {0}, NEW x \in Request
        PROVE  /\ i <= Len(prefilling') /\ x = prefilling'[i] => PrefillAt(i, x)'
               /\ i <= Len(decoding') /\ x = decoding'[i] => DecodeAt(i, x)'
    <3>1. ASSUME i <= Len(prefilling'), x = prefilling'[i] PROVE PrefillAt(i, x)'
      <4>1. PICK j \in 1 .. Len(prefilling) : x # r /\ j >= i /\ x = prefilling[j]
        BY <1>1, <3>1
      <4>2. seq'[x] = seq[x] /\ blocks'[x] = blocks[x] /\ blocks[x] \in SUBSET Block
        BY <4>1 DEF TypeOK
      <4>3. Covered(x) => Covered(x)'
        BY <4>2, StillCovered
      <4>4. PrefillAt(j, x)
        BY <4>1 DEF BatchInv, Supplied
      <4>5. i > 1 => j > 1
        BY <4>1
      <4> QED
        BY <4>2, <4>3, <4>4, <4>5 DEF PrefillAt, Resting
    <3>2. DecodeAt(i, x)'
      BY DEF DecodeAt
    <3> QED
      BY <3>1, <3>2
  <2> QED
    BY <2>1, SuppliedNext
<1>3. HeadServed'
  BY DEF BatchInv, HeadServed
<1>4. SomebodyRuns'
  BY DEF SomebodyRuns
<1>5. \A x \in Members(prefilling') : x \in Members(prefilling) /\ seq'[x] = seq[x]
  <2> SUFFICES ASSUME NEW x \in Members(prefilling')
               PROVE  x \in Members(prefilling) /\ seq'[x] = seq[x]
    OBVIOUS
  <2>1. prefilling' \in Seq(Request) /\ prefilling \in Seq(Request)
    BY DEF TypeOK
  <2>2. PICK i \in 1 .. Len(prefilling') : x = prefilling'[i]
    BY <2>1, AtPosition
  <2>3. i \in Nat \ {0} /\ i <= Len(prefilling') /\ x \in Request
    BY <2>1, <2>2, AtPosition
  <2>4. x # r /\ \E j \in 1 .. Len(prefilling) : j >= i /\ x = prefilling[j]
    BY <1>1, <2>2, <2>3
  <2> QED
    BY <2>1, <2>3, <2>4, AtPosition
<1>6. WithinBudget'
  <2>0. WithinBudget
    BY DEF BatchInv
  <2>1. CASE phase = "finish"
    BY <1>5, <2>0, <2>1 DEF WithinBudget, Members
  <2>2. CASE phase = "ready"
    <3>1. /\ Cardinality(Chunks(Members(prefilling)))' <= Cardinality(Chunks(Members(prefilling)))
          /\ Cardinality(Chunks(Members(prefilling))) \in Nat
          /\ Cardinality(Chunks(Members(prefilling)))' \in Nat
      BY <1>5, BudgetShrinks
    <3>2. /\ prefill_tokens <= max_prefill_tokens
          /\ Cardinality(Chunks(Members(prefilling))) <= failures * max_prefill_tokens + prefill_tokens
      BY <2>0, <2>2 DEF WithinBudget
    <3>3. failures * max_prefill_tokens \in Nat /\ prefill_tokens \in Nat
      BY SchedulerAssumption DEF TypeOK
    <3>4. Cardinality(Chunks(Members(prefilling)))' <= failures * max_prefill_tokens + prefill_tokens
      BY <3>1, <3>2, <3>3
    <3> QED
      BY <2>2, <3>2, <3>4 DEF WithinBudget
  <2> QED
    BY <2>1, <2>2
<1> QED
  BY <1>2, <1>3, <1>4, <1>6

\* Out of a queue, by finish.
LEMMA FinishRunnable ==
  ASSUME TypeOK, TypeOK', QueuesApart, WaitingInOrder, BatchInv, NEW r \in Request, Finish(r),
         phase \in {"ready", "finish"},
         UNCHANGED <<phase, idx, prefill_tokens, failures, prefilled>>
  PROVE  Supplied' /\ HeadServed' /\ SomebodyRuns' /\ WithinBudget'
<1>1. r \notin Members(prefilling')
  <2>1. Members(prefilling)' = Members(prefilling) \ {r}
    BY FinishQueues
  <2> QED
    BY <2>1 DEF Members
<1>2. \A x \in Request : x # r => seq'[x] = seq[x] /\ blocks'[x] = blocks[x]
  BY DEF Finish, ReturnBlocks, TypeOK
<1>3. \/ prefilling' = prefilling
      \/ \E k \in 1 .. Len(prefilling) : prefilling' = Without(prefilling, k)
  BY IndexInRange DEF Finish, TypeOK
<1> QED
  BY <1>1, <1>2, <1>3, LeaveRunnable

LEMMA FinishSeqRunnable ==
  ASSUME TypeOK, TypeOK', QueuesApart, WaitingInOrder, BatchInv, FinishSeq
  PROVE  Supplied' /\ HeadServed' /\ SomebodyRuns' /\ WithinBudget'
<1>1. PICK r \in Request : Finish(r)
  BY DEF FinishSeq, TypeOK
<1>2. phase = "finish" /\ UNCHANGED <<phase, idx, prefill_tokens, failures, prefilled>>
  BY DEF FinishSeq
<1> QED
  BY <1>1, <1>2, FinishRunnable

LEMMA CancelRunnable ==
  ASSUME TypeOK, TypeOK', QueuesApart, WaitingInOrder, BatchInv, NEW r \in Request, Cancel(r)
  PROVE  Supplied' /\ HeadServed' /\ SomebodyRuns' /\ WithinBudget'
<1>1. phase = "ready" /\ UNCHANGED <<phase, idx, prefill_tokens, failures, prefilled>>
  BY DEF Cancel
<1>2. CASE Finish(r)
  BY <1>1, <1>2, FinishRunnable
<1>3. CASE CancelWaiting(r)
  <2>1. prefilling' = prefilling /\ r \notin Members(prefilling')
    BY <1>3 DEF CancelWaiting, QueuesApart
  <2>2. \A x \in Request : x # r => seq'[x] = seq[x] /\ blocks'[x] = blocks[x]
    BY <1>3 DEF CancelWaiting, TypeOK
  <2> QED
    BY <1>1, <2>1, <2>2, LeaveRunnable
<1> QED
  BY <1>2, <1>3 DEF Cancel, CancelSeq

\* A new request waits, or is refused.
LEMMA SubmitRunnable ==
  ASSUME TypeOK, TypeOK', RequestsOK, BatchInv, NEW r \in Request,
         NEW prompt, NEW max_tokens, NEW priority, Submit(r, prompt, max_tokens, priority)
  PROVE  Supplied' /\ HeadServed' /\ SomebodyRuns' /\ WithinBudget'
<1>1. phase = "ready" /\ UNCHANGED <<phase, idx, prefill_tokens, failures, prefilled, prefilling>>
  BY DEF Submit, Add, TooLong, schedVars, queueVars
<1>2. r \notin Members(prefilling')
  BY <1>1 DEF Submit, IsNew, Live
<1>3. \A x \in Request : x # r => seq'[x] = seq[x] /\ blocks'[x] = blocks[x]
  BY DEF Submit, Add, TypeOK, schedVars
<1> QED
  BY <1>1, <1>2, <1>3, LeaveRunnable

-----------------------------------------------------------------------------
\* Loop 1 gives a chunk, within what is left of the budget.
LEMMA AssignRunnable ==
  ASSUME prefill_chunk_size <= max_prefill_tokens,
         TypeOK, TypeOK', QueuesApart, RequestsOK, BatchInv, AssignChunk, UNCHANGED engineVars
  PROVE  Supplied' /\ HeadServed' /\ SomebodyRuns' /\ WithinBudget'
<1>1. /\ phase = "assign" /\ phase' = "assign" /\ idx' = idx + 1 /\ idx \in 1 .. Len(prefilling)
      /\ UNCHANGED <<waiting, prefilling, decoding, blocks, prefilled, failures>>
  BY QueueTypes DEF AssignChunk, MoreChunks, queueVars, engineVars, TypeOK
<1>2. PICK r \in Request : r = prefilling[idx] /\ r \in Members(prefilling)
  BY <1>1, AtPosition DEF TypeOK
<1>3. /\ seq[r] \in Sequence /\ seq[r].prefill_pending /\ seq[r].prefill_pos < seq[r].prompt
  BY <1>1, <1>2, PrefillingGoesOn DEF TypeOK
<1>4. /\ NextChunk(seq[r]) \in Nat \ {0} /\ seq[r].chunk_size \in Nat
      /\ \A x \in Request : x # r => seq'[x] = seq[x]
      /\ \/ /\ seq'[r].chunk_size = NextChunk(seq[r])
            /\ prefill_tokens' = prefill_tokens + NextChunk(seq[r])
            /\ prefill_tokens' <= max_prefill_tokens
         \/ seq' = seq /\ prefill_tokens' = prefill_tokens /\ seq[r].chunk_size > 0
  <2>1. NextChunk(seq[r]) \in Nat \ {0} /\ seq[r].chunk_size \in Nat
    BY <1>3, NextChunkSize DEF Sequence
  <2>2. CASE WantsChunk(r)
    <3>1. /\ seq' = [seq EXCEPT ![r].chunk_size = NextChunk(seq[r])]
          /\ prefill_tokens' = prefill_tokens + NextChunk(seq[r])
      BY <1>2, <2>2 DEF AssignChunk
    <3>2. prefill_tokens' <= max_prefill_tokens
      <4>1. ~(prefill_tokens + NextChunk(seq[r]) > max_prefill_tokens)
        BY <1>2, <2>2 DEF AssignChunk, MoreChunks, ChunkOverBudget
      <4>2. prefill_tokens \in Nat /\ max_prefill_tokens \in Nat
        BY SchedulerAssumption DEF TypeOK
      <4> QED
        BY <2>1, <3>1, <4>1, <4>2
    <3> QED
      BY <1>3, <2>1, <3>1, <3>2 DEF TypeOK, Sequence
  <2>3. CASE ~WantsChunk(r)
    <3>1. seq' = seq /\ prefill_tokens' = prefill_tokens
      BY <1>2, <2>3 DEF AssignChunk
    <3>2. seq[r].chunk_size > 0
      BY <1>3, <2>1, <2>3 DEF WantsChunk
    <3> QED
      BY <2>1, <3>1, <3>2
  <2> QED
    BY <2>2, <2>3
<1>5. seq'[r].chunk_size > 0 /\ idx' > 1
  BY <1>1, <1>4
<1>6. Supplied'
  <2>1. ASSUME NEW i \in Nat \ {0}, NEW x \in Request
        PROVE  /\ i <= Len(prefilling') /\ x = prefilling'[i] => PrefillAt(i, x)'
               /\ i <= Len(decoding') /\ x = decoding'[i] => DecodeAt(i, x)'
    <3>1. ASSUME i <= Len(prefilling'), x = prefilling'[i]
          PROVE  seq'[x].chunk_size > 0 \/ Covered(x)'
      <4>1. CASE x = r
        BY <1>5, <4>1
      <4>2. CASE x # r
        <5>1. i \in 1 .. Len(prefilling) /\ x = prefilling[i]
          BY <1>1, <3>1
        <5>2. i > 1 \/ idx > 1
          BY <1>1, <1>2, <4>2, <5>1
        <5>3. PrefillAt(i, x)
          BY <5>1 DEF BatchInv, Supplied
        <5>4. seq[x].chunk_size > 0 \/ Covered(x)
          BY <1>1, <5>2, <5>3 DEF PrefillAt
        <5>5. seq'[x] = seq[x] /\ blocks'[x] = blocks[x] /\ blocks[x] \in SUBSET Block
          BY <1>1, <1>4, <4>2 DEF TypeOK
        <5>6. Covered(x) => Covered(x)'
          BY <5>5, StillCovered
        <5> QED
          BY <5>4, <5>5, <5>6
      <4> QED
        BY <4>1, <4>2
    <3> QED
      BY <1>1, <3>1 DEF PrefillAt, DecodeAt, Resting
  <2> QED
    BY <2>1, SuppliedNext
<1>7. HeadServed'
  <2>1. prefilling # <<>> /\ Len(prefilling) \in Nat \ {0}
    BY <1>1, QueueTypes, AtPosition DEF TypeOK
  <2>2. prefilling[1] \in Request
    BY <2>1, AtPosition DEF TypeOK
  <2>3. seq'[prefilling[1]].chunk_size > 0
    <3>1. CASE prefilling[1] = r
      BY <1>5, <3>1
    <3>2. CASE prefilling[1] # r
      <4>1. idx > 1
        BY <1>1, <1>2, <3>2
      <4>2. seq[prefilling[1]].chunk_size > 0
        BY <1>1, <2>1, <4>1 DEF BatchInv, HeadServed
      <4> QED
        BY <1>4, <2>2, <3>2, <4>2
    <3> QED
      BY <3>1, <3>2
  <2> QED
    BY <1>1, <1>5, <2>1, <2>3 DEF HeadServed, is_idle
<1>8. SomebodyRuns'
  BY <1>1 DEF SomebodyRuns
<1>9. WithinBudget'
  <2>0. /\ prefill_tokens <= max_prefill_tokens
        /\ Cardinality(Chunks(Members(prefilling))) <= failures * max_prefill_tokens + prefill_tokens
    BY <1>1 DEF BatchInv, WithinBudget
  <2>1. failures * max_prefill_tokens \in Nat /\ prefill_tokens \in Nat
    BY SchedulerAssumption DEF TypeOK
  <2>2. Members(prefilling') = Members(prefilling) /\ Members(prefilling) \subseteq Request
    BY <1>1, QueueTypes
  <2>3. CASE seq' = seq /\ prefill_tokens' = prefill_tokens
    <3>1. /\ Cardinality(Chunks(Members(prefilling)))' <= Cardinality(Chunks(Members(prefilling)))
          /\ Cardinality(Chunks(Members(prefilling))) \in Nat
          /\ Cardinality(Chunks(Members(prefilling)))' \in Nat
      BY <2>2, <2>3, BudgetShrinks
    <3> QED
      BY <1>1, <2>0, <2>1, <2>3, <3>1 DEF WithinBudget
  <2>4. CASE /\ seq'[r].chunk_size = NextChunk(seq[r])
             /\ prefill_tokens' = prefill_tokens + NextChunk(seq[r])
             /\ prefill_tokens' <= max_prefill_tokens
    <3>1. /\ Cardinality(Chunks(Members(prefilling)))' <=
               Cardinality(Chunks(Members(prefilling))) + seq'[r].chunk_size
          /\ Cardinality(Chunks(Members(prefilling))) \in Nat
          /\ Cardinality(Chunks(Members(prefilling)))' \in Nat
      BY <1>4, <2>2, BudgetGrows
    <3>2. Cardinality(Chunks(Members(prefilling)))' <= failures * max_prefill_tokens + prefill_tokens'
      BY <1>4, <2>0, <2>1, <2>4, <3>1
    <3> QED
      BY <1>1, <2>4, <3>2 DEF WithinBudget
  <2> QED
    BY <1>4, <2>3, <2>4
<1> QED
  BY <1>6, <1>7, <1>8, <1>9

\* Loop 2 promotes: its first chunk fits, a later one only beside the others.
LEMMA PromoteRunnable ==
  ASSUME prefill_chunk_size <= max_prefill_tokens,
         TypeOK, TypeOK', QueuesApart, RequestsOK, BatchInv, Promote, UNCHANGED engineVars
  PROVE  Supplied' /\ HeadServed' /\ SomebodyRuns' /\ WithinBudget'
<1>1. PICK r \in Request : r = Head(waiting)
  BY PromoteTakes DEF Promote
<1>2. /\ phase = "promote" /\ phase' = "promote" /\ CanPromote
      /\ prefilling' = Append(prefilling, r) /\ decoding' = decoding
      /\ seq' = [seq EXCEPT ![r].chunk_size = NextChunk(seq[r])]
      /\ \A x \in Request : x # r => blocks'[x] = blocks[x]
      /\ prefill_tokens' = prefill_tokens + NextChunk(seq[r])
      /\ UNCHANGED <<prefilled, failures>>
  BY <1>1 DEF Promote, engineVars, TypeOK
<1>3. r \in Members(waiting)
  <2>1. waiting # <<>>
    BY <1>2 DEF CanPromote
  <2>2. Len(waiting) \in Nat /\ Len(waiting) # 0
    BY <2>1, AtPosition DEF TypeOK
  <2>3. 1 \in 1 .. Len(waiting)
    BY <2>2
  <2>4. waiting[1] \in Members(waiting)
    BY <2>3, AtPosition DEF TypeOK
  <2>5. Head(waiting) = waiting[1]
    BY <2>1, HeadTailProperties DEF TypeOK
  <2> QED
    BY <1>1, <2>4, <2>5
<1>4. seq[r] \in Sequence /\ seq[r].prefill_pos < seq[r].prompt
  BY <1>3 DEF TypeOK, RequestsOK, RequestOK, WaitsAfresh, Streams, Live
<1>5. /\ NextChunk(seq[r]) \in Nat \ {0} /\ NextChunk(seq[r]) <= max_prefill_tokens
      /\ seq'[r].chunk_size = NextChunk(seq[r])
      /\ \A x \in Request : x # r => seq'[x] = seq[x]
  BY <1>2, <1>4, NextChunkSize DEF TypeOK, Sequence
<1>6. prefill_tokens' <= max_prefill_tokens
  <2>1. FitsBudget(seq[r])
    BY <1>1, <1>2 DEF CanPromote
  <2> QED
    BY <1>2, <1>5, <2>1, SchedulerAssumption DEF FitsBudget
<1>7. /\ Len(prefilling) \in Nat /\ Len(prefilling') = Len(prefilling) + 1
      /\ \A i \in 1 .. Len(prefilling) : prefilling'[i] = prefilling[i]
      /\ prefilling'[Len(prefilling) + 1] = r
  BY <1>2, AppendProperties, LenProperties DEF TypeOK
<1>8. Supplied'
  <2>1. ASSUME NEW i \in Nat \ {0}, NEW x \in Request
        PROVE  /\ i <= Len(prefilling') /\ x = prefilling'[i] => PrefillAt(i, x)'
               /\ i <= Len(decoding') /\ x = decoding'[i] => DecodeAt(i, x)'
    <3>1. ASSUME i <= Len(prefilling'), x = prefilling'[i]
          PROVE  seq'[x].chunk_size > 0 \/ Covered(x)'
      <4>1. CASE x = r
        BY <1>5, <4>1
      <4>2. CASE x # r
        <5>1. i \in 1 .. Len(prefilling) /\ x = prefilling[i]
          BY <1>7, <3>1, <4>2
        <5>2. PrefillAt(i, x)
          BY <5>1 DEF BatchInv, Supplied
        <5>3. seq'[x] = seq[x] /\ blocks'[x] = blocks[x] /\ blocks[x] \in SUBSET Block
          BY <1>2, <1>5, <4>2 DEF TypeOK
        <5>4. Covered(x) => Covered(x)'
          BY <5>3, StillCovered
        <5> QED
          BY <1>2, <5>2, <5>3, <5>4 DEF PrefillAt
      <4> QED
        BY <4>1, <4>2
    <3> QED
      BY <1>2, <3>1 DEF PrefillAt, DecodeAt, Resting
  <2> QED
    BY <2>1, SuppliedNext
<1>9. HeadServed'
  <2>1. prefilling' # <<>>
    BY <1>7
  <2>2. seq'[prefilling'[1]].chunk_size > 0
    <3>1. CASE Len(prefilling) = 0
      BY <1>5, <1>7, <3>1
    <3>2. CASE Len(prefilling) # 0
      <4>0. 1 \in 1 .. Len(prefilling)
        BY <1>7, <3>2
      <4>1. prefilling'[1] = prefilling[1] /\ prefilling # <<>> /\ prefilling[1] \in Request
        BY <1>7, <3>2, <4>0, AtPosition DEF TypeOK
      <4>2. seq[prefilling[1]].chunk_size > 0
        BY <1>2, <4>1 DEF BatchInv, HeadServed
      <4>3. CASE prefilling[1] = r
        BY <1>5, <4>1, <4>3
      <4>4. CASE prefilling[1] # r
        BY <1>5, <4>1, <4>2, <4>4
      <4> QED
        BY <4>3, <4>4
    <3> QED
      BY <3>1, <3>2
  <2> QED
    BY <1>2, <2>1, <2>2 DEF HeadServed, is_idle
<1>10. SomebodyRuns'
  BY <1>2 DEF SomebodyRuns
<1>11. WithinBudget'
  <2>0. Cardinality(Chunks(Members(prefilling))) <= failures * max_prefill_tokens + prefill_tokens
    BY <1>2 DEF BatchInv, WithinBudget
  <2>1. failures * max_prefill_tokens \in Nat /\ prefill_tokens \in Nat
    BY SchedulerAssumption DEF TypeOK
  <2>2. Members(prefilling') \subseteq Members(prefilling) \cup {r}
    <3> SUFFICES ASSUME NEW i \in 1 .. Len(prefilling')
                 PROVE  prefilling'[i] \in Members(prefilling) \cup {r}
      BY DEF Members
    <3>1. CASE i = Len(prefilling) + 1
      BY <1>7, <3>1
    <3>2. CASE i # Len(prefilling) + 1
      <4>1. i \in 1 .. Len(prefilling) /\ prefilling'[i] = prefilling[i]
        BY <1>7, <3>2
      <4> QED
        BY <4>1 DEF Members
    <3> QED
      BY <3>1, <3>2
  <2>3. \A x \in Members(prefilling') : x # r => seq'[x].chunk_size = seq[x].chunk_size
    <3>1. Members(prefilling') \subseteq Request
      BY MembersType DEF TypeOK
    <3> QED
      BY <1>5, <3>1
  <2>4. /\ Cardinality(Chunks(Members(prefilling)))' <=
             Cardinality(Chunks(Members(prefilling))) + seq'[r].chunk_size
        /\ Cardinality(Chunks(Members(prefilling))) \in Nat
        /\ Cardinality(Chunks(Members(prefilling)))' \in Nat
    BY <2>2, <2>3, BudgetGrows
  <2>5. Cardinality(Chunks(Members(prefilling)))' <= failures * max_prefill_tokens + prefill_tokens'
    BY <1>2, <1>5, <2>0, <2>1, <2>4
  <2> QED
    BY <1>2, <1>6, <2>5 DEF WithinBudget
<1> QED
  BY <1>8, <1>9, <1>10, <1>11

\* Loop 3 takes a block for a sequence.
LEMMA AllocateRunnable ==
  ASSUME TypeOK, TypeOK', BatchInv, EnsureAllocate, UNCHANGED engineVars
  PROVE  Supplied' /\ HeadServed' /\ SomebodyRuns' /\ WithinBudget'
<1>1. /\ phase \in {"ensure_prefilling", "ensure_decoding"}
      /\ UNCHANGED <<waiting, prefilling, decoding, seq, phase, idx, prefill_tokens, prefilled,
                     failures>>
  BY DEF EnsureAllocate, Ensuring, queueVars, engineVars
<1>2. \A x \in Request : blocks[x] \subseteq blocks'[x] /\ blocks'[x] \in SUBSET Block
  BY DEF EnsureAllocate, TypeOK
<1>3. \A x \in Request : Covered(x) => Covered(x)'
  BY <1>1, <1>2, StillCovered
<1>4. Supplied'
  <2>1. ASSUME NEW i \in Nat \ {0}, NEW x \in Request
        PROVE  /\ i <= Len(prefilling') /\ x = prefilling'[i] => PrefillAt(i, x)'
               /\ i <= Len(decoding') /\ x = decoding'[i] => DecodeAt(i, x)'
    <3>1. ASSUME i <= Len(prefilling'), x = prefilling'[i] PROVE PrefillAt(i, x)'
      <4>1. i \in 1 .. Len(prefilling) /\ x = prefilling[i]
        BY <1>1, <3>1, QueueTypes
      <4>2. PrefillAt(i, x)
        BY <4>1 DEF BatchInv, Supplied
      <4> QED
        BY <1>1, <1>3, <4>2 DEF PrefillAt, Resting
    <3>2. ASSUME i <= Len(decoding'), x = decoding'[i] PROVE DecodeAt(i, x)'
      <4>1. i \in 1 .. Len(decoding) /\ x = decoding[i]
        BY <1>1, <3>2, QueueTypes
      <4>2. DecodeAt(i, x)
        BY <4>1 DEF BatchInv, Supplied
      <4> QED
        BY <1>1, <1>3, <4>2 DEF DecodeAt
    <3> QED
      BY <3>1, <3>2
  <2> QED
    BY <2>1, SuppliedNext
<1>5. HeadServed'
  BY <1>1 DEF HeadServed
<1>6. SomebodyRuns'
  BY <1>1 DEF BatchInv, SomebodyRuns, Batch, Members
<1>7. WithinBudget'
  BY <1>1 DEF BatchInv, WithinBudget, Chunks, Members
<1> QED
  BY <1>4, <1>5, <1>6, <1>7

\* Whom loop 3 has passed is before its index still when another was removed.
LEMMA PassedAfter ==
  ASSUME NEW q \in Seq(Request), Distinct(q), NEW v \in 1 .. Len(q), NEW n \in 1 .. Len(q), n # v,
         NEW i \in Nat \ {0}, i <= Len(Without(q, v))
  PROVE  /\ Len(q) # 1
         /\ \E j \in 1 .. Len(q) :
              /\ j >= i /\ Without(q, v)[i] = q[j] /\ q[j] # q[v]
              /\ i < (IF v < n THEN n - 1 ELSE n) => j < n
<1>1. Len(Without(q, v)) = Len(q) - 1 /\ Len(q) \in Nat /\ i \in 1 .. Len(Without(q, v))
  BY WithoutPositions
<1>2. PICK j \in 1 .. Len(q) :
        /\ j \in {i, i + 1} /\ (i < v => j = i) /\ (i >= v => j = i + 1)
        /\ Without(q, v)[i] = q[j]
  BY <1>1, WithoutPositions
<1>3. j # v /\ j >= i
  BY <1>1, <1>2
<1>4. q[j] # q[v]
  BY <1>3 DEF Distinct
<1>5. i < (IF v < n THEN n - 1 ELSE n) => j < n
  BY <1>1, <1>2
<1>6. Len(q) # 1
  BY <1>1
<1> QED
  BY <1>2, <1>3, <1>4, <1>5, <1>6

\* Loop 3 preempts: who asked for the block stays, and has something to run.
LEMMA PreemptRunnable ==
  ASSUME TypeOK, TypeOK', QueuesApart, BatchInv, Preempt, UNCHANGED engineVars
  PROVE  Supplied' /\ HeadServed' /\ SomebodyRuns' /\ WithinBudget'
<1>1. /\ phase \in {"ensure_prefilling", "ensure_decoding"} /\ idx <= Len(EnsuredQueue)
      /\ ~Covered(EnsuredQueue[idx])
      /\ UNCHANGED <<phase, prefill_tokens, prefilled, failures>>
  BY DEF Preempt, Ensuring, engineVars
<1>2. PICK k \in 1 .. Len(EnsuredQueue) :
        /\ k # idx /\ idx' = IF k < idx THEN idx - 1 ELSE idx
        /\ IF phase = "ensure_prefilling"
           THEN prefilling' = Without(prefilling, k) /\ decoding' = decoding
           ELSE decoding' = Without(decoding, k) /\ prefilling' = prefilling
        /\ seq' = [seq EXCEPT ![EnsuredQueue[k]] = Restarted(seq[EnsuredQueue[k]])]
        /\ blocks' = [blocks EXCEPT ![EnsuredQueue[k]] = {}]
  BY DEF Preempt, IsVictim, Victims, IndexAfter, ReturnBlocks
<1>3. PICK v \in Request : v = EnsuredQueue[k]
  BY QueueTypes
<1>4. ASSUME NEW x \in Request, x # v
      PROVE  seq'[x] = seq[x] /\ blocks'[x] = blocks[x] /\ (Covered(x) => Covered(x)')
  <2>1. seq'[x] = seq[x] /\ blocks'[x] = blocks[x] /\ blocks[x] \in SUBSET Block
    BY <1>2, <1>3, <1>4 DEF TypeOK
  <2> QED
    BY <2>1, StillCovered
<1>5. HeadServed'
  BY <1>1 DEF HeadServed
<1>6. /\ prefilling \in Seq(Request) /\ decoding \in Seq(Request)
      /\ Distinct(prefilling) /\ Distinct(decoding) /\ idx \in 1 .. Len(EnsuredQueue)
      /\ Members(prefilling) \cap Members(decoding) = {}
  BY <1>1, QueueTypes DEF TypeOK, QueuesApart, EnsuredQueue
<1>7. ASSUME phase = "ensure_prefilling" PROVE Supplied' /\ SomebodyRuns'
  <2>1. /\ EnsuredQueue = prefilling /\ prefilling' = Without(prefilling, k) /\ decoding' = decoding
        /\ phase' = "ensure_prefilling"
    BY <1>1, <1>2, <1>7 DEF EnsuredQueue
  <2>2. Supplied'
    <3>1. ASSUME NEW i \in Nat \ {0}, NEW x \in Request
          PROVE  /\ i <= Len(prefilling') /\ x = prefilling'[i] => PrefillAt(i, x)'
                 /\ i <= Len(decoding') /\ x = decoding'[i] => DecodeAt(i, x)'
      <4>1. ASSUME i <= Len(prefilling'), x = prefilling'[i] PROVE PrefillAt(i, x)'
        <5>1. /\ Len(prefilling) # 1
              /\ \E j \in 1 .. Len(prefilling) :
                   /\ j >= i /\ x = prefilling[j] /\ x # v /\ (i < idx' => j < idx)
          BY <1>2, <1>3, <1>6, <2>1, <4>1, PassedAfter
        <5>2. PICK j \in 1 .. Len(prefilling) : x = prefilling[j] /\ x # v /\ (i < idx' => j < idx)
          BY <5>1
        <5>3. PrefillAt(j, x)
          BY <5>2 DEF BatchInv, Supplied
        <5> QED
          BY <1>4, <1>7, <2>1, <5>1, <5>2, <5>3 DEF PrefillAt, Resting
      <4>2. DecodeAt(i, x)'
        BY <2>1 DEF DecodeAt
      <4> QED
        BY <4>1, <4>2
    <3> QED
      BY <3>1, SuppliedNext
  <2>3. Members(prefilling') = Members(prefilling) \ {v}
    BY <1>3, <1>6, <2>1, WithoutMembers
  <2>4. SomebodyRuns'
    <3>1. PICK r \in Request : r = prefilling[idx] /\ r \in Members(prefilling) /\ r # v
      <4>1. prefilling[idx] # prefilling[k]
        BY <1>2, <1>6, <2>1 DEF Distinct
      <4> QED
        BY <1>3, <1>6, <2>1, <4>1, AtPosition
    <3>2. PrefillAt(idx, r)
      BY <1>6, <2>1, <3>1 DEF BatchInv, Supplied
    <3>3. seq[r].chunk_size > 0
      BY <1>1, <1>7, <2>1, <3>1, <3>2 DEF PrefillAt
    <3>4. r \in Members(prefilling') /\ seq'[r].chunk_size > 0
      BY <1>4, <2>3, <3>1, <3>3
    <3>5. r \in Batch'
      BY <3>4 DEF Batch, Members
    <3> QED
      BY <3>5 DEF SomebodyRuns
  <2> QED
    BY <2>2, <2>4
<1>8. ASSUME phase = "ensure_decoding" PROVE Supplied' /\ SomebodyRuns'
  <2>1. /\ EnsuredQueue = decoding /\ decoding' = Without(decoding, k) /\ prefilling' = prefilling
        /\ phase' = "ensure_decoding"
    BY <1>1, <1>2, <1>8 DEF EnsuredQueue
  <2>0. v \in Members(decoding) /\ v \notin Members(prefilling)
    BY <1>3, <1>6, <2>1, AtPosition
  <2>2. Supplied'
    <3>1. ASSUME NEW i \in Nat \ {0}, NEW x \in Request
          PROVE  /\ i <= Len(prefilling') /\ x = prefilling'[i] => PrefillAt(i, x)'
                 /\ i <= Len(decoding') /\ x = decoding'[i] => DecodeAt(i, x)'
      <4>1. ASSUME i <= Len(decoding'), x = decoding'[i] PROVE DecodeAt(i, x)'
        <5>1. /\ Len(decoding) # 1
              /\ \E j \in 1 .. Len(decoding) :
                   /\ j >= i /\ x = decoding[j] /\ x # v /\ (i < idx' => j < idx)
          BY <1>2, <1>3, <1>6, <2>1, <4>1, PassedAfter
        <5>2. PICK j \in 1 .. Len(decoding) : x = decoding[j] /\ x # v /\ (i < idx' => j < idx)
          BY <5>1
        <5>3. DecodeAt(j, x)
          BY <5>2 DEF BatchInv, Supplied
        <5> QED
          BY <1>4, <1>8, <2>1, <5>1, <5>2, <5>3 DEF DecodeAt
      <4>2. ASSUME i <= Len(prefilling'), x = prefilling'[i] PROVE PrefillAt(i, x)'
        <5>1. i \in 1 .. Len(prefilling) /\ x = prefilling[i]
          BY <2>1, <4>2, QueueTypes
        <5>2. x # v
          BY <1>6, <2>0, <5>1, AtPosition
        <5>3. PrefillAt(i, x)
          BY <5>1 DEF BatchInv, Supplied
        <5> QED
          BY <1>4, <1>8, <2>1, <5>2, <5>3 DEF PrefillAt, Resting
      <4> QED
        BY <4>1, <4>2
    <3> QED
      BY <3>1, SuppliedNext
  <2>4. SomebodyRuns'
    <3>1. PICK r \in Request : r \in Members(decoding) /\ r # v
      <4>1. decoding[idx] # decoding[k]
        BY <1>2, <1>6, <2>1 DEF Distinct
      <4> QED
        BY <1>3, <1>6, <2>1, <4>1, AtPosition
    <3>2. Members(decoding') = Members(decoding) \ {v}
      BY <1>3, <1>6, <2>1, WithoutMembers
    <3>3. r \in Batch'
      BY <3>1, <3>2 DEF Batch, Members
    <3> QED
      BY <3>3 DEF SomebodyRuns
  <2> QED
    BY <2>2, <2>4
<1>9. WithinBudget'
  <2>1. Members(prefilling') \subseteq Members(prefilling) \ {v} /\ Members(prefilling) \subseteq Request
    <3>1. CASE phase = "ensure_prefilling"
      <4>1. prefilling' = Without(prefilling, k) /\ v = prefilling[k] /\ k \in 1 .. Len(prefilling)
        BY <1>2, <1>3, <3>1 DEF EnsuredQueue
      <4> QED
        BY <1>6, <4>1, WithoutMembers, QueueTypes
    <3>2. CASE phase = "ensure_decoding"
      <4>1. prefilling' = prefilling /\ v = decoding[k] /\ k \in 1 .. Len(decoding)
        BY <1>2, <1>3, <3>2 DEF EnsuredQueue
      <4>2. v \in Members(decoding)
        BY <1>6, <4>1, AtPosition
      <4> QED
        BY <1>6, <4>1, <4>2, QueueTypes
    <3> QED
      BY <1>1, <3>1, <3>2
  <2>2. \A x \in Members(prefilling') : seq'[x].chunk_size = seq[x].chunk_size
    BY <1>4, <2>1
  <2>3. /\ Cardinality(Chunks(Members(prefilling)))' <= Cardinality(Chunks(Members(prefilling)))
        /\ Cardinality(Chunks(Members(prefilling))) \in Nat
        /\ Cardinality(Chunks(Members(prefilling)))' \in Nat
    BY <2>1, <2>2, BudgetShrinks
  <2>4. /\ prefill_tokens <= max_prefill_tokens
        /\ Cardinality(Chunks(Members(prefilling))) <= failures * max_prefill_tokens + prefill_tokens
    BY <1>1 DEF BatchInv, WithinBudget
  <2>5. failures * max_prefill_tokens \in Nat /\ prefill_tokens \in Nat
    BY SchedulerAssumption DEF TypeOK
  <2>6. Cardinality(Chunks(Members(prefilling)))' <= failures * max_prefill_tokens + prefill_tokens
    BY <2>3, <2>4, <2>5
  <2> QED
    BY <1>1, <2>4, <2>6 DEF WithinBudget
<1>10. Supplied' /\ SomebodyRuns'
  BY <1>1, <1>7, <1>8
<1> QED
  BY <1>5, <1>9, <1>10

-----------------------------------------------------------------------------
\* The model ran: who has prompt left needs the blocks it needed.
LEMMA RunRunnable ==
  ASSUME TypeOK, TypeOK', RequestsOK, BatchInv, NEW eos \in SUBSET Batch, RunnerStep(eos)
  PROVE  Supplied' /\ HeadServed' /\ SomebodyRuns' /\ WithinBudget'
<1>1. /\ phase = "run" /\ phase' = "advance"
      /\ UNCHANGED <<waiting, prefilling, decoding, blocks, idx, prefill_tokens, failures>>
      /\ prefilled' = {r \in Batch : seq[r].prefill_pending}
      /\ \A r \in Request :
           IF r \in Batch
           THEN seq'[r] = [seq[r] EXCEPT !.output = OutputAfter(r),
                                         !.prefill_pending = @ /\ ~is_final_chunk(seq[r])]
           ELSE seq'[r] = seq[r]
  BY DEF RunnerStep, queueVars
<1>2. ASSUME NEW r \in Request
      PROVE  /\ seq'[r].chunk_size = seq[r].chunk_size
             /\ seq'[r].prefill_pending => SeqLen(seq'[r]) = SeqLen(seq[r])
  <2>1. seq[r] \in Sequence
    BY DEF TypeOK
  <2>2. CASE r \in Batch
    <3>1. /\ seq'[r].chunk_size = seq[r].chunk_size /\ seq'[r].prefill_pos = seq[r].prefill_pos
          /\ seq'[r].output = OutputAfter(r)
          /\ seq'[r].prefill_pending = (seq[r].prefill_pending /\ ~is_final_chunk(seq[r]))
      BY <1>1, <2>1, <2>2 DEF Sequence
    <3>2. seq'[r].prefill_pending => seq'[r].output = seq[r].output /\ seq[r].prefill_pending
      <4>1. seq'[r].prefill_pending => seq[r].prefill_pending /\ ~is_final_chunk(seq[r])
        BY <3>1
      <4>2. ~is_final_chunk(seq[r]) /\ seq[r].prefill_pending => ~ValidOutput(r)
        BY DEF ValidOutput
      <4>3. seq[r].output \in Nat
        BY <2>1 DEF Sequence
      <4>4. ~ValidOutput(r) => OutputAfter(r) = seq[r].output
        BY <4>3 DEF OutputAfter
      <4> QED
        BY <3>1, <4>1, <4>2, <4>4
    <3> QED
      BY <3>1, <3>2 DEF SeqLen
  <2>3. CASE r \notin Batch
    BY <1>1, <2>3
  <2> QED
    BY <2>2, <2>3
<1>3. Supplied'
  <2>1. ASSUME NEW i \in Nat \ {0}, NEW x \in Request
        PROVE  /\ i <= Len(prefilling') /\ x = prefilling'[i] => PrefillAt(i, x)'
               /\ i <= Len(decoding') /\ x = decoding'[i] => DecodeAt(i, x)'
    <3>1. ASSUME i <= Len(prefilling'), x = prefilling'[i], i > 1, seq'[x].prefill_pending
          PROVE  Covered(x)'
      <4>0. prefilling' = prefilling
        BY <1>1
      <4>1. i \in 1 .. Len(prefilling) /\ x = prefilling[i] /\ Len(prefilling) # 1
        <5>1. i <= Len(prefilling) /\ x = prefilling[i] /\ i > 1
          BY <3>1, <4>0
        <5>2. Len(prefilling) \in Nat
          BY QueueTypes, LenProperties
        <5> QED
          BY <5>1, <5>2
      <4>2. Covered(x)
        BY <1>1, <4>1 DEF BatchInv, Supplied, PrefillAt
      <4>3. blocks'[x] = blocks[x] /\ blocks[x] \in SUBSET Block
        BY <1>1 DEF TypeOK
      <4> QED
        BY <1>2, <3>1, <4>2, <4>3, StillCovered
    <3> QED
      BY <1>1, <3>1 DEF PrefillAt, DecodeAt, Resting
  <2> QED
    BY <2>1, SuppliedNext
<1>4. HeadServed' /\ SomebodyRuns'
  BY <1>1 DEF HeadServed, SomebodyRuns
<1>5. WithinBudget'
  <2>1. ASSUME NEW r \in Members(prefilling), r \notin prefilled' PROVE seq'[r].chunk_size = 0
    <3>1. r \in Request /\ seq[r].prefill_pending
      BY <1>1, PrefillingGoesOn
    <3>2. r \notin Batch
      BY <1>1, <2>1, <3>1
    <3>3. seq[r].chunk_size \in Nat
      BY <3>1 DEF TypeOK, Sequence
    <3> QED
      BY <1>2, <3>1, <3>2, <3>3 DEF Batch
  <2> QED
    BY <1>1, <2>1 DEF WithinBudget, Members
<1> QED
  BY <1>3, <1>4, <1>5

\* The model failed: its batch's chunks stay, and count against one more budget.
LEMMA FailRunnable ==
  ASSUME TypeOK, TypeOK', RequestsOK, BatchInv, RunnerFail
  PROVE  Supplied' /\ HeadServed' /\ SomebodyRuns' /\ WithinBudget'
<1>1. /\ phase = "run" /\ phase' = "ready" /\ idx' = 1 /\ prefill_tokens' = 0
      /\ failures' = failures + 1
      /\ UNCHANGED <<waiting, prefilling, decoding, seq, blocks, prefilled>>
  BY DEF RunnerFail, LeaveStep, queueVars
<1>2. Supplied'
  <2>1. ASSUME NEW i \in Nat \ {0}, NEW x \in Request
        PROVE  /\ i <= Len(prefilling') /\ x = prefilling'[i] => PrefillAt(i, x)'
               /\ i <= Len(decoding') /\ x = decoding'[i] => DecodeAt(i, x)'
    <3>1. ASSUME i <= Len(prefilling'), x = prefilling'[i], i > 1 PROVE Covered(x)'
      <4>1. i \in 1 .. Len(prefilling) /\ x = prefilling[i] /\ Len(prefilling) # 1
        BY <1>1, <3>1, QueueTypes
      <4>2. Covered(x)
        BY <1>1, <4>1 DEF BatchInv, Supplied, PrefillAt
      <4>3. seq'[x] = seq[x] /\ blocks'[x] = blocks[x] /\ blocks[x] \in SUBSET Block
        BY <1>1 DEF TypeOK
      <4> QED
        BY <4>2, <4>3, StillCovered
    <3> QED
      BY <1>1, <3>1 DEF PrefillAt, DecodeAt, Resting
  <2> QED
    BY <2>1, SuppliedNext
<1>3. HeadServed' /\ SomebodyRuns'
  BY <1>1 DEF HeadServed, SomebodyRuns
<1>4. WithinBudget'
  <2>1. /\ Cardinality(Chunks(Members(prefilling)))' <= Cardinality(Chunks(Members(prefilling)))
        /\ Cardinality(Chunks(Members(prefilling))) \in Nat
        /\ Cardinality(Chunks(Members(prefilling)))' \in Nat
    BY <1>1, BudgetShrinks
  <2>2. /\ prefill_tokens <= max_prefill_tokens
        /\ Cardinality(Chunks(Members(prefilling))) <= failures * max_prefill_tokens + prefill_tokens
    BY <1>1 DEF BatchInv, WithinBudget
  <2>3. /\ failures * max_prefill_tokens \in Nat /\ prefill_tokens \in Nat
        /\ max_prefill_tokens \in Nat
        /\ (failures + 1) * max_prefill_tokens = failures * max_prefill_tokens + max_prefill_tokens
    BY SchedulerAssumption DEF TypeOK
  <2>4. Cardinality(Chunks(Members(prefilling)))' <= failures' * max_prefill_tokens + prefill_tokens'
    BY <1>1, <2>1, <2>2, <2>3
  <2> QED
    BY <1>1, <2>3, <2>4 DEF WithinBudget
<1> QED
  BY <1>2, <1>3, <1>4

\* A sequence moves past its chunk: it needs what it needed, with none assigned.
LEMMA AdvanceRunnable ==
  ASSUME TypeOK, TypeOK', QueuesApart, RequestsOK, BatchInv, AdvancePrefill
  PROVE  Supplied' /\ HeadServed' /\ SomebodyRuns' /\ WithinBudget'
<1>1. /\ phase = "advance" /\ phase' = "advance"
      /\ UNCHANGED <<waiting, blocks, idx, prefill_tokens, failures>>
  BY DEF AdvancePrefill
<1>2. PICK k \in 1 .. Len(prefilling) :
        /\ prefilled' = prefilled \ {prefilling[k]}
        /\ \/ /\ prefilling' = Without(prefilling, k)
              /\ seq' = [seq EXCEPT ![prefilling[k]] =
                           [Advanced(seq[prefilling[k]]) EXCEPT !.prefill_pending = FALSE]]
           \/ /\ prefilling' = prefilling
              /\ seq' = [seq EXCEPT ![prefilling[k]] = Advanced(seq[prefilling[k]])]
  BY DEF AdvancePrefill
<1>3. PICK r \in Request : r = prefilling[k]
  BY QueueTypes
<1>4. \A x \in Request : x # r => seq'[x] = seq[x]
  BY <1>2, <1>3 DEF TypeOK
<1>5. prefilling \in Seq(Request) /\ prefilling' \in Seq(Request) /\ Distinct(prefilling)
  BY DEF TypeOK, QueuesApart
<1>6. ASSUME prefilling' = prefilling
      PROVE  seq'[r].chunk_size = 0 /\ seq'[r].prefill_pending = seq[r].prefill_pending
             /\ (seq[r].prefill_pending => SeqLen(seq'[r]) = SeqLen(seq[r]))
  <2>1. seq[r] \in Sequence
    BY DEF TypeOK
  <2>2. Len(Without(prefilling, k)) # Len(prefilling)
    BY <1>5, WithoutPositions
  <2>3. seq'[r] = Advanced(seq[r])
    BY <1>2, <1>3, <1>6, <2>2 DEF TypeOK
  <2>4. /\ Advanced(seq[r]).chunk_size = 0
        /\ Advanced(seq[r]).prefill_pending = seq[r].prefill_pending
        /\ Advanced(seq[r]).prefill_pos = seq[r].prefill_pos + seq[r].chunk_size
        /\ Advanced(seq[r]).output = seq[r].output
    BY <2>1 DEF Advanced, Sequence
  <2>5. /\ seq[r].prefill_pos \in Nat /\ seq[r].chunk_size \in Nat /\ seq[r].output \in Nat
    BY <2>1 DEF Sequence
  <2>6. seq[r].prefill_pending => SeqLen(Advanced(seq[r])) = SeqLen(seq[r])
    BY <2>4, <2>5 DEF SeqLen
  <2> QED
    BY <2>3, <2>4, <2>6
<1>7. ASSUME NEW i \in Nat \ {0}, NEW x \in Request, i <= Len(prefilling'), x = prefilling'[i]
      PROVE  /\ x # r \/ prefilling' = prefilling
             /\ \E j \in 1 .. Len(prefilling) : j >= i /\ x = prefilling[j]
  <2>1. Len(prefilling') \in Nat /\ i \in 1 .. Len(prefilling')
    BY <1>5, <1>7, LenProperties
  <2>2. CASE prefilling' = prefilling
    BY <1>7, <2>1, <2>2
  <2>3. CASE prefilling' = Without(prefilling, k)
    <3>1. i \in 1 .. Len(Without(prefilling, k))
      BY <2>1, <2>3
    <3>2. PICK j \in 1 .. Len(prefilling) :
            /\ j \in {i, i + 1} /\ (i < k => j = i) /\ (i >= k => j = i + 1)
            /\ Without(prefilling, k)[i] = prefilling[j]
      BY <1>5, <3>1, WithoutPositions
    <3>3. j # k /\ j >= i /\ x = prefilling[j]
      BY <1>7, <2>1, <2>3, <3>2
    <3>4. x # r
      BY <1>3, <1>5, <3>3 DEF Distinct
    <3> QED
      BY <3>3, <3>4
  <2> QED
    BY <1>2, <2>2, <2>3
<1>8. Supplied'
  <2>1. ASSUME NEW i \in Nat \ {0}, NEW x \in Request
        PROVE  /\ i <= Len(prefilling') /\ x = prefilling'[i] => PrefillAt(i, x)'
               /\ i <= Len(decoding') /\ x = decoding'[i] => DecodeAt(i, x)'
    <3>1. ASSUME i <= Len(prefilling'), x = prefilling'[i], i > 1, seq'[x].prefill_pending
          PROVE  Covered(x)'
      <4>1. PICK j \in 1 .. Len(prefilling) : j >= i /\ x = prefilling[j]
        BY <1>7, <3>1
      <4>2. seq[x].prefill_pending /\ SeqLen(seq'[x]) = SeqLen(seq[x])
        <5>1. CASE x # r
          BY <1>4, <3>1, <5>1
        <5>2. CASE x = r
          <6>1. prefilling' = prefilling
            BY <1>7, <3>1, <5>2
          <6> QED
            BY <1>6, <3>1, <5>2, <6>1
        <5> QED
          BY <5>1, <5>2
      <4>3. Covered(x)
        <5>1. j > 1
          BY <3>1, <4>1
        <5>2. PrefillAt(j, x)
          BY <4>1 DEF BatchInv, Supplied
        <5> QED
          BY <1>1, <4>2, <5>1, <5>2 DEF PrefillAt, Resting
      <4>4. blocks'[x] = blocks[x] /\ blocks[x] \in SUBSET Block
        BY <1>1 DEF TypeOK
      <4> QED
        BY <4>2, <4>3, <4>4, StillCovered
    <3> QED
      BY <1>1, <3>1 DEF PrefillAt, DecodeAt, Resting
  <2> QED
    BY <2>1, SuppliedNext
<1>9. HeadServed' /\ SomebodyRuns'
  BY <1>1 DEF HeadServed, SomebodyRuns
<1>10. WithinBudget'
  <2>1. ASSUME NEW x \in Members(prefilling'), x \notin prefilled' PROVE seq'[x].chunk_size = 0
    <3>1. PICK i \in 1 .. Len(prefilling') : x = prefilling'[i]
      BY <1>5, AtPosition
    <3>2. i \in Nat \ {0} /\ i <= Len(prefilling') /\ x \in Request
      BY <1>5, <3>1, AtPosition
    <3>3. x # r \/ prefilling' = prefilling
      BY <1>7, <3>1, <3>2
    <3>4. CASE x = r
      BY <1>6, <3>3, <3>4
    <3>5. CASE x # r
      <4>1. \E j \in 1 .. Len(prefilling) : j >= i /\ x = prefilling[j]
        BY <1>7, <3>1, <3>2
      <4>2. x \in Members(prefilling)
        BY <1>5, <4>1, AtPosition
      <4>3. x \notin prefilled
        BY <1>2, <1>3, <2>1, <3>5
      <4>4. seq[x].chunk_size = 0
        BY <1>1, <4>2, <4>3 DEF BatchInv, WithinBudget
      <4> QED
        BY <1>4, <3>2, <3>5, <4>4
    <3> QED
      BY <3>4, <3>5
  <2> QED
    BY <1>1, <2>1 DEF WithinBudget, Members
<1> QED
  BY <1>8, <1>9, <1>10

\* Every step keeps the batch runnable.
LEMMA NextRunnable ==
  ASSUME prefill_chunk_size <= max_prefill_tokens,
         TypeOK, TypeOK', BlocksPartitioned, QueuesApart, WaitingInOrder, RequestsOK, BatchInv,
         [Next]_vars
  PROVE  BatchInv'
<1>0. Admitted'
  BY NextAdmitted DEF BatchInv
<1> SUFFICES Supplied' /\ HeadServed' /\ SomebodyRuns' /\ WithinBudget'
  BY <1>0 DEF BatchInv
<1>1. CASE Schedule /\ UNCHANGED engineVars
  BY <1>1, BeginRunnable, AssignRunnable, AssignDoneRunnable, PromoteRunnable,
     PromoteDoneRunnable, AllocateRunnable, PreemptRunnable, EnsurePassesRunnable DEF Schedule
<1>2. CASE \E eos \in SUBSET Batch : RunnerStep(eos)
  BY <1>2, RunRunnable
<1>3. CASE AdvancePrefill \/ FinishSeq \/ RunnerFail
  BY <1>3, AdvanceRunnable, FinishSeqRunnable, FailRunnable
<1>4. CASE UNCHANGED vars \/ AdvanceDone \/ FinishDone \/ TakeResult
  BY <1>4, RestRunnable
<1>5. ASSUME NEW r \in Request, NEW prompt \in PromptLen, NEW max_tokens \in MaxTokens,
             NEW priority \in Priority, Submit(r, prompt, max_tokens, priority)
      PROVE  Supplied' /\ HeadServed' /\ SomebodyRuns' /\ WithinBudget'
  BY <1>5, SubmitRunnable
<1>6. ASSUME NEW r \in Request, Cancel(r)
      PROVE  Supplied' /\ HeadServed' /\ SomebodyRuns' /\ WithinBudget'
  BY <1>6, CancelRunnable
<1> QED
  BY <1>1, <1>2, <1>3, <1>4, <1>5, <1>6 DEF Next, Step

\* Nobody is there at first.
LEMMA InitRunnable == Init => BatchInv
<1> SUFFICES ASSUME Init PROVE BatchInv
  OBVIOUS
<1>1. /\ waiting = <<>> /\ prefilling = <<>> /\ decoding = <<>>
      /\ phase = "ready" /\ idx = 1 /\ prefill_tokens = 0 /\ failures = 0
  BY DEF Init, SchedInit
<1>2. Members(prefilling) = {} /\ Live = {}
  BY <1>1 DEF Members, Live
<1>3. Admitted
  BY <1>2 DEF Admitted
<1>4. Supplied /\ HeadServed /\ SomebodyRuns
  BY <1>1 DEF Supplied, HeadServed, SomebodyRuns
<1>5. WithinBudget
  <2>1. Chunks(Members(prefilling)) = {}
    BY <1>2 DEF Chunks
  <2>2. Cardinality(Chunks(Members(prefilling))) = 0
    BY <2>1, FS_EmptySet
  <2> QED
    BY <1>1, <2>2, SchedulerAssumption DEF WithinBudget
<1> QED
  BY <1>3, <1>4, <1>5 DEF BatchInv

\* The invariant gives the property.
LEMMA RunnableBatch ==
  ASSUME TypeOK, BatchInv
  PROVE  BatchRunnable
<1> SUFFICES ASSUME phase = "run"
             PROVE  /\ Batch # {}
                    /\ \A r \in Batch :
                         Covered(r) \/ Members(prefilling) = {r} \/ Members(decoding) = {r}
                    /\ BatchPrefill <= (failures + 1) * max_prefill_tokens
  BY DEF BatchRunnable
<1>1. Batch # {}
  BY DEF BatchInv, SomebodyRuns
<1>2. ASSUME NEW q \in Seq(Request), Len(q) = 1, NEW i \in 1 .. Len(q) PROVE Members(q) = {q[i]}
  BY <1>2 DEF Members
<1>3. ASSUME NEW r \in Batch
      PROVE  Covered(r) \/ Members(prefilling) = {r} \/ Members(decoding) = {r}
  <2>1. CASE r \in Members(prefilling)
    <3>1. PICK i \in 1 .. Len(prefilling) : prefilling[i] = r
      BY <2>1, AtPosition DEF TypeOK
    <3>2. PrefillAt(i, prefilling[i])
      BY DEF BatchInv, Supplied
    <3>3. Covered(r) \/ Len(prefilling) = 1
      BY <3>1, <3>2 DEF PrefillAt
    <3> QED
      BY <1>2, <3>1, <3>3 DEF TypeOK
  <2>2. CASE r \in Members(decoding)
    <3>1. PICK i \in 1 .. Len(decoding) : decoding[i] = r
      BY <2>2, AtPosition DEF TypeOK
    <3>2. DecodeAt(i, decoding[i])
      BY DEF BatchInv, Supplied
    <3>3. Covered(r) \/ Len(decoding) = 1
      BY <3>1, <3>2 DEF DecodeAt
    <3> QED
      BY <1>2, <3>1, <3>3 DEF TypeOK
  <2> QED
    BY <2>1, <2>2 DEF Batch
<1>4. BatchPrefill <= (failures + 1) * max_prefill_tokens
  <2>1. PICK c \in [Request -> Nat] : c = [x \in Request |-> seq[x].chunk_size]
    BY DEF TypeOK, Sequence
  <2>2. Members(prefilling) \in SUBSET Request
    BY QueueTypes
  <2>3. Chunks(Members(prefilling)) = UNION {{x} \X (1 .. c[x]) : x \in Members(prefilling)}
    BY <2>1, <2>2 DEF Chunks
  <2>4. IsFiniteSet(Chunks(Members(prefilling)))
    BY <2>2, <2>3, ChunksFinite
  <2>5. Chunks(Batch \cap Members(prefilling)) \subseteq Chunks(Members(prefilling))
    BY DEF Chunks
  <2>6. /\ IsFiniteSet(Chunks(Batch \cap Members(prefilling)))
        /\ BatchPrefill <= Cardinality(Chunks(Members(prefilling)))
    BY <2>4, <2>5, FS_Subset DEF BatchPrefill
  <2>7. BatchPrefill \in Nat /\ Cardinality(Chunks(Members(prefilling))) \in Nat
    BY <2>4, <2>6, FS_CardinalityType DEF BatchPrefill
  <2>8. /\ prefill_tokens <= max_prefill_tokens
        /\ Cardinality(Chunks(Members(prefilling))) <= failures * max_prefill_tokens + prefill_tokens
    BY DEF BatchInv, WithinBudget
  <2>9. /\ failures * max_prefill_tokens \in Nat /\ prefill_tokens \in Nat
        /\ max_prefill_tokens \in Nat
        /\ (failures + 1) * max_prefill_tokens = failures * max_prefill_tokens + max_prefill_tokens
    BY SchedulerAssumption DEF TypeOK
  <2> QED
    BY <2>6, <2>7, <2>8, <2>9
<1> QED
  BY <1>1, <1>3, <1>4

\* schedule() hands the model a batch that is not empty while anybody waits, that has
\* its blocks but for one sequence alone in its queue, and that is within the budget,
\* one more for each error so far, if a chunk fits the budget at all, as it does in
\* SchedulerConfig's defaults (schedule, ensure_blocks, add).
THEOREM BatchAlwaysRunnable ==
  ASSUME prefill_chunk_size <= max_prefill_tokens
  PROVE  Spec => []BatchRunnable
<1>1. /\ TypeOK /\ TypeOK' /\ BlocksPartitioned /\ QueuesApart /\ WaitingInOrder /\ RequestsOK
      /\ BatchInv /\ [Next]_vars
      => BatchInv'
  BY NextRunnable
<1>2. TypeOK /\ BatchInv => BatchRunnable
  BY RunnableBatch
<1> QED
  BY <1>1, <1>2, InitRunnable, EngineTypeCorrect, EngineBlocksSafe, QueuesAlwaysInOrder,
     RequestsAlwaysOK, PTL DEF Spec
-----------------------------------------------------------------------------
(* A step comes to its end *)

\* The phases a step still has before it.
PhasesAfter(p) ==
  CASE p = "assign" -> 8 [] p = "promote" -> 7
    [] p = "ensure_prefilling" -> 6 [] p = "ensure_decoding" -> 5
    [] p = "run" -> 4 [] p = "advance" -> 3 [] p = "finish" -> 2
    [] p = "result" -> 1 [] OTHER -> 0

\* What the loop of the phase has left to do.  A victim before the requester moves
\* its index back, so loop 3 counts the queue twice.
LoopLeft ==
  CASE phase = "assign" -> Len(prefilling) + 1 - idx
    [] phase = "promote" -> Len(waiting)
    [] phase = "ensure_prefilling" -> 2 * Len(prefilling) + 1 - idx
    [] phase = "ensure_decoding" -> 2 * Len(decoding) + 1 - idx
    [] phase = "advance" -> Cardinality(prefilled)
    [] phase = "finish" -> Cardinality(DOMAIN finished)
    [] OTHER -> 0

\* Nearer the end of the step: a later phase, less left of the loop, or fewer
\* blocks left to take for the sequence the loop is at.
NearerEnd ==
  \/ PhasesAfter(phase') < PhasesAfter(phase)
  \/ phase' = phase /\ LoopLeft' < LoopLeft
  \/ /\ phase' = phase /\ LoopLeft' = LoopLeft
     /\ Cardinality(free') < Cardinality(free)

\* The loops' index stays in its queue, or right behind it.
LoopIndex ==
  /\ phase = "assign" => idx <= Len(prefilling) + 1
  /\ phase = "ensure_prefilling" => idx <= Len(prefilling) + 1
  /\ phase = "ensure_decoding" => idx <= Len(decoding) + 1
  /\ phase \notin {"assign", "promote", "ensure_prefilling", "ensure_decoding"} =>
       idx = 1

\* What a loop looks for in its queue is there: the next prefill to advance, the
\* sequence to finish, somebody to preempt.
FindsItsNext ==
  /\ phase = "advance" /\ prefilled # {} =>
       \E i \in 1 .. Len(prefilling) :
         /\ prefilling[i] \in prefilled
         /\ \A j \in 1 .. i - 1 : prefilling[j] \notin prefilled
  /\ phase = "finish" => DOMAIN finished \subseteq Running
  /\ Ensuring /\ idx <= Len(EnsuredQueue) /\ Victims # {} =>
       \E vi \in 1 .. Len(EnsuredQueue) : IsVictim(vi)

\* A set of numbers has a least one.
LEMMA LeastNat ==
  ASSUME NEW T \in SUBSET Nat, T # {}
  PROVE  \E m \in T : \A n \in T : m <= n
<1> DEFINE R == OpToRel(<, Nat)
<1>1. IsWellFoundedOn(R, Nat)
  BY NatLessThanWellFounded
<1>2. \A x, y \in Nat : x < y => <<x, y>> \in R
  BY DEF OpToRel
<1> HIDE DEF R
<1>3. PICK m \in T : \A n \in T : <<n, m>> \notin R
  BY <1>1, WFMin
<1>4. \A n \in T : ~(n < m)
  BY <1>2, <1>3, Zenon
<1> QED
  BY <1>4

\* Among sequences somewhere in a queue one sorts last.
LEMMA SomebodyLast ==
  ASSUME TypeOK, NEW q \in Seq(Request), NEW V \in SUBSET (1 .. Len(q)), V # {}
  PROVE  \E vi \in V : \A i \in V : NotAfter(seq[q[i]], seq[q[vi]])
<1> DEFINE upto(i) == {j \in V : NotAfter(seq[q[j]], seq[q[i]])}
           T == {Len(q) - Cardinality(upto(i)) : i \in V}
<1>1. Len(q) \in Nat /\ \A i \in V : seq[q[i]] \in Sequence
  BY LenProperties, ElementOfSeq DEF TypeOK
<1>2. IsFiniteSet(1 .. Len(q)) /\ Cardinality(1 .. Len(q)) = Len(q)
  BY <1>1, FS_Interval
<1>3. \A i \in V : /\ IsFiniteSet(upto(i)) /\ Cardinality(upto(i)) \in Nat
                   /\ Cardinality(upto(i)) <= Len(q)
  <2> SUFFICES ASSUME NEW i \in V
               PROVE  /\ IsFiniteSet(upto(i)) /\ Cardinality(upto(i)) \in Nat
                      /\ Cardinality(upto(i)) <= Len(q)
    OBVIOUS
  <2>1. upto(i) \in SUBSET (1 .. Len(q))
    OBVIOUS
  <2> HIDE DEF upto
  <2> QED
    BY <1>2, <2>1, FS_Subset, FS_CardinalityType
<1> HIDE DEF upto
<1>4. T \in SUBSET Nat /\ T # {}
  <2>1. \A i \in V : Len(q) - Cardinality(upto(i)) \in Nat
    BY <1>1, <1>3
  <2> QED
    BY <2>1
<1>5. PICK m \in T : \A n \in T : m <= n
  <2> HIDE DEF T
  <2> QED
    BY <1>4, LeastNat
<1>6. PICK vi \in V : m = Len(q) - Cardinality(upto(vi))
  OBVIOUS
<1>7. \A i \in V : Cardinality(upto(i)) <= Cardinality(upto(vi))
  <2>1. \A i \in V : Len(q) - Cardinality(upto(i)) \in T
    OBVIOUS
  <2>2. \A i \in V : m <= Len(q) - Cardinality(upto(i))
    <3> HIDE DEF T
    <3> QED
      BY <1>5, <2>1
  <2> QED
    BY <1>1, <1>3, <1>6, <2>2
<1> USE DEF upto
<1>8. ASSUME NEW i \in V
      PROVE  NotAfter(seq[q[i]], seq[q[vi]])
  <2> SUFFICES ASSUME ~NotAfter(seq[q[i]], seq[q[vi]])
               PROVE  FALSE
    OBVIOUS
  <2>1. NotAfter(seq[q[vi]], seq[q[i]]) /\ NotAfter(seq[q[i]], seq[q[i]])
    BY <1>1, OrderOfKeys
  <2>2. upto(vi) \subseteq upto(i)
    BY <1>1, <2>1, OrderOfKeys
  <2>3. i \in upto(i) /\ i \notin upto(vi)
    BY <2>1
  <2> HIDE DEF upto
  <2>4. Cardinality(upto(vi)) <= Cardinality(upto(i)) /\ upto(vi) # upto(i)
    BY <1>3, <2>2, <2>3, FS_Subset
  <2>5. Cardinality(upto(vi)) = Cardinality(upto(i))
    BY <1>3, <1>7, <2>4
  <2> QED
    BY <1>3, <2>2, <2>4, <2>5, FS_Subset
<1> QED
  BY <1>8

\* What the loops look for is there.
LEMMA FindsNext ==
  ASSUME TypeOK, StepShape
  PROVE  FindsItsNext
<1>1. ASSUME prefilled # {}
      PROVE  \E i \in 1 .. Len(prefilling) :
               /\ prefilling[i] \in prefilled
               /\ \A j \in 1 .. i - 1 : prefilling[j] \notin prefilled
  <2> DEFINE T == {i \in 1 .. Len(prefilling) : prefilling[i] \in prefilled}
  <2>1. T \in SUBSET Nat
    BY QueueTypes
  <2>2. T # {}
    BY <1>1 DEF StepShape, Members
  <2>3. PICK i \in T : \A j \in T : i <= j
    <3> HIDE DEF T
    <3> QED
      BY <2>1, <2>2, LeastNat
  <2>4. \A j \in 1 .. i - 1 : j \in 1 .. Len(prefilling) /\ ~(i <= j)
    BY QueueTypes
  <2> QED
    BY <2>3, <2>4
<1>2. ASSUME Ensuring, Victims # {}
      PROVE  \E vi \in 1 .. Len(EnsuredQueue) : IsVictim(vi)
  <2>1. EnsuredQueue \in Seq(Request)
    BY DEF EnsuredQueue, TypeOK
  <2>2. Victims \in SUBSET (1 .. Len(EnsuredQueue))
    BY DEF Victims
  <2>3. PICK vi \in Victims :
          \A i \in Victims : NotAfter(seq[EnsuredQueue[i]], seq[EnsuredQueue[vi]])
    BY <1>2, <2>1, <2>2, SomebodyLast
  <2> QED
    BY <2>2, <2>3 DEF IsVictim
<1> QED
  BY <1>1, <1>2 DEF FindsItsNext, StepShape

\* A victim taken out of the queue in front of the requester moves it one place
\* forward: either way the queue is shorter than the loop was from its end.
LEMMA VictimShortens ==
  ASSUME NEW q \in Seq(Request), NEW vi \in 1 .. Len(q), idx \in Nat \ {0},
         idx <= Len(q)
  PROVE  /\ IndexAfter(vi) \in Nat \ {0}
         /\ IndexAfter(vi) <= Len(Without(q, vi)) + 1
         /\ 2 * Len(Without(q, vi)) + 1 - IndexAfter(vi) < 2 * Len(q) + 1 - idx
         /\ Len(Without(q, vi)) \in Nat
<1>1. Len(q) \in Nat /\ Len(Without(q, vi)) = Len(q) - 1
  BY WithoutPositions
<1> QED
  BY <1>1 DEF IndexAfter

\* The index starts at 1, moves by one inside its queue, and is put back.
LEMMA IndexStays ==
  ASSUME TypeOK, LoopIndex, [Next]_vars
  PROVE  LoopIndex'
<1> USE DEF LoopIndex
<1>1. /\ Len(prefilling) \in Nat /\ Len(decoding) \in Nat /\ idx \in Nat \ {0}
      /\ prefilling \in Seq(Request) /\ decoding \in Seq(Request)
  BY QueueTypes DEF TypeOK
<1>2. CASE UNCHANGED vars
  BY <1>2 DEF vars, schedVars
<1>3. CASE \E r \in Request, prompt \in PromptLen, max_tokens \in MaxTokens,
              priority \in Priority : Submit(r, prompt, max_tokens, priority)
  BY <1>3 DEF Submit, Add, TooLong, schedVars
<1>4. CASE \E r \in Request : Cancel(r)
  BY <1>4 DEF Cancel
<1>5. CASE BeginSchedule \/ AssignDone \/ Promote \/ PromoteDone
  BY <1>1, <1>5 DEF BeginSchedule, AssignDone, Promote, PromoteDone, queueVars
<1>6. CASE AssignChunk
  BY <1>1, <1>6 DEF AssignChunk, MoreChunks, queueVars
<1>7. CASE EnsureAllocate \/ EnsureNext \/ EnsureDone
  BY <1>1, <1>7 DEF EnsureAllocate, EnsureNext, EnsureDone, Ensuring, EnsuredQueue,
                    queueVars
<1>8. CASE Preempt
  <2>1. PICK vi \in 1 .. Len(EnsuredQueue) :
          /\ IF phase = "ensure_prefilling"
             THEN prefilling' = Without(prefilling, vi) /\ UNCHANGED decoding
             ELSE decoding' = Without(decoding, vi) /\ UNCHANGED prefilling
          /\ idx' = IndexAfter(vi)
    BY <1>8 DEF Preempt
  <2>2. phase' = phase /\ Ensuring /\ idx <= Len(EnsuredQueue)
    BY <1>8 DEF Preempt
  <2>3. CASE phase = "ensure_prefilling"
    BY <1>1, <2>1, <2>2, <2>3, VictimShortens DEF EnsuredQueue
  <2>4. CASE phase = "ensure_decoding"
    BY <1>1, <2>1, <2>2, <2>4, VictimShortens DEF EnsuredQueue
  <2> QED
    BY <2>2, <2>3, <2>4 DEF Ensuring
<1>9. CASE (\E eos \in SUBSET Batch : RunnerStep(eos)) \/ RunnerFail
  BY <1>9 DEF RunnerStep, RunnerFail, LeaveStep
<1>10. CASE AdvancePrefill \/ AdvanceDone \/ FinishSeq \/ FinishDone \/ TakeResult
  BY <1>10 DEF AdvancePrefill, AdvanceDone, FinishSeq, FinishDone, TakeResult, LeaveStep
<1> QED
  BY <1>2, <1>3, <1>4, <1>5, <1>6, <1>7, <1>8, <1>9, <1>10 DEF Next, Step, Schedule

\* What is left is a number.
LEMMA LoopLeftType ==
  ASSUME TypeOK, LoopIndex
  PROVE  LoopLeft \in Nat /\ PhasesAfter(phase) \in Nat /\ Cardinality(free) \in Nat
<1>1. /\ Len(prefilling) \in Nat /\ Len(decoding) \in Nat /\ Len(waiting) \in Nat
      /\ idx \in Nat \ {0}
  BY QueueTypes DEF TypeOK
<1>2. IsFiniteSet(prefilled) /\ IsFiniteSet(DOMAIN finished) /\ IsFiniteSet(free)
  BY SchedulerAssumption, FS_Subset DEF TypeOK
<1>3. /\ Cardinality(prefilled) \in Nat /\ Cardinality(DOMAIN finished) \in Nat
      /\ Cardinality(free) \in Nat
  BY <1>2, FS_CardinalityType
<1>4. LoopLeft \in Nat
  <2>1. CASE phase = "assign"
    BY <1>1, <2>1 DEF LoopIndex, LoopLeft
  <2>2. CASE phase = "ensure_prefilling"
    BY <1>1, <2>2 DEF LoopIndex, LoopLeft
  <2>3. CASE phase = "ensure_decoding"
    BY <1>1, <2>3 DEF LoopIndex, LoopLeft
  <2>4. CASE phase \notin {"assign", "ensure_prefilling", "ensure_decoding"}
    BY <1>1, <1>3, <2>4 DEF LoopLeft
  <2> QED
    BY <2>1, <2>2, <2>3, <2>4
<1>5. PhasesAfter(phase) \in Nat
  BY DEF PhasesAfter
<1> QED
  BY <1>3, <1>4, <1>5

\* Every action of a step brings it nearer its end.
LEMMA ActionNearsEnd ==
  ASSUME TypeOK, LoopIndex, Next, phase # "ready"
  PROVE  NearerEnd
<1>1. /\ Len(prefilling) \in Nat /\ Len(decoding) \in Nat /\ Len(waiting) \in Nat
      /\ idx \in Nat \ {0}
      /\ waiting \in Seq(Request) /\ prefilling \in Seq(Request)
      /\ decoding \in Seq(Request)
  BY QueueTypes DEF TypeOK
<1>2. IsFiniteSet(prefilled) /\ IsFiniteSet(DOMAIN finished) /\ IsFiniteSet(free)
  BY SchedulerAssumption, FS_Subset DEF TypeOK
<1>3. ASSUME NEW S, IsFiniteSet(S), NEW x \in S
      PROVE  Cardinality(S \ {x}) < Cardinality(S)
  <2>1. Cardinality(S) \in Nat /\ Cardinality(S \ {x}) = Cardinality(S) - 1
    BY <1>3, FS_RemoveElement, FS_CardinalityType
  <2> QED
    BY <2>1
<1>4. ~(\E r \in Request, prompt \in PromptLen, max_tokens \in MaxTokens,
           priority \in Priority : Submit(r, prompt, max_tokens, priority))
      /\ ~(\E r \in Request : Cancel(r)) /\ ~BeginSchedule
  BY DEF Submit, Add, TooLong, Cancel, BeginSchedule
<1>5. CASE AssignChunk
  <2>1. /\ phase = "assign" /\ phase' = "assign" /\ prefilling' = prefilling
        /\ idx' = idx + 1
    BY <1>5 DEF AssignChunk, queueVars
  <2> QED
    BY <1>1, <2>1 DEF NearerEnd, LoopLeft
<1>6. CASE Promote
  <2>1. /\ phase = "promote" /\ phase' = "promote" /\ waiting # <<>>
        /\ waiting' = Tail(waiting)
    BY <1>6 DEF Promote, CanPromote
  <2>2. Len(waiting') < Len(waiting)
    BY <1>1, <2>1, HeadTailProperties
  <2> QED
    BY <1>1, <2>1, <2>2 DEF NearerEnd, LoopLeft
<1>7. CASE AssignDone \/ PromoteDone \/ EnsureDone
  BY <1>7 DEF AssignDone, PromoteDone, EnsureDone, Ensuring, NearerEnd, PhasesAfter
<1>8. CASE EnsureAllocate
  <2>1. /\ Ensuring /\ phase' = phase /\ idx' = idx /\ free # {}
        /\ prefilling' = prefilling /\ decoding' = decoding
        /\ free' = free \ {CHOOSE b \in free : TRUE}
    BY <1>8 DEF EnsureAllocate, queueVars
  <2>2. (CHOOSE b \in free : TRUE) \in free
    BY <2>1
  <2>3. Cardinality(free') < Cardinality(free)
    BY <1>2, <1>3, <2>1, <2>2
  <2>4. LoopLeft' = LoopLeft
    BY <2>1 DEF LoopLeft, Ensuring
  <2> QED
    BY <2>1, <2>3, <2>4 DEF NearerEnd
<1>9. CASE EnsureNext
  <2>1. /\ Ensuring /\ phase' = phase /\ idx' = idx + 1
        /\ prefilling' = prefilling /\ decoding' = decoding
    BY <1>9 DEF EnsureNext, queueVars
  <2> QED
    BY <1>1, <2>1 DEF NearerEnd, LoopLeft, Ensuring
<1>10. CASE Preempt
  <2>1. PICK vi \in 1 .. Len(EnsuredQueue) :
          /\ IF phase = "ensure_prefilling"
             THEN prefilling' = Without(prefilling, vi) /\ UNCHANGED decoding
             ELSE decoding' = Without(decoding, vi) /\ UNCHANGED prefilling
          /\ idx' = IndexAfter(vi)
    BY <1>10 DEF Preempt
  <2>2. phase' = phase /\ Ensuring /\ idx <= Len(EnsuredQueue)
    BY <1>10 DEF Preempt
  <2>3. CASE phase = "ensure_prefilling"
    <3>1. 2 * Len(prefilling') + 1 - idx' < 2 * Len(prefilling) + 1 - idx
      BY <1>1, <2>1, <2>2, <2>3, VictimShortens DEF EnsuredQueue
    <3> QED
      BY <2>2, <2>3, <3>1 DEF NearerEnd, LoopLeft
  <2>4. CASE phase = "ensure_decoding"
    <3>1. 2 * Len(decoding') + 1 - idx' < 2 * Len(decoding) + 1 - idx
      BY <1>1, <2>1, <2>2, <2>4, VictimShortens DEF EnsuredQueue
    <3> QED
      BY <2>2, <2>4, <3>1 DEF NearerEnd, LoopLeft
  <2> QED
    BY <2>2, <2>3, <2>4 DEF Ensuring
<1>11. CASE (\E eos \in SUBSET Batch : RunnerStep(eos)) \/ RunnerFail
  <2>1. phase = "run" /\ phase' \in {"advance", "ready"}
    BY <1>11 DEF RunnerStep, RunnerFail, LeaveStep
  <2> QED
    BY <2>1 DEF NearerEnd, PhasesAfter
<1>12. CASE AdvancePrefill
  <2>1. PICK r \in prefilled : prefilled' = prefilled \ {r}
    BY <1>12 DEF AdvancePrefill
  <2>2. phase = "advance" /\ phase' = "advance"
    BY <1>12 DEF AdvancePrefill
  <2>3. Cardinality(prefilled') < Cardinality(prefilled)
    BY <1>2, <1>3, <2>1
  <2> QED
    BY <2>2, <2>3 DEF NearerEnd, LoopLeft
<1>13. CASE FinishSeq
  <2>1. PICK r \in DOMAIN finished :
          finished' = [x \in DOMAIN finished \ {r} |-> finished[x]]
    BY <1>13 DEF FinishSeq
  <2>2. phase = "finish" /\ phase' = "finish"
    BY <1>13 DEF FinishSeq
  <2>3. DOMAIN finished' = DOMAIN finished \ {r}
    BY <2>1
  <2>4. Cardinality(DOMAIN finished') < Cardinality(DOMAIN finished)
    BY <1>2, <1>3, <2>3
  <2> QED
    BY <2>2, <2>4 DEF NearerEnd, LoopLeft
<1>14. CASE AdvanceDone \/ FinishDone \/ TakeResult
  BY <1>14 DEF AdvanceDone, FinishDone, TakeResult, LeaveStep, NearerEnd, PhasesAfter
<1> QED
  BY <1>4, <1>5, <1>6, <1>7, <1>8, <1>9, <1>10, <1>11, <1>12, <1>13, <1>14
     DEF Next, Step, Schedule

\* Every step of the engine ends (step, schedule, ensure_blocks), however requests
\* evict one another in it: what it has left is three numbers, each of its actions
\* makes them smaller in lexicographic order, and each of its loops finds what it
\* looks for.  A request can therefore starve only across steps.
THEOREM EveryStepEnds ==
  Spec => /\ [](LoopLeft \in Nat /\ PhasesAfter(phase) \in Nat /\ Cardinality(free) \in Nat)
          /\ [][phase # "ready" => NearerEnd]_vars
          /\ []FindsItsNext
<1>1. Init => LoopIndex
  BY DEF Init, SchedInit, LoopIndex
<1>2. TypeOK /\ LoopIndex /\ [Next]_vars => LoopIndex'
  BY IndexStays
<1>3. TypeOK /\ LoopIndex /\ [Next]_vars => [phase # "ready" => NearerEnd]_vars
  BY ActionNearsEnd
<1>4. TypeOK /\ LoopIndex =>
        LoopLeft \in Nat /\ PhasesAfter(phase) \in Nat /\ Cardinality(free) \in Nat
  BY LoopLeftType
<1>5. TypeOK /\ RequestsOK => FindsItsNext
  BY FindsNext DEF RequestsOK
<1> QED
  BY <1>1, <1>2, <1>3, <1>4, <1>5, EngineTypeCorrect, RequestsAlwaysOK, PTL DEF Spec
=============================================================================
