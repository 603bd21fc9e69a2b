---------------------------- MODULE BlockManager ----------------------------
(***************************************************************************)
(* zealot/src/block_manager.rs: the paged KV cache's block pool.  Blocks   *)
(* are handed out as generation-stamped handles; a handle is accepted only *)
(* while the block's generation is the one it was issued with.             *)
(*                                                                         *)
(* Every operation is one action: the scheduler calls the pool through     *)
(* `&mut', and the Python binding runs each method to its end under the    *)
(* interpreter lock.  A caller may use any handle it ever got, whether or  *)
(* not it freed it before.  `held', `released' and `overfreed' are not in  *)
(* the code: they record who is owed which reference, which handles some   *)
(* caller kept a copy of after freeing them, and how often a reference was *)
(* dropped by a caller that owned none.                                    *)
(***************************************************************************)
EXTENDS Naturals, Sequences, FiniteSets

CONSTANTS num_gpu_blocks,   \* capacity of the pool
          Holder,           \* callers that keep handles (sequences, Python objects)
          MaxGeneration     \* bound: a block is not handed out at this generation

ASSUME PoolAssumption ==
  /\ num_gpu_blocks \in Nat
  /\ IsFiniteSet(Holder)
  /\ MaxGeneration \in Nat \ {0}

Block == 0 .. num_gpu_blocks - 1
Handle == [block_id : Block, generation : 1 .. MaxGeneration]

\* A handle of a larger pool: its block_id is out of range.
Foreign == [block_id |-> num_gpu_blocks, generation |-> 1]

Reply == {"none", "ok", "OutOfBlocks", "StaleHandle", "BlockNotAllocated"}

VARIABLES free_list,    \* stack of free block ids, top at the end
          refcount,     \* references per block
          generation,   \* version per block, starts at 1
          held,         \* held[c]: handles whose reference c owns
          released,     \* handles freed by a holder that kept its copy
          overfreed,    \* overfreed[h]: frees of h accepted from nobody's reference
          reply         \* result of the last call

vars == <<free_list, refcount, generation, held, released, overfreed, reply>>

FreeBlocks == {free_list[i] : i \in 1 .. Len(free_list)}

\* The handle of a block's present lifetime.
HandleOf(b) == [block_id |-> b, generation |-> generation[b]]

\* check: bounds first, then the generation.
Check(h) ==
  IF h.block_id >= num_gpu_blocks THEN "BlockNotAllocated"
  ELSE IF h.generation # generation[h.block_id] THEN "StaleHandle"
  ELSE "ok"

\* The handles a caller can present.
Known == {Foreign} \cup released \cup UNION {held[c] : c \in Holder}

Init ==
  /\ free_list = [i \in 1 .. num_gpu_blocks |-> num_gpu_blocks - i]
  /\ refcount = [b \in Block |-> 0]
  /\ generation = [b \in Block |-> 1]
  /\ held = [c \in Holder |-> {}]
  /\ released = {}
  /\ overfreed = [h \in Handle |-> 0]
  /\ reply = "none"

-----------------------------------------------------------------------------
\* try_allocate: pop the most recently freed block.
Allocate(c) ==
  /\ free_list # <<>>
  /\ LET b == free_list[Len(free_list)]
     IN  /\ generation[b] < MaxGeneration
         /\ free_list' = SubSeq(free_list, 1, Len(free_list) - 1)
         /\ refcount' = [refcount EXCEPT ![b] = 1]
         /\ held' = [held EXCEPT ![c] = @ \cup {HandleOf(b)}]
  /\ reply' = "ok"
  /\ UNCHANGED <<generation, released, overfreed>>

OutOfBlocks ==
  /\ free_list = <<>>
  /\ reply' = "OutOfBlocks"
  /\ UNCHANGED <<free_list, refcount, generation, held, released, overfreed>>

\* (mutants: the generation is not retired; the block is pushed at every
\* reference dropped)
DropReference_NoRetire(b) ==
  /\ refcount' = [refcount EXCEPT ![b] = @ - 1]
  /\ IF refcount[b] = 1 THEN free_list' = Append(free_list, b) ELSE UNCHANGED free_list
  /\ UNCHANGED generation
DropReference_Pushes(b) ==
  /\ refcount' = [refcount EXCEPT ![b] = @ - 1]
  /\ generation' = IF refcount[b] = 1 THEN [generation EXCEPT ![b] = @ + 1] ELSE generation
  /\ free_list' = Append(free_list, b)

\* try_free once check(h) passed: the last reference retires the generation
\* and pushes the block back.
DropReference(b) ==
  /\ refcount' = [refcount EXCEPT ![b] = @ - 1]
  /\ IF refcount[b] = 1
     THEN /\ generation' = [generation EXCEPT ![b] = @ + 1]
          /\ free_list' = Append(free_list, b)
     ELSE UNCHANGED <<generation, free_list>>

TryFree(h) ==
  /\ reply' = Check(h)
  /\ IF Check(h) = "ok"
     THEN DropReference(h.block_id)
     ELSE UNCHANGED <<free_list, refcount, generation>>

\* free by a caller that owns a reference.
Free(c, h) ==
  /\ h \in held[c]
  /\ TryFree(h)
  /\ held' = [held EXCEPT ![c] = @ \ {h}]
  /\ released' = released \cup {h}
  /\ UNCHANGED overfreed

\* free by a caller that owns none: it freed this handle before, or got it from
\* another pool.  While anybody holds the block this is accepted.
FreeAgain(h) ==
  /\ h \in released \cup {Foreign}
  /\ TryFree(h)
  /\ overfreed' = IF Check(h) = "ok" THEN [overfreed EXCEPT ![h] = @ + 1] ELSE overfreed
  /\ UNCHANGED <<held, released>>

\* reference, with whatever copy of the handle: when it is accepted, d owns a
\* reference from here on.
Reference(d, h) ==
  /\ h \in Known /\ h \notin held[d]
  /\ reply' = Check(h)
  /\ IF Check(h) = "ok"
     THEN /\ refcount' = [refcount EXCEPT ![h.block_id] = @ + 1]
          /\ held' = [held EXCEPT ![d] = @ \cup {h}]
     ELSE UNCHANGED <<refcount, held>>
  /\ UNCHANGED <<free_list, generation, released, overfreed>>

Next ==
  \/ \E c \in Holder : Allocate(c)
  \/ OutOfBlocks
  \/ \E c \in Holder : \E h \in held[c] : Free(c, h)
  \/ \E h \in Known : FreeAgain(h)
  \/ \E d \in Holder : \E h \in Known : Reference(d, h)

Spec == Init /\ [][Next]_vars

-----------------------------------------------------------------------------
\* Type invariant.
TypeOK ==
  /\ free_list \in Seq(Block)
  /\ refcount \in [Block -> Nat]
  /\ generation \in [Block -> 1 .. MaxGeneration]
  /\ held \in [Holder -> SUBSET Handle]
  /\ released \in SUBSET Handle
  /\ overfreed \in [Handle -> Nat]
  /\ reply \in Reply

\* No block is handed out twice or lost, also after frees of references nobody
\* owned: the free list has no duplicates and holds exactly the blocks with no
\* reference (try_allocate, try_free).
FreeListExact ==
  /\ \A i, j \in 1 .. Len(free_list) : free_list[i] = free_list[j] => i = j
  /\ \A b \in Block : b \in FreeBlocks <=> refcount[b] = 0

\* A caller that owns a reference is told its handle is stale only if somebody
\* freed that very handle once too often: a double free robs the sharers of one
\* lifetime of one block.  (The scheduler's `expect("owned handle")' rests on
\* this: it never shares a block and frees each handle once.)
HeldHandlesCurrent ==
  \A c \in Holder : \A h \in held[c] :
    \/ h.generation = generation[h.block_id]
    \/ h.generation < generation[h.block_id] /\ overfreed[h] > 0

\* Owners of a reference to the block in its present lifetime.
Holders(b) == {c \in Holder : HandleOf(b) \in held[c]}

\* The counter counts the owners, less the references dropped by callers that
\* owned none, and a block with no reference is nobody's.
RefcountCountsHolders ==
  \A b \in Block :
    /\ refcount[b] + overfreed[HandleOf(b)] = Cardinality(Holders(b))
    /\ refcount[b] = 0 => Holders(b) = {}

\* A freed handle passes check() only as long as somebody else still owns a
\* reference to the same lifetime of its block; once the block was recycled it
\* never does, whoever holds the block then.
RecycledHandlesStale ==
  \A h \in released :
    \/ h.generation < generation[h.block_id]
    \/ h.generation = generation[h.block_id] /\ \E c \in Holder : h \in held[c]

\* Whatever is allocated, shared, freed, and freed or referenced again, with
\* handles of this pool or another: no block is handed out twice or leaked, the
\* counters count, recycled handles are dead, and a double free, which the code
\* accepts while the block is shared, harms nobody but its sharers.
HandlesSafe ==
  /\ TypeOK
  /\ FreeListExact
  /\ HeldHandlesCurrent
  /\ RefcountCountsHolders
  /\ RecycledHandlesStale

\* The pool refines the abstract pool, whose owners are those with a valid
\* handle: a block is granted only when nobody has one, and is free again when
\* the last of them lost it, by its own free or by another's double free.
Pool == INSTANCE BlockPool WITH
          Owner <- Holder,
          free  <- FreeBlocks,
          owned <- [c \in Holder |-> {b \in Block : c \in Holders(b)}]

ImplementsPool == Pool!PoolSpec
=============================================================================
