------------------------- MODULE BlockManagerProofs -------------------------
(***************************************************************************)
(* For every pool size, every finite set of holders and every bound on the *)
(* generations, with every use of handles freed before: the pool never     *)
(* hands a block out twice, loses none, calls the handle of somebody who   *)
(* owns a reference stale only after a double free of that very handle,    *)
(* and implements BlockPool.tla.                                           *)
(***************************************************************************)
EXTENDS BlockManager, FiniteSetTheorems, SequenceTheorems, TLAPS

\* A block that is in use can be retired, and nobody was robbed of a lifetime
\* that has not begun.
LifetimesAhead ==
  /\ \A b \in Block : refcount[b] # 0 => generation[b] < MaxGeneration
  /\ \A h \in Handle : generation[h.block_id] < h.generation => overfreed[h] = 0

\* The inductive invariant: the parts of HandlesSafe, and that a retired block's
\* next lifetime starts clean.
PoolInv ==
  /\ TypeOK
  /\ FreeListExact
  /\ HeldHandlesCurrent
  /\ RefcountCountsHolders
  /\ RecycledHandlesStale
  /\ LifetimesAhead

\* The holders of a block form a finite set, empty exactly when the count is 0.
LEMMA HoldersFinite ==
  ASSUME NEW b
  PROVE  /\ IsFiniteSet(Holders(b))
         /\ Cardinality(Holders(b)) \in Nat
         /\ Cardinality(Holders(b)) = 0 <=> Holders(b) = {}
<1>1. Holders(b) \subseteq Holder
  BY DEF Holders
<1>2. IsFiniteSet(Holders(b))
  BY <1>1, PoolAssumption, FS_Subset
<1> QED
  BY <1>2, FS_CardinalityType, FS_EmptySet

\* The handle of a block's present lifetime, and the only one check() accepts.
LEMMA HandleOfBlock ==
  ASSUME TypeOK
  PROVE  /\ \A b \in Block : /\ HandleOf(b) \in Handle
                              /\ HandleOf(b).block_id = b
                              /\ HandleOf(b).generation = generation[b]
                              /\ Check(HandleOf(b)) = "ok"
         /\ \A h \in Handle :
              /\ h.block_id \in Block
              /\ h.generation \in 1 .. MaxGeneration
              /\ (h.generation = generation[h.block_id]) <=> (Check(h) = "ok")
              /\ (h.generation = generation[h.block_id]) <=> (h = HandleOf(h.block_id))
              /\ Check(h) \in {"ok", "StaleHandle"}
<1>1. \A b \in Block : b \in Nat /\ b < num_gpu_blocks /\ generation[b] \in 1 .. MaxGeneration
  BY PoolAssumption DEF Block, TypeOK
<1>2. ASSUME NEW b \in Block
      PROVE  /\ HandleOf(b) \in Handle /\ HandleOf(b).block_id = b
             /\ HandleOf(b).generation = generation[b]
  BY <1>1 DEF HandleOf, Handle
<1>3. ASSUME NEW h \in Handle
      PROVE  /\ h.block_id \in Block /\ h.generation \in 1 .. MaxGeneration
             /\ (h.generation = generation[h.block_id]) <=> (h = HandleOf(h.block_id))
  BY DEF HandleOf, Handle
<1>4. ASSUME NEW h, h.block_id \in Block
      PROVE  Check(h) = IF h.generation # generation[h.block_id] THEN "StaleHandle" ELSE "ok"
  <2>1. ~(h.block_id >= num_gpu_blocks)
    BY <1>1, <1>4, PoolAssumption
  <2> QED
    BY <2>1 DEF Check
<1>5. \A b \in Block : Check(HandleOf(b)) = "ok"
  BY <1>2, <1>4
<1>6. ASSUME NEW h \in Handle
      PROVE  /\ (h.generation = generation[h.block_id]) <=> (Check(h) = "ok")
             /\ Check(h) \in {"ok", "StaleHandle"}
  BY <1>3, <1>4
<1> QED
  BY <1>2, <1>3, <1>5, <1>6

\* What a pop takes off the free list: the stack shrinks by its top only.
LEMMA PopFreeList ==
  ASSUME TypeOK, FreeListExact, free_list # <<>>
  PROVE  LET n == Len(free_list)
             rest == SubSeq(free_list, 1, n - 1)
         IN  /\ n \in Nat \ {0} /\ free_list[n] \in Block
             /\ rest \in Seq(Block) /\ Len(rest) = n - 1
             /\ \A i \in 1 .. n - 1 : rest[i] = free_list[i]
             /\ {rest[i] : i \in 1 .. n - 1} = FreeBlocks \ {free_list[n]}
             /\ free_list[n] \in FreeBlocks
<1> DEFINE n == Len(free_list)
           rest == SubSeq(free_list, 1, n - 1)
<1>1. n \in Nat \ {0} /\ \A i \in 1 .. n : free_list[i] \in Block
  BY EmptySeq, LenProperties, ElementOfSeq DEF TypeOK
<1>2. \A i \in 1 .. n - 1 : free_list[i] \in Block
  BY <1>1
<1>3. /\ rest \in Seq(Block) /\ Len(rest) = n - 1
      /\ \A i \in 1 .. n - 1 : rest[i] = free_list[i]
  <2>1. n - 1 \in Int /\ 1 \in Int
    BY <1>1
  <2>2. /\ rest \in Seq(Block)
        /\ Len(rest) = IF 1 <= n - 1 THEN (n - 1) - 1 + 1 ELSE 0
        /\ \A i \in 1 .. (n - 1) - 1 + 1 : rest[i] = free_list[1 + i - 1]
    BY <1>2, <2>1, SubSeqProperties
  <2>3. n - 1 \in Nat /\ \A i \in 1 .. n - 1 : 1 + i - 1 = i
    BY <1>1
  <2>4. (n - 1) - 1 + 1 = n - 1 /\ (~(1 <= n - 1) => n - 1 = 0)
    BY <1>1
  <2>5. Len(rest) = n - 1
    BY <2>2, <2>4
  <2> QED
    BY <2>2, <2>3, <2>4, <2>5
<1>4. {rest[i] : i \in 1 .. n - 1} = FreeBlocks \ {free_list[n]}
  BY <1>1, <1>3 DEF FreeListExact, FreeBlocks
<1>5. free_list[n] \in FreeBlocks
  BY <1>1 DEF FreeBlocks
<1> QED
  BY <1>1, <1>3, <1>4, <1>5

\* What a push adds to the free list.
LEMMA PushFreeList ==
  ASSUME TypeOK, NEW b \in Block
  PROVE  LET n == Len(free_list)
             more == Append(free_list, b)
         IN  /\ n \in Nat
             /\ more \in Seq(Block) /\ Len(more) = n + 1
             /\ \A i \in 1 .. n : more[i] = free_list[i]
             /\ more[n + 1] = b
             /\ {more[i] : i \in 1 .. n + 1} = FreeBlocks \cup {b}
<1> DEFINE n == Len(free_list)
           more == Append(free_list, b)
<1>1. /\ n \in Nat
      /\ more \in Seq(Block) /\ Len(more) = n + 1
      /\ \A i \in 1 .. n : more[i] = free_list[i]
      /\ more[n + 1] = b
  BY DEF TypeOK
<1>2. {more[i] : i \in 1 .. n + 1} = FreeBlocks \cup {b}
  BY <1>1 DEF FreeBlocks
<1> QED
  BY <1>1, <1>2

-----------------------------------------------------------------------------
\* A new pool: every block is free, once, and nobody holds one.
LEMMA InitPoolInv == Init => PoolInv
<1> SUFFICES ASSUME Init PROVE PoolInv
  OBVIOUS
<1> USE DEF Init
<1>1. free_list \in Seq(Block) /\ Len(free_list) = num_gpu_blocks
  <2>1. free_list \in [1 .. num_gpu_blocks -> Block]
    BY PoolAssumption DEF Block
  <2> QED
    BY <2>1, PoolAssumption, SeqDef, LenProperties
<1>2. TypeOK
  BY <1>1, PoolAssumption DEF TypeOK, Reply
<1>3. FreeListExact
  <2>1. \A b \in Block : b \in FreeBlocks
    <3> SUFFICES ASSUME NEW b \in Block PROVE b \in FreeBlocks
      OBVIOUS
    <3>1. num_gpu_blocks - b \in 1 .. num_gpu_blocks
          /\ free_list[num_gpu_blocks - b] = b
      BY PoolAssumption DEF Block
    <3> QED
      BY <1>1, <3>1 DEF FreeBlocks
  <2> QED
    BY <1>1, <2>1, PoolAssumption DEF FreeListExact
<1>4. HeldHandlesCurrent /\ RecycledHandlesStale
  BY DEF HeldHandlesCurrent, RecycledHandlesStale
<1>5. RefcountCountsHolders
  <2>1. \A b \in Block : HandleOf(b) \in Handle
    BY <1>2, HandleOfBlock
  <2>2. \A b \in Block : Holders(b) = {}
    BY DEF Holders
  <2> QED
    BY <2>1, <2>2, FS_EmptySet DEF RefcountCountsHolders
<1>6. LifetimesAhead
  BY DEF LifetimesAhead
<1> QED
  BY <1>2, <1>3, <1>4, <1>5, <1>6 DEF PoolInv

\* A pop takes a block nobody holds and makes its taker the only holder.
LEMMA AllocatePoolInv ==
  ASSUME PoolInv, NEW c \in Holder, Allocate(c)
  PROVE  PoolInv'
<1> USE DEF PoolInv
<1>a. PICK n \in Nat \ {0}, b \in Block, h \in Handle :
           /\ n = Len(free_list) /\ b = free_list[n]
           /\ h = HandleOf(b)
  BY PopFreeList, HandleOfBlock DEF Allocate
<1>1. /\ n \in Nat \ {0} /\ b \in Block /\ b \in FreeBlocks
      /\ free_list' \in Seq(Block) /\ Len(free_list') = n - 1
      /\ \A i \in 1 .. n - 1 : free_list'[i] = free_list[i]
      /\ FreeBlocks' = FreeBlocks \ {b}
  BY <1>a, PopFreeList DEF Allocate, FreeBlocks
<1>2. /\ refcount' = [refcount EXCEPT ![b] = 1]
      /\ held' = [held EXCEPT ![c] = @ \cup {h}]
      /\ reply' = "ok" /\ generation[b] < MaxGeneration
      /\ UNCHANGED <<generation, released, overfreed>>
  BY <1>a DEF Allocate
<1>3. h.block_id = b /\ h.generation = generation[b]
  BY <1>a, HandleOfBlock
<1>b. \A x : HandleOf(x)' = HandleOf(x)
  BY <1>2 DEF HandleOf
<1>4. TypeOK'
  BY <1>1, <1>2, <1>3 DEF TypeOK, Reply
<1>5. FreeListExact'
  <2>1. \A i, j \in 1 .. Len(free_list') : free_list'[i] = free_list'[j] => i = j
    <3> SUFFICES ASSUME NEW i \in 1 .. n - 1, NEW j \in 1 .. n - 1,
                        free_list'[i] = free_list'[j]
                 PROVE  i = j
      BY <1>1
    <3>1. i \in 1 .. n /\ j \in 1 .. n /\ free_list[i] = free_list[j]
      BY <1>1
    <3> QED
      BY <1>a, <3>1 DEF FreeListExact
  <2>2. \A x \in Block : x \in FreeBlocks' <=> refcount'[x] = 0
    BY <1>1, <1>2 DEF FreeListExact, TypeOK
  <2> QED
    BY <2>1, <2>2 DEF FreeListExact
<1>6. HeldHandlesCurrent'
  BY <1>1, <1>2, <1>3 DEF HeldHandlesCurrent, TypeOK
<1>7. RecycledHandlesStale'
  BY <1>2, <1>3 DEF RecycledHandlesStale, TypeOK
<1>8. RefcountCountsHolders'
  <2>1. refcount[b] = 0 /\ Holders(b) = {} /\ overfreed[h] = 0
    <3>1. refcount[b] = 0
      BY <1>1 DEF FreeListExact
    <3>2. Holders(b) = {} /\ refcount[b] + overfreed[h] = Cardinality(Holders(b))
      BY <1>a, <3>1 DEF RefcountCountsHolders
    <3>3. Cardinality(Holders(b)) = 0 /\ overfreed[h] \in Nat
      BY <3>2, HoldersFinite DEF TypeOK
    <3> QED
      BY <3>1, <3>2, <3>3
  <2>2. Holders(b)' = {c}
    BY <1>a, <1>b, <1>2, <2>1 DEF Holders, TypeOK
  <2>3. \A x \in Block : x # b => Holders(x)' = Holders(x)
    BY <1>a, <1>b, <1>2, <1>3, HandleOfBlock DEF Holders, TypeOK
  <2>4. Cardinality(Holders(b)') = 1
    BY <2>2, FS_Singleton
  <2>5. \A x \in Block : refcount'[x] = IF x = b THEN 1 ELSE refcount[x]
    BY <1>1, <1>2 DEF TypeOK
  <2>6. ASSUME NEW x \in Block
        PROVE  /\ refcount'[x] + overfreed'[HandleOf(x)'] = Cardinality(Holders(x)')
               /\ refcount'[x] = 0 => Holders(x)' = {}
    <3>1. overfreed'[HandleOf(x)'] = overfreed[HandleOf(x)]
      BY <1>b, <1>2
    <3>2. CASE x = b
      BY <1>a, <2>1, <2>4, <2>5, <3>1, <3>2
    <3>3. CASE x # b
      BY <2>3, <2>5, <3>1, <3>3 DEF RefcountCountsHolders
    <3> QED
      BY <3>2, <3>3
  <2> QED
    BY <2>6 DEF RefcountCountsHolders
<1>9. LifetimesAhead'
  BY <1>1, <1>2 DEF LifetimesAhead, TypeOK
<1> QED
  BY <1>4, <1>5, <1>6, <1>7, <1>8, <1>9

\* One reference fewer, whoever asked for it: what matters is that the counter,
\* the owners left and the references taken from others still add up.
LEMMA DropPoolInv ==
  ASSUME PoolInv, NEW b \in Block, NEW h, h = HandleOf(b), refcount[b] # 0,
         DropReference(b), reply' \in Reply,
         held' \in [Holder -> SUBSET Handle],
         \A d \in Holder : held'[d] \subseteq held[d],
         \A d \in Holder : \A k \in held[d] : k = h \/ k \in held'[d],
         released' \subseteq released \cup {h},
         overfreed' \in [Handle -> Nat],
         \A k \in Handle : k = h \/ overfreed'[k] = overfreed[k],
         refcount[b] - 1 + overfreed'[h] = Cardinality({d \in Holder : h \in held'[d]})
  PROVE  /\ PoolInv'
         /\ Holders(b)' = {} <=> refcount[b] = 1
         /\ FreeBlocks' = IF refcount[b] = 1 THEN FreeBlocks \cup {b} ELSE FreeBlocks
         /\ \A x \in Block : x # b => Holders(x)' = Holders(x)
<1> USE DEF PoolInv
<1> DEFINE g == generation[b]
           owners == {d \in Holder : h \in held'[d]}
<1>1. /\ h \in Handle /\ h.block_id = b /\ h.generation = g /\ g \in 1 .. MaxGeneration
      /\ refcount[b] \in Nat \ {0} /\ g < MaxGeneration
  BY HandleOfBlock DEF LifetimesAhead, TypeOK
<1>2. /\ refcount' = [refcount EXCEPT ![b] = @ - 1]
      /\ refcount'[b] = refcount[b] - 1 /\ refcount'[b] \in Nat
      /\ \A x \in Block : x # b => refcount'[x] = refcount[x]
  BY <1>1 DEF DropReference, TypeOK
<1>3. \A x \in Block : x # b => generation'[x] = generation[x]
  BY DEF DropReference, TypeOK
<1>4. /\ IsFiniteSet(owners) /\ Cardinality(owners) \in Nat
      /\ Cardinality(owners) = 0 <=> owners = {}
  <2>1. owners \subseteq Holder
    OBVIOUS
  <2>2. IsFiniteSet(owners)
    BY <2>1, PoolAssumption, FS_Subset
  <2> QED
    BY <2>2, FS_CardinalityType, FS_EmptySet
<1>5. \A x \in Block : x # b => HandleOf(x)' = HandleOf(x) /\ HandleOf(x) # h
  BY <1>1, <1>3, HandleOfBlock DEF HandleOf
<1>6. \A x \in Block : x # b => Holders(x)' = Holders(x)
  BY <1>5 DEF Holders
<1>7. \A d \in Holder : \A k \in held'[d] :
        /\ k \in held[d] /\ k \in Handle
        /\ k.block_id = b => \/ k = h
                             \/ k.generation < g /\ overfreed'[k] > 0
  <2> SUFFICES ASSUME NEW d \in Holder, NEW k \in held'[d]
               PROVE  /\ k \in held[d] /\ k \in Handle
                      /\ k.block_id = b => \/ k = h
                                           \/ k.generation < g /\ overfreed'[k] > 0
    OBVIOUS
  <2>1. k \in held[d] /\ k \in Handle
    BY DEF TypeOK
  <2>2. \/ k.generation = generation[k.block_id]
        \/ k.generation < generation[k.block_id] /\ overfreed[k] > 0
    BY <2>1 DEF HeldHandlesCurrent
  <2>3. k.generation = generation[k.block_id] => k = HandleOf(k.block_id)
    BY <2>1, HandleOfBlock
  <2> QED
    BY <2>1, <2>2, <2>3
<1>8. \A d \in Holder : \A k \in held'[d] : k.block_id # b =>
        \/ k.generation = generation'[k.block_id]
        \/ k.generation < generation'[k.block_id] /\ overfreed'[k] > 0
  <2> SUFFICES ASSUME NEW d \in Holder, NEW k \in held'[d], k.block_id # b
               PROVE  \/ k.generation = generation'[k.block_id]
                      \/ k.generation < generation'[k.block_id] /\ overfreed'[k] > 0
    OBVIOUS
  <2>1. k \in held[d] /\ k \in Handle /\ k.block_id \in Block
    BY <1>7, HandleOfBlock
  <2>2. k # h
    BY <1>1
  <2>3. overfreed'[k] = overfreed[k] /\ generation'[k.block_id] = generation[k.block_id]
    BY <1>3, <2>1, <2>2
  <2> QED
    BY <2>1, <2>3 DEF HeldHandlesCurrent
<1>9. released' \in SUBSET Handle
  BY <1>1 DEF TypeOK
<1>10. \A x \in Block : x # b =>
          /\ refcount'[x] + overfreed'[HandleOf(x)'] = Cardinality(Holders(x)')
          /\ refcount'[x] = 0 => Holders(x)' = {}
  <2> SUFFICES ASSUME NEW x \in Block, x # b
               PROVE  /\ refcount'[x] + overfreed'[HandleOf(x)'] = Cardinality(Holders(x)')
                      /\ refcount'[x] = 0 => Holders(x)' = {}
    OBVIOUS
  <2>1. HandleOf(x) \in Handle /\ HandleOf(x)' = HandleOf(x) /\ HandleOf(x) # h
    BY <1>5, HandleOfBlock
  <2>2. overfreed'[HandleOf(x)'] = overfreed[HandleOf(x)]
    BY <2>1
  <2>3. Holders(x)' = Holders(x) /\ refcount'[x] = refcount[x]
    BY <1>2, <1>6
  <2> QED
    BY <2>2, <2>3 DEF RefcountCountsHolders
<1>11. ASSUME NEW k \in released', k.block_id # b
       PROVE  \/ k.generation < generation'[k.block_id]
              \/ k.generation = generation'[k.block_id] /\ \E d \in Holder : k \in held'[d]
  <2>1. k # h /\ k \in released /\ k.block_id \in Block
    BY <1>1, <1>9, <1>11, HandleOfBlock
  <2>2. generation'[k.block_id] = generation[k.block_id]
    BY <1>3, <1>11, <2>1
  <2>3. \A d \in Holder : k \in held[d] => k \in held'[d]
    BY <2>1
  <2> QED
    BY <2>1, <2>2, <2>3 DEF RecycledHandlesStale
<1>12. ASSUME NEW k \in released', k.block_id = b
       PROVE  k.generation \in Nat /\ (k.generation < g \/ k = h)
  <2>1. k \in Handle /\ (k = h \/ k \in released)
    BY <1>9
  <2>2. k \in released => k.generation < generation[b] \/ k.generation = generation[b]
    BY <1>12 DEF RecycledHandlesStale
  <2>3. k.generation = generation[b] => k = h
    BY <1>12, <2>1, HandleOfBlock
  <2>4. k.generation \in Nat
    BY <2>1, HandleOfBlock
  <2> QED
    BY <2>1, <2>2, <2>3, <2>4
<1>13. CASE refcount[b] = 1
  <2>1. /\ generation' = [generation EXCEPT ![b] = g + 1]
        /\ free_list' = Append(free_list, b)
    BY <1>13 DEF DropReference
  <2>2. /\ free_list' \in Seq(Block) /\ Len(free_list') = Len(free_list) + 1
        /\ Len(free_list) \in Nat
        /\ \A i \in 1 .. Len(free_list) : free_list'[i] = free_list[i]
        /\ free_list'[Len(free_list) + 1] = b
        /\ FreeBlocks' = FreeBlocks \cup {b}
    BY <2>1, PushFreeList DEF FreeBlocks
  <2>3. generation'[b] = g + 1 /\ generation' \in [Block -> 1 .. MaxGeneration]
    <3>1. g + 1 \in 1 .. MaxGeneration /\ generation \in [Block -> 1 .. MaxGeneration]
      BY <1>1, PoolAssumption DEF TypeOK
    <3> HIDE DEF g
    <3> QED
      BY <2>1, <3>1
  <2>4. TypeOK'
    BY <1>2, <1>9, <2>2, <2>3 DEF TypeOK
  <2>5. FreeListExact'
    <3>1. b \notin FreeBlocks
      BY <1>13 DEF FreeListExact
    <3>2. ASSUME NEW i \in 1 .. Len(free_list'), NEW j \in 1 .. Len(free_list'),
                 free_list'[i] = free_list'[j]
          PROVE  i = j
      <4>1. ASSUME NEW k \in 1 .. Len(free_list) PROVE free_list'[k] # b
        BY <2>2, <3>1, <4>1 DEF FreeBlocks
      <4>2. /\ i \in 1 .. Len(free_list) \/ i = Len(free_list) + 1
            /\ j \in 1 .. Len(free_list) \/ j = Len(free_list) + 1
        BY <2>2
      <4>3. CASE i \in 1 .. Len(free_list) /\ j \in 1 .. Len(free_list)
        <5>1. free_list[i] = free_list[j]
          BY <2>2, <3>2, <4>3
        <5> QED
          BY <4>3, <5>1 DEF FreeListExact
      <4> QED
        BY <2>2, <3>2, <4>1, <4>2, <4>3
    <3>3. \A x \in Block : x \in FreeBlocks' <=> refcount'[x] = 0
      BY <1>2, <1>13, <2>2 DEF FreeListExact
    <3> QED
      BY <3>2, <3>3 DEF FreeListExact
  <2>6. HeldHandlesCurrent'
    <3>1. ASSUME NEW d \in Holder, NEW k \in held'[d], k.block_id = b
          PROVE  k.generation < generation'[b] /\ overfreed'[k] > 0
      <4>1. CASE k = h
        <5>1. owners # {}
          BY <4>1
        <5>2. overfreed'[h] = Cardinality(owners) /\ overfreed'[h] # 0
          <6>1. overfreed'[h] \in Nat /\ refcount[b] - 1 = 0
            BY <1>1, <1>13
          <6>2. 0 + overfreed'[h] = Cardinality(owners)
            BY <6>1
          <6>3. Cardinality(owners) # 0
            BY <1>4, <5>1
          <6> HIDE DEF owners
          <6> QED
            BY <6>1, <6>2, <6>3
        <5> QED
          BY <1>1, <2>3, <4>1, <5>2
      <4>2. CASE k.generation < g /\ overfreed'[k] > 0
        <5>1. k.generation \in 1 .. MaxGeneration
          BY <1>7, HandleOfBlock
        <5> QED
          BY <1>1, <2>3, <4>2, <5>1
      <4> QED
        BY <1>7, <3>1, <4>1, <4>2
    <3> QED
      BY <1>8, <3>1 DEF HeldHandlesCurrent
  <2>7. Holders(b)' = {}
    <3> SUFFICES ASSUME NEW d \in Holders(b)' PROVE FALSE
      OBVIOUS
    <3>1. d \in Holder /\ HandleOf(b)' \in held'[d]
      BY DEF Holders
    <3>2. PICK k \in held'[d] : k = HandleOf(b)' /\ k.block_id = b /\ k.generation = g + 1
      BY <2>3, <3>1 DEF HandleOf
    <3>3. k.generation = g \/ k.generation < g
      BY <1>1, <1>7, <3>1, <3>2
    <3> QED
      BY <1>1, <3>2, <3>3
  <2>8. RefcountCountsHolders'
    <3>1. /\ HandleOf(b)' \in Handle /\ HandleOf(b)'.block_id = b
          /\ HandleOf(b)'.generation = g + 1
      BY <1>1, <2>3 DEF HandleOf, Handle
    <3>2. HandleOf(b)' # h /\ overfreed[HandleOf(b)'] = 0
      BY <1>1, <3>1 DEF LifetimesAhead
    <3>3. overfreed'[HandleOf(b)'] = 0
      BY <3>1, <3>2
    <3>4. refcount'[b] = 0 /\ Cardinality(Holders(b)') = 0
      BY <1>2, <1>13, <2>7, FS_EmptySet
    <3>5. /\ refcount'[b] + overfreed'[HandleOf(b)'] = Cardinality(Holders(b)')
          /\ refcount'[b] = 0 => Holders(b)' = {}
      BY <2>7, <3>3, <3>4
    <3> QED
      BY <1>10, <3>5 DEF RefcountCountsHolders
  <2>9. RecycledHandlesStale'
    <3>1. ASSUME NEW k \in released', k.block_id = b PROVE k.generation < generation'[b]
      BY <1>1, <1>12, <2>3, <3>1
    <3> QED
      BY <1>11, <3>1 DEF RecycledHandlesStale
  <2>10. LifetimesAhead'
    <3>1. ASSUME NEW k \in Handle, generation'[k.block_id] < k.generation
          PROVE  overfreed'[k] = 0
      <4>1. k.block_id \in Block /\ k.generation \in 1 .. MaxGeneration
            /\ generation[k.block_id] \in 1 .. MaxGeneration
        BY HandleOfBlock DEF TypeOK
      <4>2. generation[k.block_id] < k.generation /\ k # h
        BY <1>1, <1>3, <2>3, <3>1, <4>1
      <4> QED
        BY <4>2 DEF LifetimesAhead
    <3>2. \A x \in Block : refcount'[x] # 0 => generation'[x] < MaxGeneration
      BY <1>2, <1>3, <1>13 DEF LifetimesAhead
    <3> QED
      BY <3>1, <3>2 DEF LifetimesAhead
  <2> QED
    BY <1>6, <1>13, <2>2, <2>4, <2>5, <2>6, <2>7, <2>8, <2>9, <2>10
<1>14. CASE refcount[b] # 1
  <2>1. UNCHANGED <<generation, free_list>>
    BY <1>14 DEF DropReference
  <2>2. TypeOK'
    BY <1>2, <1>9, <2>1 DEF TypeOK
  <2>3. FreeListExact' /\ FreeBlocks' = FreeBlocks
    BY <1>1, <1>2, <1>14, <2>1 DEF FreeListExact, FreeBlocks
  <2>4. HeldHandlesCurrent'
    BY <1>1, <1>7, <1>8, <2>1 DEF HeldHandlesCurrent
  <2>5. HandleOf(b)' = h /\ Holders(b)' = owners
    <3>1. HandleOf(b)' = h
      BY <2>1 DEF HandleOf
    <3> QED
      BY <3>1 DEF Holders
  <2>6. refcount'[b] + overfreed'[h] = Cardinality(owners) /\ refcount'[b] # 0
    BY <1>1, <1>2, <1>14
  <2>7. owners # {}
    BY <1>1, <1>2, <1>4, <2>6
  <2>8. RefcountCountsHolders'
    <3>1. /\ refcount'[b] + overfreed'[HandleOf(b)'] = Cardinality(Holders(b)')
          /\ refcount'[b] = 0 => Holders(b)' = {}
      BY <2>5, <2>6
    <3> QED
      BY <1>10, <3>1 DEF RefcountCountsHolders
  <2>9. RecycledHandlesStale'
    <3>1. ASSUME NEW k \in released', k.block_id = b
          PROVE  \/ k.generation < generation'[b]
                 \/ k.generation = generation'[b] /\ \E d \in Holder : k \in held'[d]
      BY <1>1, <1>12, <2>1, <2>7, <3>1
    <3> QED
      BY <1>11, <3>1 DEF RecycledHandlesStale
  <2>10. LifetimesAhead'
    <3>1. ASSUME NEW k \in Handle, generation'[k.block_id] < k.generation
          PROVE  overfreed'[k] = 0
      <4>1. k # h /\ generation[k.block_id] < k.generation
        BY <1>1, <2>1, <3>1
      <4> QED
        BY <4>1 DEF LifetimesAhead
    <3>2. \A x \in Block : refcount'[x] # 0 => generation'[x] < MaxGeneration
      BY <1>1, <1>2, <2>1 DEF LifetimesAhead
    <3> QED
      BY <3>1, <3>2 DEF LifetimesAhead
  <2> QED
    BY <1>6, <1>14, <2>2, <2>3, <2>4, <2>5, <2>7, <2>8, <2>9, <2>10
<1> QED
  BY <1>13, <1>14

\* A reference dropped by one who owns it.
LEMMA FreeDrops ==
  ASSUME PoolInv, NEW c \in Holder, NEW h \in held[c], Free(c, h), Check(h) = "ok",
         NEW b \in Block, h = HandleOf(b)
  PROVE  /\ PoolInv'
         /\ Holders(b)' = {} <=> refcount[b] = 1
         /\ FreeBlocks' = IF refcount[b] = 1 THEN FreeBlocks \cup {b} ELSE FreeBlocks
         /\ \A x \in Block : x # b => Holders(x)' = Holders(x)
         /\ Holders(b) # {}
         /\ \A d \in Holder : held'[d] \subseteq held[d]
<1> USE DEF PoolInv
<1>1. h \in Handle /\ h.block_id = b
  BY HandleOfBlock
<1>2. /\ held' = [held EXCEPT ![c] = @ \ {h}] /\ released' = released \cup {h}
      /\ overfreed' = overfreed /\ reply' = "ok" /\ DropReference(b)
  BY <1>1 DEF Free, TryFree
<1>3. /\ refcount[b] + overfreed[h] = Cardinality(Holders(b)) /\ c \in Holders(b)
      /\ IsFiniteSet(Holders(b)) /\ refcount[b] # 0
      /\ refcount[b] \in Nat /\ overfreed[h] \in Nat
  BY <1>1, HoldersFinite DEF RefcountCountsHolders, Holders, TypeOK
<1>4. /\ held' \in [Holder -> SUBSET Handle]
      /\ \A d \in Holder : held'[d] \subseteq held[d]
      /\ \A d \in Holder : \A k \in held[d] : k = h \/ k \in held'[d]
  BY <1>2 DEF TypeOK
<1>5. {d \in Holder : h \in held'[d]} = Holders(b) \ {c}
  BY <1>2 DEF Holders, TypeOK
<1>6. Cardinality(Holders(b) \ {c}) = Cardinality(Holders(b)) - 1
  BY <1>3, FS_RemoveElement
<1>7. refcount[b] - 1 + overfreed'[h] = Cardinality({d \in Holder : h \in held'[d]})
  <2>1. overfreed'[h] = overfreed[h]
    BY <1>2
  <2>2. refcount[b] - 1 + overfreed[h] = Cardinality(Holders(b)) - 1
    BY <1>3
  <2> QED
    BY <1>5, <1>6, <2>1, <2>2
<1>8. reply' \in Reply /\ overfreed' \in [Handle -> Nat]
      /\ \A k \in Handle : k = h \/ overfreed'[k] = overfreed[k]
  BY <1>2 DEF Reply, TypeOK
<1>9. released' \subseteq released \cup {h}
  BY <1>2
<1> QED
  BY <1>2, <1>3, <1>4, <1>7, <1>8, <1>9, DropPoolInv

\* A reference dropped by one who owns none: the loss is booked to the handle.
LEMMA FreeAgainDrops ==
  ASSUME PoolInv, NEW h \in Handle, FreeAgain(h), Check(h) = "ok",
         NEW b \in Block, h = HandleOf(b)
  PROVE  /\ PoolInv'
         /\ Holders(b)' = {} <=> refcount[b] = 1
         /\ FreeBlocks' = IF refcount[b] = 1 THEN FreeBlocks \cup {b} ELSE FreeBlocks
         /\ \A x \in Block : x # b => Holders(x)' = Holders(x)
         /\ Holders(b) # {}
         /\ held' = held
<1> USE DEF PoolInv
<1>1. h.block_id = b /\ h.generation = generation[b] /\ h # Foreign
  BY HandleOfBlock, PoolAssumption DEF Foreign, Block
<1>2. /\ held' = held /\ released' = released
      /\ overfreed' = [overfreed EXCEPT ![h] = @ + 1]
      /\ reply' = "ok" /\ DropReference(b) /\ h \in released
  BY <1>1 DEF FreeAgain, TryFree
<1>3. refcount[b] + overfreed[h] = Cardinality(Holders(b))
      /\ refcount[b] \in Nat /\ overfreed[h] \in Nat
  BY DEF RefcountCountsHolders, TypeOK
<1>4. Holders(b) # {}
  <2>1. h.generation \in Nat
    BY HandleOfBlock
  <2>2. \E d \in Holder : h \in held[d]
    BY <1>1, <1>2, <2>1 DEF RecycledHandlesStale
  <2> QED
    BY <2>2 DEF Holders
<1>5. refcount[b] # 0
  BY <1>4 DEF RefcountCountsHolders
<1>6. {d \in Holder : h \in held'[d]} = Holders(b)
  BY <1>2 DEF Holders
<1>7. /\ overfreed' \in [Handle -> Nat] /\ overfreed'[h] = overfreed[h] + 1
      /\ \A k \in Handle : k = h \/ overfreed'[k] = overfreed[k]
  BY <1>2, <1>3 DEF TypeOK
<1>8. refcount[b] - 1 + overfreed'[h] = Cardinality({d \in Holder : h \in held'[d]})
  <2>1. refcount[b] - 1 + (overfreed[h] + 1) = refcount[b] + overfreed[h]
    BY <1>3
  <2> QED
    BY <1>3, <1>6, <1>7, <2>1
<1>9. /\ reply' \in Reply /\ held' \in [Holder -> SUBSET Handle]
      /\ \A d \in Holder : held'[d] \subseteq held[d]
      /\ \A d \in Holder : \A k \in held[d] : k = h \/ k \in held'[d]
      /\ released' \subseteq released \cup {h}
  BY <1>2 DEF Reply, TypeOK
<1> QED
  BY <1>2, <1>4, <1>5, <1>7, <1>8, <1>9, DropPoolInv

\* A new reference adds an owner of the present lifetime and nothing else.
LEMMA ReferenceShares ==
  ASSUME PoolInv, NEW d \in Holder, NEW h \in Handle, Reference(d, h),
         Check(h) = "ok", NEW b \in Block, h = HandleOf(b)
  PROVE  /\ PoolInv'
         /\ FreeBlocks' = FreeBlocks
         /\ Holders(b) # {}
         /\ Holders(b)' = Holders(b) \cup {d}
         /\ \A x \in Block : x # b => Holders(x)' = Holders(x)
<1> USE DEF PoolInv
<1>1. h.block_id = b /\ h.generation = generation[b] /\ h # Foreign
      /\ h.generation \in Nat
  BY HandleOfBlock, PoolAssumption DEF Foreign, Block
<1>2. /\ refcount' = [refcount EXCEPT ![b] = @ + 1]
      /\ held' = [held EXCEPT ![d] = @ \cup {h}]
      /\ reply' = "ok" /\ h \notin held[d]
      /\ UNCHANGED <<free_list, generation, released, overfreed>>
      /\ h \in released \/ \E c \in Holder : h \in held[c]
  BY <1>1 DEF Reference, Known
<1>3. TypeOK'
  BY <1>2 DEF TypeOK, Reply
<1>a. \A x : HandleOf(x)' = HandleOf(x)
  BY <1>2 DEF HandleOf
<1>4. \A x \in Block : x # b => Holders(x)' = Holders(x)
  <2>1. \A x \in Block : x # b => HandleOf(x) # h
    BY <1>1, HandleOfBlock
  <2> QED
    BY <1>a, <1>2, <2>1 DEF Holders, TypeOK
<1>5. Holders(b)' = Holders(b) \cup {d} /\ d \notin Holders(b)
  BY <1>a, <1>2 DEF Holders, TypeOK
<1>6. Holders(b) # {}
  <2>1. \E c \in Holder : h \in held[c]
    BY <1>1, <1>2 DEF RecycledHandlesStale
  <2> QED
    BY <2>1 DEF Holders
<1>7. /\ IsFiniteSet(Holders(b)) /\ refcount[b] \in Nat /\ overfreed[h] \in Nat
      /\ refcount[b] + overfreed[h] = Cardinality(Holders(b)) /\ refcount[b] # 0
  BY <1>6, HoldersFinite DEF RefcountCountsHolders, TypeOK
<1>8. RefcountCountsHolders'
  <2>1. Cardinality(Holders(b)') = Cardinality(Holders(b)) + 1
    <3>1. Cardinality(Holders(b) \cup {d}) = Cardinality(Holders(b)) + 1
      BY <1>5, <1>7, FS_AddElement
    <3> QED
      BY <1>5, <3>1
  <2>2. /\ refcount'[b] = refcount[b] + 1
        /\ \A x \in Block : x # b => refcount'[x] = refcount[x]
    BY <1>2 DEF TypeOK
  <2>3. ASSUME NEW x \in Block
        PROVE  /\ refcount'[x] + overfreed'[HandleOf(x)'] = Cardinality(Holders(x)')
               /\ refcount'[x] = 0 => Holders(x)' = {}
    <3>1. overfreed'[HandleOf(x)'] = overfreed[HandleOf(x)]
      BY <1>a, <1>2
    <3>2. CASE x = b
      BY <1>7, <2>1, <2>2, <3>1, <3>2
    <3>3. CASE x # b
      BY <1>4, <2>2, <3>1, <3>3 DEF RefcountCountsHolders
    <3> QED
      BY <3>2, <3>3
  <2> QED
    BY <2>3 DEF RefcountCountsHolders
<1>9. FreeListExact' /\ FreeBlocks' = FreeBlocks
  <2>1. FreeBlocks' = FreeBlocks /\ free_list' = free_list
    BY <1>2 DEF FreeBlocks
  <2>2. \A x \in Block : refcount'[x] = 0 <=> refcount[x] = 0
    BY <1>2, <1>7 DEF TypeOK
  <2> QED
    BY <2>1, <2>2 DEF FreeListExact
<1>10. HeldHandlesCurrent'
  BY <1>1, <1>2 DEF HeldHandlesCurrent, TypeOK
<1>11. RecycledHandlesStale'
  BY <1>2 DEF RecycledHandlesStale, TypeOK
<1>12. LifetimesAhead'
  BY <1>2, <1>7 DEF LifetimesAhead, TypeOK
<1> QED
  BY <1>3, <1>4, <1>5, <1>6, <1>8, <1>9, <1>10, <1>11, <1>12

\* Steps that change none of the pool's variables keep the invariant.
LEMMA UnchangedPoolInv ==
  ASSUME PoolInv, reply' \in Reply,
         UNCHANGED <<free_list, refcount, generation, held, released, overfreed>>
  PROVE  PoolInv' /\ (\A b : Holders(b)' = Holders(b)) /\ FreeBlocks' = FreeBlocks
<1>1. \A b : Holders(b)' = Holders(b) /\ HandleOf(b)' = HandleOf(b)
  BY DEF Holders, HandleOf
<1>2. TypeOK' /\ FreeListExact' /\ FreeBlocks' = FreeBlocks
  BY DEF PoolInv, TypeOK, FreeListExact, FreeBlocks
<1>3. HeldHandlesCurrent' /\ RecycledHandlesStale' /\ LifetimesAhead'
  BY DEF PoolInv, HeldHandlesCurrent, RecycledHandlesStale, LifetimesAhead
<1>4. RefcountCountsHolders'
  BY <1>1 DEF PoolInv, RefcountCountsHolders
<1> QED
  BY <1>1, <1>2, <1>3, <1>4 DEF PoolInv

\* What a call does with a handle check() refuses: it changes no block, and the
\* caller that presented it gave up nothing that was valid.
LEMMA RefusedCall ==
  ASSUME PoolInv, NEW h, Check(h) # "ok",
         \/ \E c \in Holder : h \in held[c] /\ Free(c, h)
         \/ h \in Known /\ FreeAgain(h)
         \/ \E d \in Holder : Reference(d, h)
  PROVE  /\ PoolInv'
         /\ \A b \in Block : Holders(b)' = Holders(b)
         /\ FreeBlocks' = FreeBlocks
<1> USE DEF PoolInv
<1>1. h \in Handle \/ h = Foreign
  BY DEF Known, TypeOK, Free, FreeAgain, Reference
<1>2. Check(h) \in Reply
  BY DEF Check, Reply
<1>3. CASE \E c \in Holder : h \in held[c] /\ Free(c, h)
  <2>1. PICK c \in Holder : h \in held[c] /\ Free(c, h)
    BY <1>3
  <2>2. /\ UNCHANGED <<free_list, refcount, generation, overfreed>>
        /\ held' = [held EXCEPT ![c] = @ \ {h}]
        /\ released' = released \cup {h} /\ reply' \in Reply
    BY <1>2, <2>1 DEF Free, TryFree
  <2>3. h \in Handle /\ h.generation < generation[h.block_id]
    <3>1. h \in Handle
      BY <2>1 DEF TypeOK
    <3>2. h.generation # generation[h.block_id]
      BY <3>1, HandleOfBlock
    <3> QED
      BY <2>1, <3>1, <3>2 DEF HeldHandlesCurrent
  <2>4. \A b \in Block : HandleOf(b)' = HandleOf(b) /\ HandleOf(b) # h
    <3>1. \A b \in Block : HandleOf(b)' = HandleOf(b)
      BY <2>2 DEF HandleOf
    <3>2. \A b \in Block : Check(HandleOf(b)) = "ok"
      BY HandleOfBlock
    <3> QED
      BY <3>1, <3>2
  <2>5. \A b \in Block : Holders(b)' = Holders(b)
    BY <2>2, <2>4 DEF Holders, TypeOK
  <2>6. TypeOK' /\ FreeListExact' /\ FreeBlocks' = FreeBlocks
    BY <2>2, <2>3 DEF TypeOK, FreeListExact, FreeBlocks
  <2>7. HeldHandlesCurrent' /\ LifetimesAhead'
    BY <2>2 DEF HeldHandlesCurrent, LifetimesAhead, TypeOK
  <2>8. RefcountCountsHolders'
    BY <2>2, <2>4, <2>5 DEF RefcountCountsHolders
  <2>9. RecycledHandlesStale'
    <3>1. ASSUME NEW k \in released', k # h
          PROVE  \/ k.generation < generation'[k.block_id]
                 \/ /\ k.generation = generation'[k.block_id]
                    /\ \E d \in Holder : k \in held'[d]
      <4>1. \A d \in Holder : k \in held[d] => k \in held'[d]
        BY <2>2, <3>1 DEF TypeOK
      <4> QED
        BY <2>2, <3>1, <4>1 DEF RecycledHandlesStale
    <3> QED
      BY <2>2, <2>3, <3>1 DEF RecycledHandlesStale
  <2> QED
    BY <2>5, <2>6, <2>7, <2>8, <2>9
<1>4. CASE (h \in Known /\ FreeAgain(h)) \/ \E d \in Holder : Reference(d, h)
  <2>1. /\ UNCHANGED <<free_list, refcount, generation, held, released, overfreed>>
        /\ reply' \in Reply
    BY <1>2, <1>4 DEF FreeAgain, TryFree, Reference
  <2> QED
    BY <2>1, UnchangedPoolInv
<1> QED
  BY <1>3, <1>4

\* A handle check() accepts is the one of its block's present lifetime.
LEMMA AcceptedHandle ==
  ASSUME PoolInv, NEW h \in Known, Check(h) = "ok"
  PROVE  h \in Handle /\ h.block_id \in Block /\ h = HandleOf(h.block_id)
<1>1. TypeOK
  BY DEF PoolInv
<1>2. Check(Foreign) = "BlockNotAllocated"
  BY PoolAssumption DEF Check, Foreign
<1>3. h \in Handle
  BY <1>1, <1>2 DEF Known, TypeOK
<1> QED
  BY <1>1, <1>3, HandleOfBlock

\* Every call keeps the invariant.
LEMMA NextPoolInv == PoolInv /\ [Next]_vars => PoolInv'
<1> SUFFICES ASSUME PoolInv, [Next]_vars PROVE PoolInv'
  OBVIOUS
<1>1. ASSUME NEW c \in Holder, Allocate(c) PROVE PoolInv'
  BY <1>1, AllocatePoolInv
<1>2. CASE OutOfBlocks
  BY <1>2, UnchangedPoolInv DEF OutOfBlocks, Reply
<1>3. ASSUME NEW c \in Holder, NEW h \in held[c], Free(c, h) PROVE PoolInv'
  <2>1. h \in Known
    BY DEF Known
  <2> QED
    BY <1>3, <2>1, AcceptedHandle, FreeDrops, RefusedCall
<1>4. ASSUME NEW h \in Known, FreeAgain(h) PROVE PoolInv'
  BY <1>4, AcceptedHandle, FreeAgainDrops, RefusedCall
<1>5. ASSUME NEW d \in Holder, NEW h \in Known, Reference(d, h) PROVE PoolInv'
  BY <1>5, AcceptedHandle, ReferenceShares, RefusedCall
<1>6. CASE UNCHANGED vars
  <2>1. /\ reply' \in Reply
        /\ UNCHANGED <<free_list, refcount, generation, held, released, overfreed>>
    BY <1>6 DEF vars, PoolInv, TypeOK
  <2> QED
    BY <2>1, UnchangedPoolInv
<1> QED
  BY <1>1, <1>2, <1>3, <1>4, <1>5, <1>6 DEF Next

\* For all callers, also those that free a handle twice or use it after freeing
\* it: no block is handed out twice or leaked, a recycled handle is dead, and the
\* handle of somebody who owns a reference is refused only after a double free of
\* that handle, which the counter accounts for.
THEOREM BlockManagerSafe == Spec => []HandlesSafe
<1>1. Spec => []PoolInv
  BY InitPoolInv, NextPoolInv, PTL DEF Spec
<1>2. PoolInv => HandlesSafe
  BY DEF PoolInv, HandlesSafe
<1> QED
  BY <1>1, <1>2, PTL

-----------------------------------------------------------------------------
\* The abstract view: the blocks each caller has a valid handle of.
OwnedBlocks == [c \in Holder |-> {b \in Block : c \in Holders(b)}]

\* The view shows the holders, and only them.
LEMMA OwnersAreHolders ==
  /\ OwnedBlocks \in [Holder -> SUBSET Block]
  /\ \A b \in Block, c \in Holder : b \in OwnedBlocks[c] <=> c \in Holders(b)
BY DEF OwnedBlocks

\* A call that leaves the holders of every block alone is invisible.
LEMMA SameHoldersSameView ==
  ASSUME \A b \in Block : Holders(b)' = Holders(b)
  PROVE  OwnedBlocks' = OwnedBlocks
BY DEF OwnedBlocks

\* An allocation is an acquisition by the caller.
LEMMA AllocateIsAcquire ==
  ASSUME PoolInv, NEW c \in Holder, Allocate(c)
  PROVE  Pool!PoolNext
<1>a. TypeOK /\ FreeListExact /\ free_list # <<>>
  BY DEF PoolInv, Allocate
<1>b. PICK b \in Block : b = free_list[Len(free_list)]
  BY <1>a, PopFreeList
<1>1. /\ b \in FreeBlocks /\ FreeBlocks' = FreeBlocks \ {b}
      /\ held' = [held EXCEPT ![c] = @ \cup {HandleOf(b)}]
      /\ generation' = generation
  BY <1>a, <1>b, PopFreeList DEF Allocate, FreeBlocks
<1>2. \A x \in Block : Holders(x)' = IF x = b THEN Holders(x) \cup {c} ELSE Holders(x)
  <2>1. \A x \in Block : HandleOf(x)' = HandleOf(x)
    BY <1>1 DEF HandleOf
  <2>2. \A x \in Block : x # b => HandleOf(x) # HandleOf(b)
    BY <1>a, HandleOfBlock
  <2> QED
    BY <1>a, <1>1, <2>1, <2>2 DEF Holders, TypeOK
<1>3. OwnedBlocks' = [OwnedBlocks EXCEPT ![c] = @ \cup {b}]
  <2>1. ASSUME NEW d \in Holder
        PROVE  OwnedBlocks'[d] = IF d = c THEN OwnedBlocks[d] \cup {b} ELSE OwnedBlocks[d]
    BY <1>2 DEF OwnedBlocks
  <2>2. OwnedBlocks' = [d \in Holder |-> OwnedBlocks'[d]]
    BY DEF OwnedBlocks
  <2> QED
    BY <2>1, <2>2, OwnersAreHolders
<1>4. Pool!Acquire(c, {b})
  BY <1>1, <1>3 DEF Pool!Acquire, OwnedBlocks
<1> QED
  BY <1>1, <1>4 DEF Pool!PoolNext

\* An accepted reference is a share of the block with somebody who has it.
LEMMA ReferenceIsShare ==
  ASSUME PoolInv, NEW d \in Holder, NEW h \in Known, Reference(d, h), Check(h) = "ok"
  PROVE  Pool!PoolNext
<1>1. PICK b \in Block : h = HandleOf(b) /\ h \in Handle
  BY AcceptedHandle
<1>2. /\ FreeBlocks' = FreeBlocks
      /\ Holders(b) # {}
      /\ Holders(b)' = Holders(b) \cup {d}
      /\ \A x \in Block : x # b => Holders(x)' = Holders(x)
  BY <1>1, ReferenceShares
<1>3. OwnedBlocks' = [OwnedBlocks EXCEPT ![d] = @ \cup {b}]
  <2>1. ASSUME NEW c \in Holder
        PROVE  OwnedBlocks'[c] = IF c = d THEN OwnedBlocks[c] \cup {b} ELSE OwnedBlocks[c]
    BY <1>2 DEF OwnedBlocks
  <2>2. OwnedBlocks' = [c \in Holder |-> OwnedBlocks'[c]]
    BY DEF OwnedBlocks
  <2> QED
    BY <2>1, <2>2, OwnersAreHolders
<1>4. PICK c \in Holder : b \in OwnedBlocks[c]
  BY <1>2, OwnersAreHolders DEF Holders
<1>5. Pool!Share(c, d, b)
  BY <1>2, <1>3, <1>4 DEF Pool!Share, OwnedBlocks
<1> QED
  BY <1>5 DEF Pool!PoolNext

\* A dropped reference releases the block exactly when it was the last.
LEMMA DropIsRelease ==
  ASSUME NEW b \in Block,
         Holders(b)' = {} <=> refcount[b] = 1,
         FreeBlocks' = IF refcount[b] = 1 THEN FreeBlocks \cup {b} ELSE FreeBlocks,
         \A x \in Block : x # b => Holders(x)' = Holders(x),
         Holders(b) # {}, Holders(b)' \subseteq Holders(b)
  PROVE  Pool!PoolNext
<1>1. OwnedBlocks' \in [Holder -> SUBSET Block]
  BY DEF OwnedBlocks
<1>2. \A x \in Block, c \in Holder : x \in OwnedBlocks'[c] <=> c \in Holders(x)'
  BY DEF OwnedBlocks
<1>3. \A c \in Holder : OwnedBlocks'[c] \subseteq OwnedBlocks[c]
  BY <1>1, <1>2, OwnersAreHolders
<1>4. \A x \in Block : (\E c \in Holder : x \in OwnedBlocks[c]) <=> Holders(x) # {}
  BY OwnersAreHolders DEF Holders
<1>5. \A x \in Block : (\A c \in Holder : x \notin OwnedBlocks'[c]) <=> Holders(x)' = {}
  BY <1>2 DEF Holders
<1>6. FreeBlocks' = FreeBlocks \cup {x \in Block :
                      /\ \E c \in Holder : x \in OwnedBlocks[c]
                      /\ \A c \in Holder : x \notin OwnedBlocks'[c]}
  <2>1. \A x \in Block : (/\ \E c \in Holder : x \in OwnedBlocks[c]
                          /\ \A c \in Holder : x \notin OwnedBlocks'[c])
                         <=> x = b /\ refcount[b] = 1
    BY <1>4, <1>5
  <2> QED
    BY <2>1
<1>7. Pool!Release
  BY <1>1, <1>3, <1>6 DEF Pool!Release, OwnedBlocks
<1> QED
  BY <1>7 DEF Pool!PoolNext

\* A free, by whoever, gives no caller a block.
LEMMA FreeIsRelease ==
  ASSUME PoolInv, NEW h \in Known, Check(h) = "ok",
         \/ \E c \in Holder : h \in held[c] /\ Free(c, h)
         \/ FreeAgain(h)
  PROVE  Pool!PoolNext
<1>1. PICK b \in Block : h = HandleOf(b) /\ h \in Handle
  BY AcceptedHandle
<1>2. /\ Holders(b)' = {} <=> refcount[b] = 1
      /\ FreeBlocks' = IF refcount[b] = 1 THEN FreeBlocks \cup {b} ELSE FreeBlocks
      /\ \A x \in Block : x # b => Holders(x)' = Holders(x)
      /\ Holders(b) # {}
      /\ \A d \in Holder : held'[d] \subseteq held[d]
  <2>1. CASE FreeAgain(h)
    BY <1>1, <2>1, FreeAgainDrops
  <2>2. CASE \E c \in Holder : h \in held[c] /\ Free(c, h)
    BY <1>1, <2>2, FreeDrops
  <2> QED
    BY <2>1, <2>2
<1>3. Holders(b)' \subseteq Holders(b)
  <2>1. CASE refcount[b] = 1
    BY <1>2, <2>1
  <2>2. CASE refcount[b] # 1
    <3>1. generation' = generation
      BY <1>1, <2>2, HandleOfBlock DEF Free, FreeAgain, TryFree, DropReference, PoolInv
    <3>2. HandleOf(b)' = HandleOf(b)
      BY <3>1 DEF HandleOf
    <3> QED
      BY <1>2, <3>2 DEF Holders
  <2> QED
    BY <2>1, <2>2
<1> QED
  BY <1>2, <1>3, DropIsRelease

\* BlockManager implements BlockPool: the LIFO list, the counters and the
\* generations are a correct way to keep "free or owned", whatever the callers do
\* with handles they gave back.
THEOREM BlockManagerImplementsPool == Spec => ImplementsPool
<1>1. Init => Pool!PoolInit
  <2> SUFFICES ASSUME Init PROVE Pool!PoolInit
    OBVIOUS
  <2>1. FreeBlocks = Block
    <3>1. PoolInv /\ \A b \in Block : refcount[b] = 0
      BY InitPoolInv DEF Init
    <3>2. FreeBlocks \subseteq Block
      BY <3>1, LenProperties, ElementOfSeq DEF FreeBlocks, PoolInv, TypeOK
    <3> QED
      BY <3>1, <3>2 DEF PoolInv, FreeListExact
  <2>2. \A b \in Block : Holders(b) = {}
    BY DEF Holders, Init
  <2> QED
    BY <2>1, <2>2 DEF Pool!PoolInit
<1>2. PoolInv /\ [Next]_vars => [Pool!PoolNext]_(Pool!poolVars)
  <2> SUFFICES ASSUME PoolInv, [Next]_vars PROVE [Pool!PoolNext]_(Pool!poolVars)
    OBVIOUS
  <2>1. ASSUME \A b \in Block : Holders(b)' = Holders(b), FreeBlocks' = FreeBlocks
        PROVE  UNCHANGED Pool!poolVars
    BY <2>1, SameHoldersSameView DEF Pool!poolVars, OwnedBlocks
  <2>2. ASSUME NEW c \in Holder, Allocate(c) PROVE Pool!PoolNext
    BY <2>2, AllocateIsAcquire
  <2>3. CASE OutOfBlocks
    <3>1. reply' \in Reply
      BY <2>3 DEF OutOfBlocks, Reply
    <3> QED
      BY <2>1, <2>3, <3>1, UnchangedPoolInv DEF OutOfBlocks
  <2>4. ASSUME NEW c \in Holder, NEW h \in held[c], Free(c, h)
        PROVE  [Pool!PoolNext]_(Pool!poolVars)
    <3>1. h \in Known
      BY DEF Known
    <3>2. CASE Check(h) = "ok"
      BY <2>4, <3>1, <3>2, FreeIsRelease
    <3>3. CASE Check(h) # "ok"
      BY <2>1, <2>4, <3>3, RefusedCall
    <3> QED
      BY <3>2, <3>3
  <2>5. ASSUME NEW h \in Known, FreeAgain(h) PROVE [Pool!PoolNext]_(Pool!poolVars)
    <3>1. CASE Check(h) = "ok"
      BY <2>5, <3>1, FreeIsRelease
    <3>2. CASE Check(h) # "ok"
      BY <2>1, <2>5, <3>2, RefusedCall
    <3> QED
      BY <3>1, <3>2
  <2>6. ASSUME NEW d \in Holder, NEW h \in Known, Reference(d, h)
        PROVE  [Pool!PoolNext]_(Pool!poolVars)
    <3>1. CASE Check(h) = "ok"
      BY <2>6, <3>1, ReferenceIsShare
    <3>2. CASE Check(h) # "ok"
      BY <2>1, <2>6, <3>2, RefusedCall
    <3> QED
      BY <3>1, <3>2
  <2>7. CASE UNCHANGED vars
    <3>1. /\ reply' \in Reply
          /\ UNCHANGED <<free_list, refcount, generation, held, released, overfreed>>
      BY <2>7 DEF vars, PoolInv, TypeOK
    <3> QED
      BY <2>1, <3>1, UnchangedPoolInv
  <2> QED
    BY <2>2, <2>3, <2>4, <2>5, <2>6, <2>7 DEF Next
<1>3. Spec => []PoolInv
  BY InitPoolInv, NextPoolInv, PTL DEF Spec
<1> QED
  BY <1>1, <1>2, <1>3, PTL DEF Spec, ImplementsPool, Pool!PoolSpec
=============================================================================
