----------------------------- MODULE BlockPool -----------------------------
(***************************************************************************)
(* What the KV block pool promises, with no free list, reference counter   *)
(* or generation: a block is free or has owners, a free block goes to one  *)
(* new owner, an owner may admit another owner, and a block is free again  *)
(* exactly when its last owner let go.  BlockManager.tla (the pool itself) *)
(* and Engine.tla (its only user in the engine) both implement this.       *)
(***************************************************************************)

CONSTANTS Block,  \* the KV blocks of the pool
          Owner   \* whoever may hold a block: handle holders, or requests

VARIABLES free,   \* blocks nobody owns
          owned   \* owned[o]: the blocks o holds

poolVars == <<free, owned>>

PoolInit ==
  /\ free = Block
  /\ owned = [o \in Owner |-> {}]

\* The owner o gets some free blocks, all at once or one at a time.
Acquire(o, B) ==
  /\ B # {} /\ B \subseteq free
  /\ free' = free \ B
  /\ owned' = [owned EXCEPT ![o] = @ \cup B]

\* The owner o lets p hold its block b too.
Share(o, p, b) ==
  /\ b \in owned[o]
  /\ owned' = [owned EXCEPT ![p] = @ \cup {b}]
  /\ UNCHANGED free

\* Owners let go of blocks; those with no owner left are free again.
Release ==
  /\ owned' \in [Owner -> SUBSET Block]
  /\ \A o \in Owner : owned'[o] \subseteq owned[o]
  /\ free' = free \cup {b \in Block : /\ \E o \in Owner : b \in owned[o]
                                      /\ \A o \in Owner : b \notin owned'[o]}

PoolNext ==
  \/ \E o \in Owner : \E B \in SUBSET free : Acquire(o, B)
  \/ \E o, p \in Owner : \E b \in Block : Share(o, p, b)
  \/ Release

PoolSpec == PoolInit /\ [][PoolNext]_poolVars
=============================================================================
