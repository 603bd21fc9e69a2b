----------------------------- MODULE BatchProofs -----------------------------
(***************************************************************************)
(* Proofs about Batch.tla, for every number of requests, instances, hops   *)
(* and restarts.  The windows and the timers are all that matters here: an *)
(* instance starts a timer when its slot stops being empty, and takes one  *)
(* off when it empties the slot, so the two agree whatever the lease does. *)
(***************************************************************************)
EXTENDS Batch, FiniteSetTheorems, TLAPS

WindowTypeOK ==
  /\ slot \in [Instance -> SUBSET Request]
  /\ timer \in [Instance -> Nat]

WInv == WindowTypeOK /\ OneTimerPerWindow

LEMMA WInvInit == Init => WInv
  BY DEF Init, WInv, WindowTypeOK, OneTimerPerWindow

(* A request is always at an instance: Enqueue is the only step that needs it,
   and a step at no instance would change neither the slots nor the timers. *)
LEMMA EnqueueKeeps ==
  ASSUME WInv, NEW q \in Request, Enqueue(q)
  PROVE  WInv'
  <1> DEFINE i == Here(q)
  <1>1. /\ slot' = [slot EXCEPT ![i] = @ \cup {q}]
        /\ timer' = [timer EXCEPT ![i] = @ + (IF slot[i] = {} THEN 1 ELSE 0)]
    BY DEF Enqueue, OpensWindow
  <1> HIDE DEF i
  <1>2. CASE i \in Instance
    BY <1>1, <1>2 DEF WInv, WindowTypeOK, OneTimerPerWindow
  <1>3. CASE i \notin Instance
    <2>1. slot' = slot /\ timer' = timer
      BY <1>1, <1>3 DEF WInv, WindowTypeOK
    <2> QED BY <2>1 DEF WInv, WindowTypeOK, OneTimerPerWindow
  <1> QED BY <1>2, <1>3

(* Drain empties the slot and ends its timer; there was exactly one. *)
LEMMA DrainKeeps ==
  ASSUME WInv, NEW i \in Instance, Drain(i)
  PROVE  WInv'
  BY DEF WInv, WindowTypeOK, OneTimerPerWindow, Drain, SlotAfterDrain

(* A restart takes the window and its timer together. *)
LEMMA CrashKeeps ==
  ASSUME WInv, NEW i \in Instance, Crash(i)
  PROVE  WInv'
  BY DEF WInv, WindowTypeOK, OneTimerPerWindow, Crash

LEMMA WInvStep == WInv /\ [Next]_vars => WInv'
  <1> SUFFICES ASSUME WInv, [Next]_vars PROVE WInv'
    OBVIOUS
  <1> DEFINE Untouched == UNCHANGED <<slot, timer>>
  <1>1. ASSUME Untouched PROVE WInv'
    BY <1>1 DEF WInv, WindowTypeOK, OneTimerPerWindow
  <1>2. CASE UNCHANGED vars
    BY <1>1, <1>2 DEF vars
  <1>3. CASE \E q \in Request : (\E i \in Instance : Arrive(q, i)) \/ Handle(q) \/ GiveUp(q)
    <2> PICK q \in Request : (\E i \in Instance : Arrive(q, i)) \/ Handle(q) \/ GiveUp(q)
      BY <1>3
    <2>1. CASE Enqueue(q)
      BY <2>1, EnqueueKeeps
    <2>2. CASE \/ \E i \in Instance : Arrive(q, i)
               \/ TakeLease(q) \/ ReadOwner(q) \/ Respond(q) \/ GiveUp(q)
      BY <1>1, <2>2 DEF Arrive, TakeLease, ReadOwner, Respond, GiveUp
    <2> QED BY <2>1, <2>2 DEF Handle
  <1>4. CASE \E i \in Instance : Flush(i) \/ Crash(i)
    <2> PICK i \in Instance : Flush(i) \/ Crash(i)
      BY <1>4
    <2>1. CASE Drain(i)
      BY <2>1, DrainKeeps
    <2>2. CASE \E S \in drained[i] : ReleaseLease(i, S)
      BY <1>1, <2>2 DEF ReleaseLease
    <2>3. CASE Crash(i)
      BY <2>3, CrashKeeps
    <2> QED BY <2>1, <2>2, <2>3 DEF Flush
  <1>5. CASE LeaseExpires
    BY <1>1, <1>5 DEF LeaseExpires
  <1> QED BY <1>2, <1>3, <1>4, <1>5 DEF Next

(* batch.rs: an open window has exactly one flush task, a closed one has none,
   for every number of instances, requests and lost leases. *)
THEOREM OneTimerAlways == Spec => []OneTimerPerWindow
  <1>1. WInv => OneTimerPerWindow
    BY DEF WInv
  <1> QED BY <1>1, WInvInit, WInvStep, PTL DEF Spec

-----------------------------------------------------------------------------
(* SentOnce.  A request is in a window only while it is queued, only at the
   instance it was handed to last, and in one of the sets there: the open slot
   or a drained one.  It has been sent once it is "sent", and never before. *)

In(q, i) == q \in slot[i] \/ q \in UNION drained[i]

BatchTypeOK ==
  /\ TypeOK
  /\ \A q \in Request : pc[q] # "new" => path[q] # <<>>

Placed ==
  \A q \in Request, i \in Instance :
    /\ In(q, i) => pc[q] = "queued" /\ i = Here(q)
    /\ ~ (q \in slot[i] /\ q \in UNION drained[i])
    /\ \A S, T \in drained[i] : q \in S /\ q \in T => S = T

Counted ==
  \A q \in Request :
    /\ pc[q] \in {"new", "lease", "owner", "enqueue", "queued"} => runs[q] = 0
    /\ pc[q] = "sent" => runs[q] = 1
    /\ runs[q] <= 1
    /\ answer[q] = "response" => runs[q] = 1

SInv == BatchTypeOK /\ Placed /\ Counted

LEMMA SInvInit == Init => SInv
<1> SUFFICES ASSUME Init PROVE SInv
  OBVIOUS
<1>1. TypeOK
  BY FS_EmptySet DEF Init, TypeOK
<1> QED
  BY <1>1 DEF Init, SInv, BatchTypeOK, Placed, Counted, In

\* Where a request is.
LEMMA HereIn ==
  ASSUME BatchTypeOK, NEW q \in Request, pc[q] # "new"
  PROVE  Here(q) \in Instance
<1>1. path[q] \in Seq(Instance) /\ path[q] # <<>>
  BY DEF BatchTypeOK, TypeOK
<1> QED
  BY <1>1 DEF Here

LEMMA SInvEnqueue ==
  ASSUME SInv, NEW q \in Request, Enqueue(q)
  PROVE  SInv'
<1> USE DEF SInv
<1> DEFINE i == Here(q)
<1>1. i \in Instance
  BY HereIn DEF Enqueue, Go
<1>2. /\ pc[q] = "enqueue" /\ pc' = [pc EXCEPT ![q] = "queued"]
      /\ slot' = [slot EXCEPT ![i] = @ \cup {q}]
      /\ timer' = [timer EXCEPT ![i] = @ + (IF slot[i] = {} THEN 1 ELSE 0)]
      /\ UNCHANGED <<lease, drained, path, answer, runs, lost, crashes>>
  BY DEF Enqueue, Go, OpensWindow
<1> HIDE DEF i
<1>3. BatchTypeOK'
  <2>1. slot' \in [Instance -> SUBSET Request] /\ timer' \in [Instance -> Nat]
    BY <1>1, <1>2 DEF BatchTypeOK, TypeOK
  <2> QED
    BY <1>2, <2>1 DEF BatchTypeOK, TypeOK
<1>4. Placed'
  <2>1. \A r \in Request, j \in Instance :
          r \in slot'[j] <=> r \in slot[j] \/ (r = q /\ j = i)
    BY <1>1, <1>2 DEF BatchTypeOK, TypeOK
  <2>2. \A j \in Instance : ~ In(q, j)
    BY <1>2 DEF Placed
  <2>3. Here(q)' = i /\ \A r \in Request : Here(r)' = Here(r)
    BY <1>2 DEF Here, i
  <2> QED
    BY <1>2, <2>1, <2>2, <2>3 DEF Placed, In, BatchTypeOK, TypeOK
<1>5. Counted'
  BY <1>2 DEF Counted, BatchTypeOK, TypeOK
<1> QED
  BY <1>3, <1>4, <1>5

\* Steps of a request that is in no window, or whose place stays.
LEMMA SInvElsewhere ==
  ASSUME SInv, BatchTypeOK', UNCHANGED <<slot, drained, runs>>,
         \A q \in Request :
           \/ pc'[q] = pc[q] /\ (pc[q] = "queued" => path'[q] = path[q])
           \/ pc[q] \in {"new", "lease", "owner"} /\ pc'[q] \in {"lease", "owner", "enqueue"}
           \/ pc[q] \in {"lease", "owner", "enqueue", "sent"} /\ pc'[q] = "done",
         \A q \in Request : answer'[q] = "response" => answer[q] = "response" \/ pc[q] = "sent"
  PROVE  SInv'
<1> USE DEF SInv
<1>1. Placed'
  BY DEF Placed, In, Here
<1>2. Counted'
  BY DEF Counted, BatchTypeOK, TypeOK
<1> QED
  BY <1>1, <1>2

LEMMA SInvArrive ==
  ASSUME SInv, NEW q \in Request, NEW i \in Instance, Arrive(q, i)
  PROVE  SInv'
<1>1. BatchTypeOK'
  BY DEF SInv, BatchTypeOK, TypeOK, Arrive, Go
<1> QED
  BY <1>1, SInvElsewhere DEF SInv, BatchTypeOK, TypeOK, Arrive, Go

LEMMA SInvTakeLease ==
  ASSUME SInv, NEW q \in Request, TakeLease(q)
  PROVE  SInv'
<1>1. Here(q) \in Instance
  BY HereIn DEF SInv, TakeLease, Go
<1>2. Cardinality({Here(q)}) <= 1
  BY FS_Singleton
<1>3. lease' \in SUBSET Instance /\ Cardinality(lease') <= 1
  <2>1. lease' = {Here(q)} \/ lease' = lease
    BY DEF TakeLease
  <2>2. CASE lease' = {Here(q)}
    BY <2>2, <1>1, <1>2
  <2>3. CASE lease' = lease
    BY <2>3 DEF SInv, BatchTypeOK, TypeOK
  <2> QED
    BY <2>1, <2>2, <2>3
<1>4. BatchTypeOK'
  <2>1. pc' = [pc EXCEPT ![q] = "enqueue"] \/ pc' = [pc EXCEPT ![q] = "owner"]
    BY DEF TakeLease, Go
  <2>2. /\ pc[q] = "lease"
        /\ UNCHANGED <<slot, timer, drained, path, answer, runs, lost, crashes>>
    BY DEF TakeLease, Go
  <2>3. /\ pc' \in [Request -> {"new", "lease", "owner", "enqueue", "queued", "sent", "done"}]
        /\ \A r \in Request : pc'[r] # "new" => pc[r] # "new"
    BY <2>1, <2>2 DEF SInv, BatchTypeOK, TypeOK
  <2> QED
    BY <1>3, <2>2, <2>3 DEF SInv, BatchTypeOK, TypeOK
<1> QED
  BY <1>4, SInvElsewhere DEF SInv, BatchTypeOK, TypeOK, TakeLease, Go

LEMMA SInvReadOwner ==
  ASSUME SInv, NEW q \in Request, ReadOwner(q)
  PROVE  SInv'
<1>1. PICK j \in OwnerSeen(q) :
        \/ j = Here(q) /\ Go(q, "owner", "enqueue") /\ UNCHANGED path
        \/ /\ path' = [path EXCEPT ![q] = Append(@, j)]
           /\ Go(q, "owner", "lease")
  BY DEF ReadOwner
<1>2. Here(q) \in Instance
  BY HereIn DEF SInv, ReadOwner
<1>3. j \in Instance
  BY <1>2 DEF OwnerSeen, SInv, BatchTypeOK, TypeOK
<1>4. Append(path[q], j) \in Seq(Instance) /\ Append(path[q], j) # <<>>
  <2>1. path[q] \in Seq(Instance)
    BY DEF SInv, BatchTypeOK, TypeOK
  <2>2. Len(Append(path[q], j)) = Len(path[q]) + 1 /\ Len(path[q]) \in Nat
    BY <1>3, <2>1
  <2> QED
    BY <1>3, <2>1, <2>2
<1>5. BatchTypeOK'
  <2>1. path' \in [Request -> Seq(Instance)]
    BY <1>1, <1>4 DEF SInv, BatchTypeOK, TypeOK
  <2>2. pc' \in [Request -> {"new", "lease", "owner", "enqueue", "queued", "sent", "done"}]
    BY <1>1 DEF SInv, BatchTypeOK, TypeOK, Go
  <2>3. \A r \in Request : pc'[r] # "new" => path'[r] # <<>>
    <3>1. CASE UNCHANGED path
      BY <1>1, <3>1 DEF SInv, BatchTypeOK, TypeOK, Go
    <3>2. CASE path' = [path EXCEPT ![q] = Append(@, j)]
      <4>1. \A r \in Request : path'[r] = path[r] \/ path'[r] # <<>>
        BY <1>4, <3>2 DEF SInv, BatchTypeOK, TypeOK
      <4>2. \A r \in Request : pc'[r] # "new" => pc[r] # "new"
        BY <1>1 DEF SInv, BatchTypeOK, TypeOK, Go
      <4> QED
        BY <4>1, <4>2 DEF SInv, BatchTypeOK
    <3> QED
      BY <1>1, <3>1, <3>2
  <2>4. UNCHANGED <<lease, slot, timer, drained, answer, runs, lost, crashes>>
    BY DEF ReadOwner
  <2> QED
    BY <2>1, <2>2, <2>3, <2>4 DEF SInv, BatchTypeOK, TypeOK
<1> QED
  BY <1>1, <1>5, SInvElsewhere DEF SInv, BatchTypeOK, TypeOK, ReadOwner, Go

LEMMA SInvAnswer ==
  ASSUME SInv, NEW q \in Request, Respond(q) \/ GiveUp(q)
  PROVE  SInv'
<1>1. /\ pc' \in [Request -> {"new", "lease", "owner", "enqueue", "queued", "sent", "done"}]
      /\ \A r \in Request : pc'[r] # "new" => pc[r] # "new"
  <2>1. \/ UNCHANGED pc
        \/ pc[q] \in {"sent", "lease", "owner", "enqueue"} /\ pc' = [pc EXCEPT ![q] = "done"]
    BY DEF Respond, GiveUp, Go
  <2> QED
    BY <2>1 DEF SInv, BatchTypeOK, TypeOK
<1>2. answer' \in [Request -> {"none", "response", "gave_up", "error"}]
  BY DEF SInv, BatchTypeOK, TypeOK, Respond, GiveUp
<1>3. UNCHANGED <<lease, slot, timer, drained, path, runs, lost, crashes>>
  BY DEF Respond, GiveUp
<1>4. BatchTypeOK'
  BY <1>1, <1>2, <1>3 DEF SInv, BatchTypeOK, TypeOK
<1> QED
  BY <1>4, SInvElsewhere DEF SInv, BatchTypeOK, TypeOK, Respond, GiveUp, Go

LEMMA SInvDrain ==
  ASSUME SInv, NEW i \in Instance, Drain(i)
  PROVE  SInv'
<1> USE DEF SInv
<1>1. /\ slot' = [slot EXCEPT ![i] = {}]
      /\ drained' = [drained EXCEPT ![i] = @ \cup {slot[i]}]
      /\ timer[i] > 0 /\ timer' = [timer EXCEPT ![i] = @ - 1]
      /\ UNCHANGED <<lease, path, pc, answer, runs, lost, crashes>>
  BY DEF Drain, SlotAfterDrain
<1>2. BatchTypeOK'
  <2>1. slot' \in [Instance -> SUBSET Request] /\ timer' \in [Instance -> Nat]
    BY <1>1 DEF BatchTypeOK, TypeOK
  <2>2. drained' \in [Instance -> SUBSET SUBSET Request]
    BY <1>1 DEF BatchTypeOK, TypeOK
  <2> QED
    BY <1>1, <2>1, <2>2 DEF BatchTypeOK, TypeOK
<1>3. Placed'
  <2>1. /\ slot'[i] = {} /\ drained'[i] = drained[i] \cup {slot[i]}
        /\ \A j \in Instance \ {i} : slot'[j] = slot[j] /\ drained'[j] = drained[j]
    BY <1>1 DEF BatchTypeOK, TypeOK
  <2>2. \A q \in Request, j \in Instance : In(q, j)' => In(q, j)
    BY <2>1 DEF In
  <2>3. \A q \in Request : Here(q)' = Here(q) /\ pc'[q] = pc[q]
    BY <1>1 DEF Here
  <2>4. ASSUME NEW q \in Request, NEW j \in Instance, NEW S \in drained'[j], NEW T \in drained'[j],
               q \in S, q \in T
        PROVE  S = T
    BY <2>1, <2>4 DEF Placed
  <2>5. \A q \in Request, j \in Instance : ~ (q \in slot'[j] /\ q \in UNION drained'[j])
    BY <2>1 DEF Placed
  <2> QED
    BY <2>2, <2>3, <2>4, <2>5 DEF Placed
<1>4. Counted'
  BY <1>1 DEF Counted
<1> QED
  BY <1>2, <1>3, <1>4

LEMMA SInvReleaseLease ==
  ASSUME SInv, NEW i \in Instance, NEW S \in drained[i], ReleaseLease(i, S)
  PROVE  SInv'
<1> USE DEF SInv
<1>1. /\ drained' = [drained EXCEPT ![i] = @ \ {S}]
      /\ lease' = {} \/ lease' = lease
      /\ runs' = [q \in Request |-> runs[q] + (IF q \in S THEN 1 ELSE 0)]
      /\ pc' = [q \in Request |-> IF q \in S THEN "sent" ELSE pc[q]]
      /\ UNCHANGED <<slot, timer, path, answer, lost, crashes>>
  BY DEF ReleaseLease, SentOn
<1>2. BatchTypeOK'
  <2>1. /\ drained' \in [Instance -> SUBSET SUBSET Request]
        /\ runs' \in [Request -> Nat]
        /\ pc' \in [Request -> {"new", "lease", "owner", "enqueue", "queued", "sent", "done"}]
    BY <1>1 DEF BatchTypeOK, TypeOK
  <2>2. lease' \in SUBSET Instance /\ Cardinality(lease') <= 1
    <3>1. CASE lease' = {}
      BY <3>1, FS_EmptySet
    <3>2. CASE lease' = lease
      BY <3>2 DEF BatchTypeOK, TypeOK
    <3> QED
      BY <1>1, <3>1, <3>2
  <2>3. \A q \in Request : pc'[q] # "new" => path'[q] # <<>>
    <3>1. \A q \in S : q \in Request => pc[q] = "queued"
      BY DEF Placed, In
    <3> QED
      BY <1>1, <3>1 DEF BatchTypeOK
  <2> QED
    BY <1>1, <2>1, <2>2, <2>3 DEF BatchTypeOK, TypeOK
<1>3. Placed'
  <2>1. /\ drained'[i] = drained[i] \ {S} /\ slot' = slot
        /\ \A j \in Instance \ {i} : drained'[j] = drained[j]
    BY <1>1 DEF BatchTypeOK, TypeOK
  <2>2. \A q \in Request, j \in Instance : In(q, j)' => In(q, j)
    BY <2>1 DEF In
  <2>3. \A q \in Request : Here(q)' = Here(q) /\ (q \notin S => pc'[q] = pc[q])
    BY <1>1 DEF Here
  <2>4. \A q \in Request \cap S, j \in Instance : ~ In(q, j)'
    BY <2>1 DEF Placed, In
  <2>5. \A q \in Request, j \in Instance :
          /\ ~ (q \in slot'[j] /\ q \in UNION drained'[j])
          /\ \A U, T \in drained'[j] : q \in U /\ q \in T => U = T
    BY <2>1 DEF Placed
  <2> QED
    BY <2>2, <2>3, <2>4, <2>5 DEF Placed
<1>4. Counted'
  <2>1. \A q \in Request \cap S : runs[q] = 0
    BY DEF Placed, In, Counted
  <2> QED
    BY <1>1, <2>1 DEF Counted, BatchTypeOK, TypeOK
<1> QED
  BY <1>2, <1>3, <1>4

LEMMA SInvCrash ==
  ASSUME SInv, NEW i \in Instance, Crash(i)
  PROVE  SInv'
<1> USE DEF SInv
<1> DEFINE touched == {q \in Request : \E n \in 1 .. Len(path[q]) : path[q][n] = i}
           dropped == {q \in touched : Here(q) = i /\ pc[q] # "done"}
<1>1. /\ crashes' = crashes + 1
      /\ slot' = [slot EXCEPT ![i] = {}] /\ timer' = [timer EXCEPT ![i] = 0]
      /\ drained' = [drained EXCEPT ![i] = {}]
      /\ UNCHANGED <<lease, path, runs>>
  BY DEF Crash
<1>2. /\ pc' = [q \in Request |->
                  IF q \in dropped \/ (q \in touched /\ pc[q] \in {"lease", "owner", "enqueue"})
                  THEN "done" ELSE pc[q]]
      /\ answer' = [q \in Request |->
                      IF q \in touched /\ answer[q] = "none" THEN "error" ELSE answer[q]]
      /\ lost' = lost \cup dropped
  BY DEF Crash
<1>3. \A q \in Request : pc'[q] = pc[q] \/ pc'[q] = "done"
  BY <1>2
<1>4. \A q \in Request : pc'[q] # pc[q] => pc[q] \in {"lease", "owner", "enqueue"} \/ Here(q) = i
  BY <1>2
<1>5. \A q \in Request : q \in touched => path[q] # <<>>
  BY DEF BatchTypeOK, TypeOK
<1>6. \A q \in Request : pc'[q] # pc[q] => path[q] # <<>>
  BY <1>2, <1>5
<1>7. dropped \subseteq Request
  OBVIOUS
<1>8. \A q \in Request : answer'[q] = answer[q] \/ answer'[q] = "error"
  BY <1>2
<1>9. /\ pc' = [q \in Request |-> pc'[q]] /\ answer' = [q \in Request |-> answer'[q]]
      /\ lost' \subseteq Request
  BY <1>2, <1>7 DEF BatchTypeOK, TypeOK
<1> HIDE DEF touched, dropped
<1>10. BatchTypeOK'
  <2>1. /\ slot' \in [Instance -> SUBSET Request] /\ timer' \in [Instance -> Nat]
        /\ drained' \in [Instance -> SUBSET SUBSET Request] /\ crashes' \in Nat
    BY <1>1 DEF BatchTypeOK, TypeOK
  <2>2. pc' \in [Request -> {"new", "lease", "owner", "enqueue", "queued", "sent", "done"}]
    BY <1>3, <1>9 DEF BatchTypeOK, TypeOK
  <2>3. answer' \in [Request -> {"none", "response", "gave_up", "error"}]
    BY <1>8, <1>9 DEF BatchTypeOK, TypeOK
  <2>4. \A q \in Request : pc'[q] # "new" => path'[q] # <<>>
    BY <1>1, <1>3, <1>6 DEF BatchTypeOK
  <2> QED
    BY <1>1, <1>9, <2>1, <2>2, <2>3, <2>4 DEF BatchTypeOK, TypeOK
<1>11. Placed'
  <2>1. /\ slot'[i] = {} /\ drained'[i] = {}
        /\ \A j \in Instance \ {i} : slot'[j] = slot[j] /\ drained'[j] = drained[j]
    BY <1>1 DEF BatchTypeOK, TypeOK
  <2>2. \A q \in Request, j \in Instance : In(q, j)' => In(q, j) /\ j # i
    BY <2>1 DEF In
  <2>3. \A q \in Request : Here(q)' = Here(q)
    BY <1>1 DEF Here
  <2>4. \A q \in Request, j \in Instance : In(q, j)' => pc'[q] = "queued" /\ j = Here(q)'
    BY <1>4, <2>2, <2>3 DEF Placed
  <2>5. \A q \in Request, j \in Instance :
          /\ ~ (q \in slot'[j] /\ q \in UNION drained'[j])
          /\ \A U, T \in drained'[j] : q \in U /\ q \in T => U = T
    BY <2>1 DEF Placed
  <2> QED
    BY <2>4, <2>5 DEF Placed
<1>12. Counted'
  BY <1>1, <1>3, <1>8 DEF Counted
<1> QED
  BY <1>10, <1>11, <1>12

LEMMA SInvStep == SInv /\ [Next]_vars => SInv'
<1> SUFFICES ASSUME SInv, [Next]_vars PROVE SInv'
  OBVIOUS
<1>1. CASE UNCHANGED vars
  BY <1>1 DEF vars, SInv, BatchTypeOK, TypeOK, Placed, Counted, In, Here
<1>2. CASE LeaseExpires
  <2>1. BatchTypeOK'
    BY <1>2, FS_EmptySet DEF LeaseExpires, SInv, BatchTypeOK, TypeOK
  <2> QED
    BY <1>2, <2>1, SInvElsewhere DEF LeaseExpires
<1> QED
  BY <1>1, <1>2, SInvArrive, SInvTakeLease, SInvReadOwner, SInvEnqueue, SInvAnswer, SInvDrain,
     SInvReleaseLease, SInvCrash DEF Next, Handle, Flush

(* batch.rs: whatever is forwarded, lost, deleted under its owner or restarted,
   no request is in two windows or goes to a pod twice. *)
THEOREM SentOnceAlways == Spec => []SentOnce
<1>1. SInv => SentOnce
  <2> SUFFICES ASSUME SInv, NEW q \in Request
               PROVE  runs[q] + Cardinality({i \in Instance : q \in slot[i]})
                        + Cardinality({i \in Instance : q \in UNION drained[i]}) <= 1
    BY DEF SInv, BatchTypeOK, Counted, SentOnce
  <2> DEFINE A == {i \in Instance : q \in slot[i]}
             B == {i \in Instance : q \in UNION drained[i]}
  <2>1. runs[q] \in Nat /\ runs[q] <= 1
    BY DEF SInv, BatchTypeOK, TypeOK, Counted
  <2>2. Cardinality({}) = 0 /\ Cardinality({Here(q)}) = 1
    BY FS_EmptySet, FS_Singleton
  <2>3. \/ A = {} /\ B = {}
        \/ runs[q] = 0 /\ A = {} /\ B = {Here(q)}
        \/ runs[q] = 0 /\ A = {Here(q)} /\ B = {}
    <3>1. A # {} \/ B # {} => runs[q] = 0
      BY DEF SInv, Placed, In, Counted
    <3>2. A \subseteq {Here(q)} /\ B \subseteq {Here(q)} /\ A \cap B = {}
      BY DEF SInv, Placed, In
    <3> QED
      BY <3>1, <3>2
  <2> HIDE DEF A, B
  <2>4. runs[q] + Cardinality(A) + Cardinality(B) <= 1
    <3>1. CASE A = {} /\ B = {}
      <4>1. Cardinality(A) = 0 /\ Cardinality(B) = 0
        BY <2>2, <3>1
      <4> QED
        BY <2>1, <4>1
    <3>2. CASE runs[q] = 0 /\ A = {} /\ B = {Here(q)}
      <4>1. Cardinality(A) = 0 /\ Cardinality(B) = 1
        BY <2>2, <3>2
      <4> QED
        BY <3>2, <4>1
    <3>3. CASE runs[q] = 0 /\ A = {Here(q)} /\ B = {}
      <4>1. Cardinality(A) = 1 /\ Cardinality(B) = 0
        BY <2>2, <3>3
      <4> QED
        BY <3>3, <4>1
    <3> QED
      BY <2>3, <3>1, <3>2, <3>3
  <2> QED
    BY <2>4 DEF A, B
<1> QED
  BY <1>1, SInvInit, SInvStep, PTL DEF Spec
=============================================================================
