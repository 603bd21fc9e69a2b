--------------------------- MODULE ColdStartProofs ---------------------------
(***************************************************************************)
(* The cold start queue proved for any requests, pods and writers of the   *)
(* route table: Inv is inductive, WaitsForReason and WokenIsRouted follow. *)
(***************************************************************************)
EXTENDS ColdStart, TLAPS

Tables == {Absent} \cup {Listed(S) : S \in SUBSET (Pod \cup FilePod)}

\* A request that is on its way to the queue although the pool has a pod now:
\* the same reasons as for one that waits, seen from before it registers.
ComesForReason ==
  \A q \in Request :
    pc[q] = "cold" /\ table.pods # {} =>
      silent \/ before[q] < notified \/ \E p \in Pod : handler[p] = "notify"

\* Without a new file, a pool that was filled stays so: a weight update stores a
\* table that had a pod, and the notification follows the pod.
StaysFilled ==
  /\ weigh = "store" => snapshot["weigh"].pods # {}
  /\ reloads = 0 =>
       /\ \A p \in Pod : handler[p] = "notify" => table.pods # {}
       /\ \A q \in Request : pc[q] = "woken" => table.pods # {}
       /\ \A q \in Request : answer[q] # "still_empty"

Inv ==
  /\ TypeOK /\ snapshot \in [Pod \cup {"weigh"} -> Tables]
  /\ \A q \in Request : before[q] <= notified
  /\ WaitsForReason /\ ComesForReason /\ StaysFilled

\* What the tables are, without their records.
LEMMA TableFields ==
  /\ Absent \in Tables /\ Absent.pods = {} /\ Absent.listed = FALSE
  /\ \A S : Listed(S).pods = S /\ Listed(S).listed = TRUE
  /\ \A t \in Tables : t.pods \subseteq Pod \cup FilePod
  /\ \A S \in SUBSET (Pod \cup FilePod) : Listed(S) \in Tables
  /\ FileTables \subseteq Tables
<1>1. \A S : Listed(S).pods = S /\ Listed(S).listed = TRUE
  BY DEF Listed
<1>2. Absent \in Tables /\ Absent.pods = {} /\ Absent.listed = FALSE
  BY DEF Absent, Tables
<1>3. \A S \in SUBSET (Pod \cup FilePod) : Listed(S) \in Tables
  BY DEF Tables
<1>4. \A t \in Tables : t = Absent \/ \E S \in SUBSET (Pod \cup FilePod) : t = Listed(S)
  BY DEF Tables
<1>5. \A t \in Tables : t.pods \subseteq Pod \cup FilePod
  BY <1>1, <1>2, <1>4
<1>6. FileTables \subseteq Tables
  BY DEF FileTables, Tables
<1> QED
  BY <1>1, <1>2, <1>3, <1>5, <1>6

LEMMA InvInit == Init => Inv
<1> SUFFICES ASSUME Init PROVE Inv
  OBVIOUS
<1>1. TypeOK /\ snapshot \in [Pod \cup {"weigh"} -> Tables]
  BY TableFields DEF Init, TypeOK, Tables
<1> QED
  BY <1>1 DEF Init, Inv, WaitsForReason, ComesForReason, StaysFilled

LEMMA InvResolve == ASSUME Inv, NEW q \in Request, Resolve(q) PROVE Inv'
<1> USE ColdStartAssumption, TableFields DEF Inv, Resolve, Go, Answered, tableVars
<1>1. TypeOK' /\ snapshot' \in [Pod \cup {"weigh"} -> Tables]
  BY DEF TypeOK, Tables
<1>2. \A r \in Request : before'[r] <= notified'
  BY DEF TypeOK
<1>3. WaitsForReason'
  BY <1>1 DEF WaitsForReason, ComesForReason, TypeOK
<1>4. ComesForReason'
  BY DEF ComesForReason, TypeOK
<1>5. StaysFilled'
  BY DEF StaysFilled, TypeOK
<1> QED
  BY <1>1, <1>2, <1>3, <1>4, <1>5

LEMMA InvRegister == ASSUME Inv, NEW q \in Request, Register(q) PROVE Inv'
<1> USE ColdStartAssumption, TableFields DEF Inv, Register, Go, tableVars
<1>1. TypeOK' /\ snapshot' \in [Pod \cup {"weigh"} -> Tables]
  BY DEF TypeOK, Tables
<1>2. \A r \in Request : before'[r] <= notified'
  BY DEF TypeOK
<1>3. WaitsForReason'
  BY <1>1 DEF WaitsForReason, ComesForReason, TypeOK
<1>4. ComesForReason'
  BY DEF ComesForReason, TypeOK
<1>5. StaysFilled'
  BY DEF StaysFilled, TypeOK
<1> QED
  BY <1>1, <1>2, <1>3, <1>4, <1>5

LEMMA InvTimeOut == ASSUME Inv, NEW q \in Request, TimeOut(q) PROVE Inv'
<1> USE ColdStartAssumption, TableFields DEF Inv, TimeOut, MayTimeOut, Answered, Go, tableVars
<1>1. TypeOK' /\ snapshot' \in [Pod \cup {"weigh"} -> Tables]
  BY DEF TypeOK, Tables
<1>2. \A r \in Request : before'[r] <= notified'
  BY DEF TypeOK
<1>3. WaitsForReason'
  BY <1>1 DEF WaitsForReason, ComesForReason, TypeOK
<1>4. ComesForReason'
  BY DEF ComesForReason, TypeOK
<1>5. StaysFilled'
  BY DEF StaysFilled, TypeOK
<1> QED
  BY <1>1, <1>2, <1>3, <1>4, <1>5

LEMMA InvResolveAgain == ASSUME Inv, NEW q \in Request, ResolveAgain(q) PROVE Inv'
<1> USE ColdStartAssumption, TableFields DEF Inv, ResolveAgain, Answered, Go, tableVars
<1>1. TypeOK' /\ snapshot' \in [Pod \cup {"weigh"} -> Tables]
  BY DEF TypeOK, Tables
<1>2. \A r \in Request : before'[r] <= notified'
  BY DEF TypeOK
<1>3. WaitsForReason'
  BY <1>1 DEF WaitsForReason, ComesForReason, TypeOK
<1>4. ComesForReason'
  BY DEF ComesForReason, TypeOK
<1>5. StaysFilled'
  BY DEF StaysFilled, TypeOK
<1> QED
  BY <1>1, <1>2, <1>3, <1>4, <1>5

LEMMA InvLeave == ASSUME Inv, NEW q \in Request, Leave(q) PROVE Inv'
<1> USE ColdStartAssumption, TableFields DEF Inv, Leave, Go, tableVars
<1>1. TypeOK' /\ snapshot' \in [Pod \cup {"weigh"} -> Tables]
  BY DEF TypeOK, Tables
<1>2. \A r \in Request : before'[r] <= notified'
  BY DEF TypeOK
<1>3. WaitsForReason'
  BY <1>1 DEF WaitsForReason, ComesForReason, TypeOK
<1>4. ComesForReason'
  BY DEF ComesForReason, TypeOK
<1>5. StaysFilled'
  BY DEF StaysFilled, TypeOK
<1> QED
  BY <1>1, <1>2, <1>3, <1>4, <1>5

LEMMA InvCallback == ASSUME Inv, NEW p \in Pod, Callback(p) PROVE Inv'
<1> USE ColdStartAssumption, TableFields DEF Inv, Callback, reqVars
<1>1. TypeOK' /\ snapshot' \in [Pod \cup {"weigh"} -> Tables]
  BY DEF TypeOK, Tables
<1>2. \A r \in Request : before'[r] <= notified'
  BY DEF TypeOK
<1>3. WaitsForReason'
  BY <1>1 DEF WaitsForReason, ComesForReason, TypeOK
<1>4. ComesForReason'
  BY DEF ComesForReason, TypeOK
<1>5. StaysFilled'
  BY DEF StaysFilled, TypeOK
<1> QED
  BY <1>1, <1>2, <1>3, <1>4, <1>5

LEMMA InvUpsertLoad == ASSUME Inv, NEW p \in Pod, UpsertLoad(p) PROVE Inv'
<1> USE ColdStartAssumption, TableFields DEF Inv, UpsertLoad, reqVars
<1>1. TypeOK' /\ snapshot' \in [Pod \cup {"weigh"} -> Tables]
  BY DEF TypeOK, Tables
<1>2. \A r \in Request : before'[r] <= notified'
  BY DEF TypeOK
<1>3. WaitsForReason'
  BY <1>1 DEF WaitsForReason, ComesForReason, TypeOK
<1>4. ComesForReason'
  BY DEF ComesForReason, TypeOK
<1>5. StaysFilled'
  BY DEF StaysFilled, TypeOK
<1> QED
  BY <1>1, <1>2, <1>3, <1>4, <1>5

LEMMA InvUpsertStore == ASSUME Inv, NEW p \in Pod, UpsertStore(p) PROVE Inv'
<1> USE ColdStartAssumption, TableFields DEF Inv, UpsertStore, Upserted, reqVars
<1>1. TypeOK' /\ snapshot' \in [Pod \cup {"weigh"} -> Tables]
  BY DEF TypeOK, Tables
<1>2. \A r \in Request : before'[r] <= notified'
  BY DEF TypeOK
<1>3. WaitsForReason'
  BY <1>1 DEF WaitsForReason, ComesForReason, TypeOK
<1>4. ComesForReason'
  BY DEF ComesForReason, TypeOK
<1>5. StaysFilled'
  <2>1. table'.pods # {}
    OBVIOUS
  <2>2. UNCHANGED <<weigh, snapshot, pc, answer, reloads>>
    OBVIOUS
  <2> QED
    BY <2>1, <2>2 DEF StaysFilled, TypeOK
<1> QED
  BY <1>1, <1>2, <1>3, <1>4, <1>5

LEMMA InvNotifyReady == ASSUME Inv, NEW p \in Pod, NotifyReady(p) PROVE Inv'
<1> USE ColdStartAssumption, TableFields DEF Inv, NotifyReady, Woken
<1>1. TypeOK' /\ snapshot' \in [Pod \cup {"weigh"} -> Tables]
  BY DEF TypeOK, Tables
<1>2. \A r \in Request : before'[r] <= notified'
  BY DEF TypeOK
<1>3. WaitsForReason'
  BY <1>1 DEF WaitsForReason, ComesForReason, TypeOK
<1>4. ComesForReason'
  BY DEF ComesForReason, TypeOK
<1>5. StaysFilled'
  BY DEF StaysFilled, TypeOK
<1> QED
  BY <1>1, <1>2, <1>3, <1>4, <1>5

LEMMA InvWeightLoad == ASSUME Inv, WeightLoad PROVE Inv'
<1> USE ColdStartAssumption, TableFields DEF Inv, WeightLoad, reqVars
<1>1. TypeOK' /\ snapshot' \in [Pod \cup {"weigh"} -> Tables]
  BY DEF TypeOK, Tables
<1>2. \A r \in Request : before'[r] <= notified'
  BY DEF TypeOK
<1>3. WaitsForReason'
  BY <1>1 DEF WaitsForReason, ComesForReason, TypeOK
<1>4. ComesForReason'
  BY DEF ComesForReason, TypeOK
<1>5. StaysFilled'
  BY DEF StaysFilled, TypeOK
<1> QED
  BY <1>1, <1>2, <1>3, <1>4, <1>5

LEMMA InvWeightStore == ASSUME Inv, WeightStore PROVE Inv'
<1> USE ColdStartAssumption, TableFields DEF Inv, WeightStore, Fills, reqVars
<1>1. TypeOK' /\ snapshot' \in [Pod \cup {"weigh"} -> Tables]
  BY DEF TypeOK, Tables
<1>2. \A r \in Request : before'[r] <= notified'
  BY DEF TypeOK
<1>3. WaitsForReason'
  BY <1>1 DEF WaitsForReason, ComesForReason, TypeOK
<1>4. ComesForReason'
  BY DEF ComesForReason, TypeOK
<1>5. StaysFilled'
  BY DEF StaysFilled, TypeOK
<1> QED
  BY <1>1, <1>2, <1>3, <1>4, <1>5

LEMMA InvReload == ASSUME Inv, Reload PROVE Inv'
<1> USE ColdStartAssumption, TableFields DEF Inv, Reload, Fills, reqVars
<1>1. TypeOK' /\ snapshot' \in [Pod \cup {"weigh"} -> Tables]
  BY DEF TypeOK, Tables
<1>2. \A r \in Request : before'[r] <= notified'
  BY DEF TypeOK
<1>3. WaitsForReason'
  BY <1>1 DEF WaitsForReason, ComesForReason, TypeOK
<1>4. ComesForReason'
  BY DEF ComesForReason, TypeOK
<1>5. StaysFilled'
  BY DEF StaysFilled, TypeOK
<1> QED
  BY <1>1, <1>2, <1>3, <1>4, <1>5

LEMMA InvWarmup == ASSUME Inv, Warmup PROVE Inv'
<1> USE ColdStartAssumption, TableFields DEF Inv, Warmup, tableVars, reqVars
<1>1. TypeOK' /\ snapshot' \in [Pod \cup {"weigh"} -> Tables]
  BY DEF TypeOK, Tables
<1>2. \A r \in Request : before'[r] <= notified'
  BY DEF TypeOK
<1>3. WaitsForReason'
  BY <1>1 DEF WaitsForReason, ComesForReason, TypeOK
<1>4. ComesForReason'
  BY DEF ComesForReason, TypeOK
<1>5. StaysFilled'
  BY DEF StaysFilled, TypeOK
<1> QED
  BY <1>1, <1>2, <1>3, <1>4, <1>5

LEMMA InvStep == Inv /\ [Next]_vars => Inv'
<1> SUFFICES ASSUME Inv, [Next]_vars PROVE Inv'
  OBVIOUS
<1>1. CASE UNCHANGED vars
  BY <1>1 DEF vars, tableVars, reqVars, Inv, TypeOK, WaitsForReason, ComesForReason, StaysFilled
<1> QED
  BY <1>1, InvResolve, InvRegister, InvTimeOut, InvResolveAgain, InvLeave, InvCallback,
     InvUpsertLoad, InvUpsertStore, InvNotifyReady, InvWeightLoad, InvWeightStore, InvReload,
     InvWarmup DEF Next, Handle, Ready

\* However many requests wait and pods come: one that waits beside a filled pool
\* has its reason.  (resolve_with_cold_start, notify_ready)
THEOREM AlwaysWaitsForReason == Spec => []WaitsForReason
<1>1. Inv => WaitsForReason
  BY DEF Inv
<1> QED
  BY <1>1, InvInit, InvStep, PTL DEF Spec

\* However the writers of the table lose each other's updates: without a new file
\* no woken request finds the pool empty.  (model_ready_handler, update_weight)
THEOREM WokenAlwaysRouted == Spec => []WokenIsRouted
<1>1. Inv => WokenIsRouted
  BY DEF Inv, StaysFilled, WokenIsRouted, TypeOK
<1> QED
  BY <1>1, InvInit, InvStep, PTL DEF Spec
=============================================================================
