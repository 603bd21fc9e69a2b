--------------------------- MODULE AuthCacheProofs ---------------------------
(***************************************************************************)
(* Key authentication proved for any requests and gateway instances.  Inv  *)
(* is inductive: it says who holds an instance's in-flight entry and whom  *)
(* a waiting request waits for (Entries), what a request may have learned  *)
(* at each point (Learned), and how far a revocation is (Revoking).  The   *)
(* four safety invariants of the module follow.                            *)
(***************************************************************************)
EXTENDS AuthCache, TLAPS

\* An in-flight entry is one request's, of that instance, that asks or was
\* dropped while it did; and whoever asks has the entry.
Entries ==
  /\ \A g \in Gateway : \A w \in inflight[g] :
       inflight[g] = {w} /\ at[w] = g /\ pc[w] \in {"call", "record", "release", "gone"}
  /\ \A q \in Request : Asking(q) => inflight[at[q]] = {q}

\* A request waits for one that asks, or did.
Waits ==
  /\ \A q \in Request : \A w \in asker[q] :
       /\ asker[q] = {w}
       /\ pc[w] \in {"call", "record", "release", "notify", "store", "negative", "done", "gone"}
  /\ \A q \in Request : pc[q] \in {"cloned", "waiting", "reread"} => asker[q] # {}

\* What a request has learned where it is, and that it was not told before.
Learned ==
  \A q \in Request :
    /\ pc[q] \in {"new", "entry", "cloned", "waiting", "call"} => result[q] = "none"
    /\ pc[q] = "store" => result[q] = "active"
    /\ pc[q] = "negative" => result[q] = "absent"
    /\ answer[q] = "invalid" => pc[q] = "done"

\* Only a waiter takes a refusal for a key that was active when it was sent.
Misjudged ==
  /\ since # {} => key # "absent"
  /\ \A q \in since : result[q] = "absent" \/ answer[q] = "invalid" => asker[q] # {}

\* A deletion follows the row's revocation; after a quiet one nobody carries
\* the answer "active" and nobody can learn it again.
Revoking ==
  /\ key = "revoked" <=> revoke # "idle"
  /\ inbox # {} => revoke = "done"
  /\ deleted # "no" => key = "revoked"
  /\ deleted = "quiet" => cache # "active" /\ \A q \in Request : ~ Carries(q)

Inv == TypeOK /\ Entries /\ Waits /\ WaitersWoken /\ Learned /\ Misjudged /\ Revoking

LEMMA InvInit == Init => Inv
  BY DEF Init, Inv, TypeOK, Awaiting, Entries, Waits, WaitersWoken, Learned, Misjudged, Revoking,
     Asking, Carries

-----------------------------------------------------------------------------
(* A request's steps: each conjunct in turn *)

LEMMA InvLookup == ASSUME Inv, NEW q \in Request, Lookup(q) PROVE Inv'
<1> USE DEF Inv, TypeOK, Awaiting, Lookup, Go, Leave, Reply, CachedVerdict, keyVars, subVars
<1>1. TypeOK'
  OBVIOUS
<1>2. Entries'
  BY DEF Entries, Asking
<1>3. Waits'
  BY DEF Waits, Entries
<1>4. WaitersWoken'
  BY DEF Waits, WaitersWoken, HasWoken
<1>5. Learned'
  BY DEF Learned
<1>6. Misjudged'
  BY DEF Misjudged, Learned, Waits
<1>7. Revoking'
  BY DEF Revoking, Carries, Learned
<1> QED
  BY <1>1, <1>2, <1>3, <1>4, <1>5, <1>6, <1>7

LEMMA InvEnter == ASSUME Inv, NEW q \in Request, Enter(q) PROVE Inv'
<1> USE DEF Inv, TypeOK, Awaiting, Enter, Go, MayAsk, keyVars, subVars, history
<1>1. TypeOK'
  OBVIOUS
<1>2. Entries'
  BY DEF Entries, Asking
<1>3. Waits'
  BY DEF Waits, Entries
<1>4. WaitersWoken'
  BY DEF Waits, WaitersWoken, HasWoken
<1>5. Learned'
  BY DEF Learned
<1>6. Misjudged'
  BY DEF Misjudged, Learned, Waits
<1>7. Revoking'
  BY DEF Revoking, Carries, Learned
<1> QED
  BY <1>1, <1>2, <1>3, <1>4, <1>5, <1>6, <1>7

LEMMA InvBeginWait == ASSUME Inv, NEW q \in Request, BeginWait(q) PROVE Inv'
<1> USE DEF Inv, TypeOK, Awaiting, BeginWait, Go, HasWoken, keyVars, subVars
<1>1. TypeOK'
  OBVIOUS
<1>2. Entries'
  BY DEF Entries, Asking
<1>3. Waits'
  BY DEF Waits, Entries
<1>4. WaitersWoken'
  BY DEF Waits, WaitersWoken, HasWoken
<1>5. Learned'
  BY DEF Learned
<1>6. Misjudged'
  BY DEF Misjudged, Learned, Waits
<1>7. Revoking'
  BY DEF Revoking, Carries, Learned
<1> QED
  BY <1>1, <1>2, <1>3, <1>4, <1>5, <1>6, <1>7

LEMMA InvCallAuthService == ASSUME Inv, NEW q \in Request, CallAuthService(q) PROVE Inv'
<1> USE DEF Inv, TypeOK, Awaiting, CallAuthService, Go, Validated, keyVars, subVars, history
<1>1. TypeOK'
  OBVIOUS
<1>2. Entries'
  BY DEF Entries, Asking
<1>3. Waits'
  BY DEF Waits, Entries
<1>4. WaitersWoken'
  BY DEF Waits, WaitersWoken, HasWoken
<1>5. Learned'
  BY DEF Learned
<1>6. Misjudged'
  BY DEF Misjudged, Learned, Waits
<1>7. Revoking'
  BY DEF Revoking, Carries, Learned
<1> QED
  BY <1>1, <1>2, <1>3, <1>4, <1>5, <1>6, <1>7

LEMMA InvRecord == ASSUME Inv, NEW q \in Request, Record(q) PROVE Inv'
<1> USE DEF Inv, TypeOK, Awaiting, Record, Go, CacheEntry, keyVars, subVars, history
<1>1. TypeOK'
  OBVIOUS
<1>2. Entries'
  BY DEF Entries, Asking
<1>3. Waits'
  BY DEF Waits, Entries
<1>4. WaitersWoken'
  BY DEF Waits, WaitersWoken, HasWoken
<1>5. Learned'
  BY DEF Learned
<1>6. Misjudged'
  BY DEF Misjudged, Learned, Waits
<1>7. Revoking'
  BY DEF Revoking, Carries, Learned
<1> QED
  BY <1>1, <1>2, <1>3, <1>4, <1>5, <1>6, <1>7

LEMMA InvRelease == ASSUME Inv, NEW q \in Request, Release(q) PROVE Inv'
<1> USE DEF Inv, TypeOK, Awaiting, Release, Go, keyVars, subVars, history
<1>1. TypeOK'
  OBVIOUS
<1>2. Entries'
  BY DEF Entries, Asking
<1>3. Waits'
  BY DEF Waits, Entries
<1>4. WaitersWoken'
  BY DEF Waits, WaitersWoken, HasWoken
<1>5. Learned'
  BY DEF Learned
<1>6. Misjudged'
  BY DEF Misjudged, Learned, Waits
<1>7. Revoking'
  BY DEF Revoking, Carries, Learned
<1> QED
  BY <1>1, <1>2, <1>3, <1>4, <1>5, <1>6, <1>7

LEMMA InvNotifyWaiters == ASSUME Inv, NEW q \in Request, NotifyWaiters(q) PROVE Inv'
<1> USE DEF Inv, TypeOK, Awaiting, NotifyWaiters, Woken, keyVars, subVars, history
<1>1. TypeOK'
  OBVIOUS
<1>2. Entries'
  BY DEF Entries, Asking
<1>3. Waits'
  BY DEF Waits, Entries
<1>4. WaitersWoken'
  BY DEF Waits, WaitersWoken, HasWoken
<1>5. Learned'
  BY DEF Learned
<1>6. Misjudged'
  BY DEF Misjudged, Learned, Waits
<1>7. Revoking'
  BY DEF Revoking, Carries, Learned
<1> QED
  BY <1>1, <1>2, <1>3, <1>4, <1>5, <1>6, <1>7

LEMMA InvReread == ASSUME Inv, NEW q \in Request, Reread(q) PROVE Inv'
<1> USE DEF Inv, TypeOK, Awaiting, Reread, Go, keyVars, subVars, history
<1>1. TypeOK'
  OBVIOUS
<1>2. Entries'
  BY DEF Entries, Asking
<1>3. Waits'
  BY DEF Waits, Entries
<1>4. WaitersWoken'
  BY DEF Waits, WaitersWoken, HasWoken
<1>5. Learned'
  BY DEF Learned
<1>6. Misjudged'
  BY DEF Misjudged, Learned, Waits
<1>7. Revoking'
  BY DEF Revoking, Carries, Learned
<1> QED
  BY <1>1, <1>2, <1>3, <1>4, <1>5, <1>6, <1>7

LEMMA InvStoreAndAdmit == ASSUME Inv, NEW q \in Request, StoreAndAdmit(q) PROVE Inv'
<1> USE DEF Inv, TypeOK, Awaiting, StoreAndAdmit, Go, Leave, Reply, keyVars, subVars, history
<1>1. TypeOK'
  OBVIOUS
<1>2. Entries'
  BY DEF Entries, Asking
<1>3. Waits'
  BY DEF Waits, Entries
<1>4. WaitersWoken'
  BY DEF Waits, WaitersWoken, HasWoken
<1>5. Learned'
  BY DEF Learned
<1>6. Misjudged'
  BY DEF Misjudged, Learned, Waits
<1>7. Revoking'
  BY DEF Revoking, Carries, Learned
<1> QED
  BY <1>1, <1>2, <1>3, <1>4, <1>5, <1>6, <1>7

LEMMA InvStoreAndRefuse == ASSUME Inv, NEW q \in Request, StoreAndRefuse(q) PROVE Inv'
<1> USE DEF Inv, TypeOK, Awaiting, StoreAndRefuse, Go, Leave, Reply, keyVars, subVars, history
<1>1. TypeOK'
  OBVIOUS
<1>2. Entries'
  BY DEF Entries, Asking
<1>3. Waits'
  BY DEF Waits, Entries
<1>4. WaitersWoken'
  BY DEF Waits, WaitersWoken, HasWoken
<1>5. Learned'
  BY DEF Learned
<1>6. Misjudged'
  BY DEF Misjudged, Learned, Waits
<1>7. Revoking'
  BY DEF Revoking, Carries, Learned
<1> QED
  BY <1>1, <1>2, <1>3, <1>4, <1>5, <1>6, <1>7

LEMMA InvRedisError == ASSUME Inv, NEW q \in Request, RedisError(q) PROVE Inv'
<1> USE DEF Inv, TypeOK, Awaiting, RedisError, Go, Leave, Reply, keyVars, subVars, history
<1>1. TypeOK'
  OBVIOUS
<1>2. Entries'
  BY DEF Entries, Asking
<1>3. Waits'
  BY DEF Waits, Entries
<1>4. WaitersWoken'
  BY DEF Waits, WaitersWoken, HasWoken
<1>5. Learned'
  BY DEF Learned
<1>6. Misjudged'
  BY DEF Misjudged, Learned, Waits
<1>7. Revoking'
  BY DEF Revoking, Carries, Learned
<1> QED
  BY <1>1, <1>2, <1>3, <1>4, <1>5, <1>6, <1>7

LEMMA InvHangup == ASSUME Inv, NEW q \in Request, Hangup(q) PROVE Inv'
<1> USE DEF Inv, TypeOK, Awaiting, Hangup, Go, Leave, keyVars, subVars, history
<1>1. TypeOK'
  OBVIOUS
<1>2. Entries'
  BY DEF Entries, Asking
<1>3. Waits'
  BY DEF Waits, Entries
<1>4. WaitersWoken'
  BY DEF Waits, WaitersWoken, HasWoken
<1>5. Learned'
  BY DEF Learned
<1>6. Misjudged'
  BY DEF Misjudged, Learned, Waits
<1>7. Revoking'
  BY DEF Revoking, Carries, Learned
<1> QED
  BY <1>1, <1>2, <1>3, <1>4, <1>5, <1>6, <1>7

-----------------------------------------------------------------------------
(* The cache, the auth service and the subscribers move no request *)

LEMMA RequestsStay ==
  ASSUME Inv, UNCHANGED <<reqVars, late, since>>, key' # "absent" \/ key' = key
  PROVE  Entries' /\ Waits' /\ WaitersWoken' /\ Learned' /\ Misjudged'
  BY DEF Inv, reqVars, Entries, Waits, WaitersWoken, HasWoken, Learned, Misjudged, Asking

LEMMA InvExpire == ASSUME Inv, Expire PROVE Inv'
<1>1. UNCHANGED <<reqVars, late, since>> /\ (key' # "absent" \/ key' = key)
  BY DEF Expire, history, keyVars
<1>2. TypeOK' /\ Revoking'
  BY DEF Inv, TypeOK, Revoking, Carries, Expire, keyVars, subVars, reqVars, history
<1> QED
  BY <1>1, <1>2, RequestsStay DEF Inv

LEMMA InvCreateKey == ASSUME Inv, CreateKey PROVE Inv'
<1>1. UNCHANGED <<reqVars, late, since>> /\ (key' # "absent" \/ key' = key)
  BY DEF CreateKey, history
<1>2. TypeOK' /\ Revoking'
  BY DEF Inv, TypeOK, Revoking, Carries, CreateKey, subVars, reqVars, history
<1> QED
  BY <1>1, <1>2, RequestsStay DEF Inv

LEMMA InvRevokeKey == ASSUME Inv, RevokeKey PROVE Inv'
<1>1. UNCHANGED <<reqVars, late, since>> /\ (key' # "absent" \/ key' = key)
  BY DEF RevokeKey, history
<1>2. TypeOK' /\ Revoking'
  BY DEF Inv, TypeOK, Revoking, Carries, RevokeKey, subVars, reqVars, history
<1> QED
  BY <1>1, <1>2, RequestsStay DEF Inv

LEMMA InvRevokeDelete == ASSUME Inv, RevokeDelete PROVE Inv'
<1>1. UNCHANGED <<reqVars, late, since>> /\ (key' # "absent" \/ key' = key)
  BY DEF RevokeDelete, history
<1>2. TypeOK' /\ Revoking'
  BY DEF Inv, TypeOK, Revoking, Carries, RevokeDelete, Delete, CacheAfterDel, subVars, reqVars
<1> QED
  BY <1>1, <1>2, RequestsStay DEF Inv

LEMMA InvRevokePublish == ASSUME Inv, RevokePublish PROVE Inv'
<1>1. UNCHANGED <<reqVars, late, since>> /\ (key' # "absent" \/ key' = key)
  BY DEF RevokePublish, history
<1>2. TypeOK' /\ Revoking'
  BY DEF Inv, TypeOK, Revoking, Carries, RevokePublish, reqVars, history
<1> QED
  BY <1>1, <1>2, RequestsStay DEF Inv

LEMMA InvSubscribe == ASSUME Inv, NEW g \in Gateway, Subscribe(g) PROVE Inv'
<1>1. UNCHANGED <<reqVars, late, since>> /\ (key' # "absent" \/ key' = key)
  BY DEF Subscribe, history, keyVars
<1>2. TypeOK' /\ Revoking'
  BY DEF Inv, TypeOK, Revoking, Carries, Subscribe, keyVars, reqVars, history
<1> QED
  BY <1>1, <1>2, RequestsStay DEF Inv

LEMMA InvLoseConnection == ASSUME Inv, NEW g \in Gateway, LoseConnection(g) PROVE Inv'
<1>1. UNCHANGED <<reqVars, late, since>> /\ (key' # "absent" \/ key' = key)
  BY DEF LoseConnection, history, keyVars
<1>2. TypeOK' /\ Revoking'
  BY DEF Inv, TypeOK, Revoking, Carries, LoseConnection, keyVars, reqVars, history
<1> QED
  BY <1>1, <1>2, RequestsStay DEF Inv

LEMMA InvOnMessage == ASSUME Inv, NEW g \in Gateway, OnMessage(g) PROVE Inv'
<1>1. UNCHANGED <<reqVars, late, since>> /\ (key' # "absent" \/ key' = key)
  BY DEF OnMessage, history, keyVars
<1>2. TypeOK' /\ Revoking'
  BY DEF Inv, TypeOK, Revoking, Carries, OnMessage, Delete, CacheAfterDel, keyVars, reqVars
<1> QED
  BY <1>1, <1>2, RequestsStay DEF Inv

-----------------------------------------------------------------------------
LEMMA InvStep == Inv /\ [Next]_vars => Inv'
<1> SUFFICES ASSUME Inv, [Next]_vars PROVE Inv'
  OBVIOUS
<1>1. CASE UNCHANGED vars
  <2>1. UNCHANGED <<reqVars, late, since>> /\ key' = key /\ TypeOK' /\ Revoking'
    BY <1>1 DEF vars, keyVars, subVars, reqVars, history, Inv, TypeOK, Revoking, Carries
  <2> QED
    BY <2>1, RequestsStay DEF Inv
<1>2. ASSUME NEW q \in Request, Handle(q) PROVE Inv'
  BY <1>2, InvLookup, InvEnter, InvBeginWait, InvCallAuthService, InvRecord, InvRelease,
     InvNotifyWaiters, InvReread, InvStoreAndAdmit, InvStoreAndRefuse DEF Handle
<1> QED
  BY <1>1, <1>2, InvRedisError, InvHangup, InvExpire, InvCreateKey, InvRevokeKey,
     InvRevokeDelete, InvRevokePublish, InvSubscribe, InvLoseConnection, InvOnMessage DEF Next

LEMMA InvAlways == Spec => []Inv
  BY InvInit, InvStep, PTL DEF Spec

-----------------------------------------------------------------------------
\* However many requests miss the cache at once, and however many instances: each
\* asks the auth service once at a time.  (get_or_wait_for_auth_service)
THEOREM OneCallAlways == Spec => []OneCallPerInstance
<1>1. Inv => OneCallPerInstance
  BY DEF Inv, Entries, OneCallPerInstance
<1> QED
  BY <1>1, InvAlways, PTL

\* For any requests: only who waited for another one's answer is refused although
\* the key was active all along.  (authenticate)
THEOREM OnlyWaitersAlwaysMisjudged == Spec => []OnlyWaitersMisjudged
<1>1. Inv => OnlyWaitersMisjudged
  BY DEF Inv, Misjudged, OnlyWaitersMisjudged
<1> QED
  BY <1>1, InvAlways, PTL

\* However many wait: none that waited in time stays behind its asker's wake-up.
\* (get_or_wait_for_auth_service, notify_waiters)
THEOREM WaitersAlwaysWoken == Spec => []WaitersWoken
<1>1. Inv => WaitersWoken
  BY DEF Inv
<1> QED
  BY <1>1, InvAlways, PTL

\* For any requests, instances, hangups and failures: a deletion that no request
\* raced keeps the key out of the cache for good.  (revocation.rs, validate_key)
THEOREM RevocationAlwaysHolds == Spec => []RevocationHolds
<1>1. Inv => RevocationHolds
  BY DEF Inv, Revoking, RevocationHolds
<1> QED
  BY <1>1, InvAlways, PTL
=============================================================================
