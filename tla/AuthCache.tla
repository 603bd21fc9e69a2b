------------------------------ MODULE AuthCache ------------------------------
(***************************************************************************)
(* gateway/src/middleware/auth.rs and gateway/src/revocation.rs with       *)
(* auth-service's validate_key and key revocation: how one API key is      *)
(* authenticated by several gateway instances over a shared Redis cache.   *)
(*                                                                         *)
(* A request that misses the cache asks the auth service, unless another   *)
(* request of its instance is already asking: then it waits to be woken    *)
(* and reads the cache again.  A revocation updates the database, deletes  *)
(* the cache entry and tells the instances, which delete it again.         *)
(* Everything between two awaits is one action.                            *)
(***************************************************************************)
EXTENDS Naturals, FiniteSets

CONSTANTS Request,   \* requests with the key, each sent once
          Gateway,   \* gateway instances
          Hangups,   \* callers may go away while their request is handled
          Faults     \* Redis and the auth service may fail

ASSUME AuthAssumption == Hangups \in BOOLEAN /\ Faults \in BOOLEAN

VARIABLES key,            \* the key's row in the database
          cache,          \* what Redis holds for the key
          revoke,         \* where the revocation is
          sub,            \* instances whose subscriber listens
          inbox,          \* instances with an undelivered revocation message
          inflight,       \* the request that asks, per instance ({} if none)
          at,             \* instance of each request
          pc,             \* where each request is
          result,         \* what it learned about the key
          asker,          \* whose answer it waits for ({} if it does not)
          answer,         \* what the caller was told
          late,           \* history: began to wait after the wake-up
          since,          \* history: requests sent while the key was active
          deleted         \* history: the last deletion, and whether a request
                          \* held the answer "active" at that moment

keyVars == <<key, revoke>>
subVars == <<sub, inbox>>
reqVars == <<inflight, at, pc, result, asker, answer>>
history == <<late, since, deleted>>
vars == <<keyVars, cache, subVars, reqVars, history>>

Init ==
  /\ key \in {"absent", "active"} /\ cache = "none"
  /\ revoke = "idle" /\ sub = {} /\ inbox = {}
  /\ inflight = [g \in Gateway |-> {}]
  /\ at \in [Request -> Gateway]
  /\ pc = [q \in Request |-> "new"]
  /\ result = [q \in Request |-> "none"]
  /\ asker = [q \in Request |-> {}]
  /\ answer = [q \in Request |-> "none"]
  /\ late = {} /\ since = {} /\ deleted = "no"

Go(q, from, to) == pc[q] = from /\ pc' = [pc EXCEPT ![q] = to]

\* The handler returns, or is dropped: what it learned goes with it.
Leave(q, from, to) ==
  Go(q, from, to) /\ result' = [result EXCEPT ![q] = "none"]

Reply(q, from, verdict) ==
  /\ Leave(q, from, "done")
  /\ answer' = [answer EXCEPT ![q] = verdict]

-----------------------------------------------------------------------------
(* authenticate *)

\* get_cached_auth: a cached refusal counts as a miss.
\* (mutant: it is an answer)
CachedVerdict_Negative ==
  IF cache = "active" THEN "admitted" ELSE IF cache = "not_found" THEN "invalid" ELSE "none"
CachedVerdict == IF cache = "active" THEN "admitted" ELSE "none"

Lookup(q) ==
  /\ IF CachedVerdict = "none"
     THEN Go(q, "new", "entry") /\ UNCHANGED <<answer, result>>
     ELSE Reply(q, "new", CachedVerdict)
  /\ since' = IF key = "active" THEN since \cup {q} ELSE since
  /\ UNCHANGED <<keyVars, cache, subVars, inflight, at, asker, late, deleted>>

\* get_or_wait_for_auth_service: the first one asks, the others take hold of
\* its Notify ...
\* (mutant: the entry is not looked at)
MayAsk_Always(g) == TRUE
MayAsk(g) == inflight[g] = {}

Enter(q) ==
  /\ pc[q] = "entry"
  /\ IF MayAsk(at[q])
     THEN /\ Go(q, "entry", "call")
          /\ inflight' = [inflight EXCEPT ![at[q]] = {q}]
          /\ UNCHANGED asker
     ELSE /\ Go(q, "entry", "cloned")
          /\ asker' = [asker EXCEPT ![q] = inflight[at[q]]]
          /\ UNCHANGED inflight
  /\ UNCHANGED <<keyVars, cache, subVars, at, result, answer, history>>

\* ... and begin to wait, no longer under the entry's lock.
HasWoken(q) == pc[q] \in {"store", "negative", "done"}

BeginWait(q) ==
  /\ Go(q, "cloned", "waiting")
  /\ late' = IF \E w \in asker[q] : HasWoken(w) THEN late \cup {q} ELSE late
  /\ UNCHANGED <<keyVars, cache, subVars, inflight, at, result, asker, answer,
                 since, deleted>>

\* What validate_key makes of the row, and call_auth_service of that.
Validated == IF key = "revoked" THEN "error" ELSE key

CallAuthService(q) ==
  /\ Go(q, "call", "record")
  /\ \E res \in {Validated} \cup (IF Faults THEN {"error"} ELSE {}) :
       result' = [result EXCEPT ![q] = res]
  /\ UNCHANGED <<keyVars, cache, subVars, inflight, at, asker, answer, history>>

CacheEntry(res) == IF res = "active" THEN "active" ELSE "not_found"

\* The asker writes the cache; a failure is ignored.
Record(q) ==
  /\ Go(q, "record", "release")
  /\ \/ result[q] # "error" /\ cache' = CacheEntry(result[q])
     \/ (result[q] = "error" \/ Faults) /\ UNCHANGED cache
  /\ UNCHANGED <<keyVars, subVars, inflight, at, result, asker, answer, history>>

Release(q) ==
  /\ Go(q, "release", "notify")
  /\ inflight' = [inflight EXCEPT ![at[q]] = {}]
  /\ UNCHANGED <<keyVars, cache, subVars, at, result, asker, answer, history>>

\* notify_waiters wakes those that wait already, whatever the result was.
\* (mutant: not after an error)
Woken_OnSuccess(q) ==
  {r \in Request : result[q] # "error" /\ pc[r] = "waiting" /\ asker[r] = {q}}
Woken(q) == {r \in Request : pc[r] = "waiting" /\ asker[r] = {q}}

NotifyWaiters(q) ==
  /\ pc[q] = "notify"
  /\ pc' = [r \in Request |->
              IF r = q
              THEN CASE result[q] = "active" -> "store"
                     [] result[q] = "absent" -> "negative"
                     [] OTHER -> "done"
              ELSE IF r \in Woken(q) THEN "reread" ELSE pc[r]]
  /\ IF result[q] = "error"
     THEN /\ answer' = [answer EXCEPT ![q] = "error"]
          /\ result' = [result EXCEPT ![q] = "none"]
     ELSE UNCHANGED <<answer, result>>
  /\ UNCHANGED <<keyVars, cache, subVars, inflight, at, asker, history>>

\* A woken request takes what is in the cache now; anything else is a refusal.
Reread(q) ==
  /\ Go(q, "reread", IF cache = "active" THEN "store" ELSE "negative")
  /\ result' = [result EXCEPT ![q] = IF cache = "active" THEN "active" ELSE "absent"]
  /\ UNCHANGED <<keyVars, cache, subVars, inflight, at, asker, answer, history>>

\* authenticate writes the cache again, asker or not.
StoreAndAdmit(q) ==
  /\ Reply(q, "store", "admitted")
  /\ cache' = "active"
  /\ UNCHANGED <<keyVars, subVars, inflight, at, asker, history>>

StoreAndRefuse(q) ==
  /\ Reply(q, "negative", "invalid")
  /\ cache' = "not_found"
  /\ UNCHANGED <<keyVars, subVars, inflight, at, asker, history>>

\* A Redis error ends the request.
RedisError(q) ==
  /\ Faults /\ \E p \in {"new", "reread", "store", "negative"} : Reply(q, p, "error")
  /\ UNCHANGED <<keyVars, cache, subVars, inflight, at, asker, history>>

\* The caller goes away: the handler is dropped at the await it is in, and
\* nothing it did is undone.
Awaiting == {"call", "record", "waiting", "reread", "store", "negative"}

Hangup(q) ==
  /\ Hangups /\ \E p \in Awaiting : Leave(q, p, "gone")
  /\ UNCHANGED <<keyVars, cache, subVars, inflight, at, asker, answer, history>>

\* The entry's TTL.
Expire ==
  /\ cache # "none" /\ cache' = "none"
  /\ UNCHANGED <<keyVars, subVars, reqVars, history>>

-----------------------------------------------------------------------------
(* The auth service's /auth/keys *)

Carries(q) ==
  result[q] = "active" /\ pc[q] \in {"record", "release", "notify", "store"}

\* DEL of the entry; it may fail, and nobody looks.
\* (mutant: another key is deleted)
CacheAfterDel_Same == cache
CacheAfterDel == "none"

Delete ==
  \/ /\ cache' = CacheAfterDel
     /\ deleted' = IF \E q \in Request : Carries(q) THEN "raced" ELSE "quiet"
  \/ Faults /\ UNCHANGED <<cache, deleted>>

CreateKey ==
  /\ key = "absent" /\ key' = "active"
  /\ UNCHANGED <<revoke, cache, subVars, reqVars, history>>

RevokeKey ==
  /\ key = "active" /\ key' = "revoked"
  /\ revoke' = "delete"
  /\ UNCHANGED <<cache, subVars, reqVars, history>>

RevokeDelete ==
  /\ revoke = "delete" /\ revoke' = "publish"
  /\ Delete
  /\ UNCHANGED <<key, subVars, reqVars, late, since>>

\* PUBLISH reaches who is subscribed at this moment.  The version counter that
\* is incremented next is read by the subscribers for a log line only.
RevokePublish ==
  /\ revoke = "publish" /\ revoke' = "done"
  /\ \/ inbox' = sub
     \/ Faults /\ UNCHANGED inbox
  /\ UNCHANGED <<key, cache, sub, reqVars, history>>

-----------------------------------------------------------------------------
(* revocation.rs: the subscriber of each instance *)

\* sync_missed_revocations deletes nothing before the subscription.
Subscribe(g) ==
  /\ g \notin sub /\ sub' = sub \cup {g}
  /\ UNCHANGED <<keyVars, cache, inbox, reqVars, history>>

\* The connection ends, and what was not delivered is lost.
LoseConnection(g) ==
  /\ Faults /\ g \in sub
  /\ sub' = sub \ {g} /\ inbox' = inbox \ {g}
  /\ UNCHANGED <<keyVars, cache, reqVars, history>>

OnMessage(g) ==
  /\ g \in inbox /\ inbox' = inbox \ {g}
  /\ Delete
  /\ UNCHANGED <<keyVars, sub, reqVars, late, since>>

-----------------------------------------------------------------------------
Handle(q) ==
  \/ Lookup(q) \/ Enter(q) \/ BeginWait(q) \/ CallAuthService(q) \/ Record(q)
  \/ Release(q) \/ NotifyWaiters(q) \/ Reread(q)
  \/ StoreAndAdmit(q) \/ StoreAndRefuse(q)

Next ==
  \/ \E q \in Request : Handle(q) \/ RedisError(q) \/ Hangup(q)
  \/ Expire
  \/ CreateKey \/ RevokeKey \/ RevokeDelete \/ RevokePublish
  \/ \E g \in Gateway :
       Subscribe(g) \/ LoseConnection(g) \/ OnMessage(g)

Spec == Init /\ [][Next]_vars

-----------------------------------------------------------------------------
\* Type invariant.
TypeOK ==
  /\ key \in {"absent", "active", "revoked"}
  /\ cache \in {"none", "active", "not_found"}
  /\ revoke \in {"idle", "delete", "publish", "done"}
  /\ sub \in SUBSET Gateway /\ inbox \in SUBSET Gateway
  /\ inflight \in [Gateway -> SUBSET Request] /\ at \in [Request -> Gateway]
  /\ pc \in [Request -> {"new", "entry", "cloned", "release", "notify", "done", "gone"}
                          \cup Awaiting]
  /\ result \in [Request -> {"none", "active", "absent", "error"}]
  /\ asker \in [Request -> SUBSET Request]
  /\ answer \in [Request -> {"none", "admitted", "invalid", "error"}]
  /\ late \in SUBSET Request /\ since \in SUBSET Request
  /\ deleted \in {"no", "quiet", "raced"}

Asking(q) == pc[q] \in {"call", "record", "release"}

\* However many requests miss the cache at once, an instance asks the auth
\* service once ("atomic check-and-insert", get_or_wait_for_auth_service).
OneCallPerInstance ==
  /\ TypeOK
  /\ \A q, r \in Request : Asking(q) /\ Asking(r) /\ at[q] = at[r] => q = r

\* A request whose key was active all along is told "invalid" only if it waited
\* for another one's answer: a cached refusal alone, from before the key was
\* created, never refuses it.
OnlyWaitersMisjudged ==
  \A q \in since : answer[q] = "invalid" => asker[q] # {}

\* A request that waits before the wake-up of its asker is woken by it, also
\* when the auth service failed: it can only wait in vain behind a caller that
\* went away, or if it began to wait too late.
WaitersWoken ==
  \A q \in Request : pc[q] = "waiting" =>
    \A w \in asker[q] : HasWoken(w) => q \in late

\* A revocation that deletes the cache entry while no request has the auth
\* service's answer in hand holds at once: the key is never cached as active
\* again, whoever waits, retries or asks.
RevocationHolds ==
  deleted = "quiet" => cache # "active"
=============================================================================
