------------------------------ MODULE ColdStart ------------------------------
(***************************************************************************)
(* gateway/src/cold_start.rs with app.rs (resolve_with_cold_start, the KAI *)
(* callback, the weight and warm-up handlers), route/table.rs and          *)
(* route/watcher.rs: requests for a model whose pool is empty wait until   *)
(* KAI has provisioned a pod.                                              *)
(*                                                                         *)
(* One model.  The route table is an immutable value: a writer loads it,   *)
(* makes a new one and stores that, on any thread of the runtime, so that  *)
(* load and store are two actions.  The health of the pods only chooses    *)
(* among them (resolve_healthy falls back to all), and the count of        *)
(* waiting requests is only logged; neither is here.                       *)
(***************************************************************************)
EXTENDS Naturals, FiniteSets

CONSTANTS Request,     \* requests for the model
          Pod,         \* pods KAI may provision, one callback each
          FilePod,     \* pods the route table file may list
          MaxReloads,  \* bound: changes of the file
          MaxWeights   \* bound: weight updates

ASSUME ColdStartAssumption ==
  /\ Pod \cap FilePod = {} /\ "weigh" \notin Pod
  /\ MaxReloads \in Nat /\ MaxWeights \in Nat

VARIABLES table,      \* the model's entry in ROUTE_TABLE
          triggered,  \* KAI was asked to provision
          handler,    \* where the callback of each pod is
          weigh,      \* where the weight handler is
          snapshot,   \* the table each of these has loaded
          pc,         \* where each request is
          answer,     \* what it got
          reloads, weights,
          notified,   \* history: notify_ready calls so far
          before,     \* history: of them, those before a request found no pod
          missed,     \* history: requests that registered after such a call
          silent      \* history: the pool was filled without a notification

tableVars == <<table, handler, weigh, snapshot, reloads, weights>>
reqVars == <<pc, answer, before, missed>>
vars == <<tableVars, reqVars, triggered, notified, silent>>

Absent == [listed |-> FALSE, pods |-> {}]
Listed(S) == [listed |-> TRUE, pods |-> S]
FileTables == {Absent} \cup {Listed(S) : S \in SUBSET FilePod}

Init ==
  /\ table \in FileTables
  /\ triggered = FALSE
  /\ handler = [p \in Pod |-> "none"] /\ weigh = "none"
  /\ snapshot = [w \in Pod \cup {"weigh"} |-> Absent]
  /\ pc = [q \in Request |-> "new"] /\ answer = [q \in Request |-> "none"]
  /\ reloads = 0 /\ weights = 0
  /\ notified = 0 /\ before = [q \in Request |-> 0] /\ missed = {} /\ silent = FALSE

-----------------------------------------------------------------------------
(* resolve_with_cold_start *)

Go(q, from, to) == pc[q] = from /\ pc' = [pc EXCEPT ![q] = to]

Answered(q, from, what) ==
  Go(q, from, "done") /\ answer' = [answer EXCEPT ![q] = what]

\* An unknown model is refused, a known one without pods has KAI asked.
Resolve(q) ==
  /\ \/ ~table.listed /\ Answered(q, "new", "not_found") /\ UNCHANGED triggered
     \/ table.pods # {} /\ Answered(q, "new", "routed") /\ UNCHANGED triggered
     \/ /\ table = Listed({}) /\ Go(q, "new", "cold")
        /\ triggered' = TRUE /\ UNCHANGED answer
  /\ before' = [before EXCEPT ![q] = notified]
  /\ UNCHANGED <<tableVars, missed, notified, silent>>

\* enqueue and notified(): from here on notify_waiters reaches the request.
Register(q) ==
  /\ Go(q, "cold", "waiting")
  /\ missed' = IF notified > before[q] THEN missed \cup {q} ELSE missed
  /\ UNCHANGED <<tableVars, answer, before, triggered, notified, silent>>

\* (mutant: the timer does not run on after a first notification)
MayTimeOut_Once(q) == pc[q] = "waiting" /\ notified = 0
MayTimeOut(q) == pc[q] = "waiting"

TimeOut(q) ==
  /\ MayTimeOut(q) /\ Answered(q, "waiting", "timed_out")
  /\ UNCHANGED <<tableVars, before, missed, triggered, notified, silent>>

\* The second look-up is the last.
ResolveAgain(q) ==
  /\ Answered(q, "woken",
       IF ~table.listed THEN "not_found"
       ELSE IF table.pods = {} THEN "still_empty" ELSE "routed")
  /\ UNCHANGED <<tableVars, before, missed, triggered, notified, silent>>

\* The caller goes away while its request waits.
Leave(q) ==
  /\ Go(q, "waiting", "gone")
  /\ UNCHANGED <<tableVars, answer, before, missed, triggered, notified, silent>>

-----------------------------------------------------------------------------
(* The callback of KAI: model_ready_handler *)

\* KAI, once asked, provisions some of its pods or none.
Callback(p) ==
  /\ triggered /\ handler[p] = "none"
  /\ handler' = [handler EXCEPT ![p] = "upsert"]
  /\ UNCHANGED <<table, weigh, snapshot, reloads, weights, reqVars, triggered, notified, silent>>

UpsertLoad(p) ==
  /\ handler[p] = "upsert" /\ handler' = [handler EXCEPT ![p] = "store"]
  /\ snapshot' = [snapshot EXCEPT ![p] = table]
  /\ UNCHANGED <<table, weigh, reloads, weights, reqVars, triggered, notified, silent>>

\* (mutant: only a pod that is there already is updated)
Upserted_Existing(t, p) == Listed(t.pods)
Upserted(t, p) == Listed(t.pods \cup {p})

UpsertStore(p) ==
  /\ handler[p] = "store" /\ handler' = [handler EXCEPT ![p] = "notify"]
  /\ table' = Upserted(snapshot[p], p)
  /\ UNCHANGED <<weigh, snapshot, reloads, weights, reqVars, triggered, notified, silent>>

\* notify_ready wakes all that wait.
\* (mutant: one of them)
Woken_One ==
  LET W == {q \in Request : pc[q] = "waiting"}
  IN  IF W = {} THEN {} ELSE {CHOOSE q \in W : TRUE}
Woken == {q \in Request : pc[q] = "waiting"}

NotifyReady(p) ==
  /\ handler[p] = "notify" /\ handler' = [handler EXCEPT ![p] = "done"]
  /\ pc' = [q \in Request |-> IF q \in Woken THEN "woken" ELSE pc[q]]
  /\ notified' = notified + 1
  /\ UNCHANGED <<table, weigh, snapshot, reloads, weights, answer, before, missed,
                 triggered, silent>>

-----------------------------------------------------------------------------
(* The other writers of the table, and the warm-up *)

Fills(t) == table.pods = {} /\ t.pods # {}

\* update_weight: a new table like the one it loaded, if the pod is in that.
WeightLoad ==
  /\ weigh = "none" /\ weights < MaxWeights /\ weights' = weights + 1
  /\ table.pods # {} /\ weigh' = "store"
  /\ snapshot' = [snapshot EXCEPT !["weigh"] = table]
  /\ UNCHANGED <<table, handler, reloads, reqVars, triggered, notified, silent>>

WeightStore ==
  /\ weigh = "store" /\ weigh' = "none"
  /\ table' = snapshot["weigh"]
  /\ silent' = (silent \/ Fills(table'))
  /\ UNCHANGED <<handler, snapshot, reloads, weights, reqVars, triggered, notified>>

\* start_watcher: a new file replaces the whole table; nobody is notified.  (app.rs
\* drops what keeps the watcher going when it has started: it may happen or not.)
Reload ==
  /\ reloads < MaxReloads /\ reloads' = reloads + 1
  /\ table' \in FileTables
  /\ silent' = (silent \/ Fills(table'))
  /\ UNCHANGED <<handler, weigh, snapshot, weights, reqVars, triggered, notified>>

\* warmup_handler: KAI is asked for an unknown model too.
Warmup ==
  /\ table.pods = {} /\ ~triggered /\ triggered' = TRUE
  /\ UNCHANGED <<tableVars, reqVars, notified, silent>>

-----------------------------------------------------------------------------
Handle(q) == Resolve(q) \/ Register(q) \/ TimeOut(q) \/ ResolveAgain(q)
Ready(p) == UpsertLoad(p) \/ UpsertStore(p) \/ NotifyReady(p)

Next ==
  \/ \E q \in Request : Handle(q) \/ Leave(q)
  \/ \E p \in Pod : Callback(p) \/ Ready(p)
  \/ WeightLoad \/ WeightStore \/ Reload \/ Warmup

Spec == Init /\ [][Next]_vars

\* Handlers that can go on do, and the timeout of a waiting request runs.
Fairness == \A q \in Request : WF_vars(Register(q) \/ TimeOut(q) \/ ResolveAgain(q))
FairSpec == Spec /\ Fairness

-----------------------------------------------------------------------------
\* Type invariant.
TypeOK ==
  /\ table \in {Absent} \cup {Listed(S) : S \in SUBSET (Pod \cup FilePod)}
  /\ triggered \in BOOLEAN /\ silent \in BOOLEAN
  /\ handler \in [Pod -> {"none", "upsert", "store", "notify", "done"}]
  /\ weigh \in {"none", "store"}
  /\ pc \in [Request -> {"new", "cold", "waiting", "woken", "gone", "done"}]
  /\ answer \in [Request -> {"none", "not_found", "routed", "timed_out", "still_empty"}]
  /\ reloads \in Nat /\ weights \in Nat /\ notified \in Nat
  /\ before \in [Request -> Nat] /\ missed \in SUBSET Request

\* A request that waits although the pool has a pod is about to be woken, or it
\* registered after the notification it needed, or the pool was filled by a
\* writer that notifies nobody: however callbacks, weight updates and waiting
\* requests interleave, notify_ready itself loses nobody.
WaitsForReason ==
  /\ TypeOK
  /\ \A q \in Request :
       pc[q] = "waiting" /\ table.pods # {} =>
         q \in missed \/ silent \/ \E p \in Pod : handler[p] = "notify"

\* A woken request finds a pod: it is stored before the notification, and no
\* concurrent writer, though it may lose another one's pod, empties the pool.
\* Only a new file does.
WokenIsRouted ==
  \A q \in Request :
    \/ pc[q] = "woken" /\ table.pods = {}
    \/ answer[q] = "still_empty"
    => reloads > 0

\* Every request ends, also one that sleeps through its notification.
EveryoneAnswered ==
  \A q \in Request : pc[q] = "cold" ~> pc[q] \in {"done", "gone"}
=============================================================================
