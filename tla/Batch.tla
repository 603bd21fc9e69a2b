-------------------------------- MODULE Batch --------------------------------
(***************************************************************************)
(* gateway/src/batch.rs: batch windows shared by several gateway           *)
(* instances.  The first request for a model takes a lease in Redis; its   *)
(* instance collects the requests of the window, those of the other        *)
(* instances too, which they forward to it, and sends them on when the     *)
(* window closes.  One model; the lease, the slots and the timers are per  *)
(* model in the code.  Every action ends at an await.                      *)
(***************************************************************************)
EXTENDS Naturals, Sequences, FiniteSets

CONSTANTS Request,     \* requests for the model, each sent once
          Instance,    \* gateway instances
          Faults,      \* Redis commands may fail
          MaxHops,     \* bound: instances a request is handed to
          MaxCrashes   \* bound: instance restarts

ASSUME BatchAssumption ==
  Faults \in BOOLEAN /\ MaxHops \in Nat \ {0} /\ MaxCrashes \in Nat

VARIABLES lease,     \* owner of the model's window in Redis ({} if none)
          slot,      \* requests in each instance's open window
          timer,     \* flush tasks sleeping at each instance
          drained,   \* flush tasks between draining the slot and DEL
          path,      \* instances each request was handed to, first to last
          pc,        \* where each request is at the last of them
          answer,    \* what its caller got
          runs,      \* history: times the request was sent to a pod
          lost,      \* history: requests that a restart dropped
          crashes

vars == <<lease, slot, timer, drained, path, pc, answer, runs, lost, crashes>>

Init ==
  /\ lease = {}
  /\ slot = [i \in Instance |-> {}]
  /\ timer = [i \in Instance |-> 0]
  /\ drained = [i \in Instance |-> {}]
  /\ path = [q \in Request |-> <<>>]
  /\ pc = [q \in Request |-> "new"]
  /\ answer = [q \in Request |-> "none"]
  /\ runs = [q \in Request |-> 0]
  /\ lost = {} /\ crashes = 0

Here(q) == path[q][Len(path[q])]
Go(q, from, to) == pc[q] = from /\ pc' = [pc EXCEPT ![q] = to]

-----------------------------------------------------------------------------
(* enqueue, from a client or from handle_internal_enqueue *)

Arrive(q, i) ==
  /\ Go(q, "new", "lease")
  /\ path' = [path EXCEPT ![q] = <<i>>]
  /\ UNCHANGED <<lease, slot, timer, drained, answer, runs, lost, crashes>>

\* acquire_lease: SET NX.  Without Redis the request is handled here.
TakeLease(q) ==
  /\ \/ /\ Go(q, "lease", "enqueue")
        /\ \/ lease = {} /\ lease' = {Here(q)}
           \/ Faults /\ UNCHANGED lease
     \/ /\ Go(q, "lease", "owner")
        /\ lease # {} /\ UNCHANGED lease
  /\ UNCHANGED <<slot, timer, drained, path, answer, runs, lost, crashes>>

\* What GET makes of the owner: this instance when the lease has gone meanwhile
\* or Redis fails.
OwnerSeen(q) == (IF lease = {} THEN {Here(q)} ELSE lease)
                  \cup (IF Faults THEN {Here(q)} ELSE {})

\* A request somebody else's window should take is forwarded, and starts over
\* there.
ReadOwner(q) ==
  /\ pc[q] = "owner"
  /\ \E j \in OwnerSeen(q) :
       \/ j = Here(q) /\ Go(q, "owner", "enqueue") /\ UNCHANGED path
       \/ /\ j # Here(q) /\ Len(path[q]) < MaxHops
          /\ path' = [path EXCEPT ![q] = Append(@, j)]
          /\ Go(q, "owner", "lease")
  /\ UNCHANGED <<lease, slot, timer, drained, answer, runs, lost, crashes>>

\* The first request of a window starts its timer.
\* (mutant: a new lease starts it)
OpensWindow_NewLease(i) == lease = {}
OpensWindow(i) == slot[i] = {}

Enqueue(q) ==
  /\ Go(q, "enqueue", "queued")
  /\ LET i == Here(q)
     IN  /\ slot' = [slot EXCEPT ![i] = @ \cup {q}]
         /\ timer' = [timer EXCEPT ![i] = @ + (IF OpensWindow(i) THEN 1 ELSE 0)]
  /\ UNCHANGED <<lease, drained, path, answer, runs, lost, crashes>>

-----------------------------------------------------------------------------
(* flush *)

\* (mutant: the requests stay in the slot)
SlotAfterDrain_Same(i) == slot[i]
SlotAfterDrain(i) == {}

Drain(i) ==
  /\ timer[i] > 0 /\ timer' = [timer EXCEPT ![i] = @ - 1]
  /\ slot' = [slot EXCEPT ![i] = SlotAfterDrain(i)]
  /\ drained' = [drained EXCEPT ![i] = @ \cup {slot[i]}]
  /\ UNCHANGED <<lease, path, pc, answer, runs, lost, crashes>>

\* DEL of the lease, whoever holds it, then the drained requests are sent on.
\* (mutant: a request nobody waits for any more is skipped)
SentOn_Awaited(S) == {q \in S : answer[q] = "none"}
SentOn(S) == S

ReleaseLease(i, S) ==
  /\ S \in drained[i] /\ drained' = [drained EXCEPT ![i] = @ \ {S}]
  /\ lease' \in {{}} \cup (IF Faults THEN {lease} ELSE {})
  /\ runs' = [q \in Request |-> runs[q] + (IF q \in SentOn(S) THEN 1 ELSE 0)]
  /\ pc' = [q \in Request |-> IF q \in SentOn(S) THEN "sent" ELSE pc[q]]
  /\ UNCHANGED <<slot, timer, path, answer, lost, crashes>>

\* The pod's answer goes back along the path, if anybody waits for it.
Respond(q) ==
  /\ Go(q, "sent", "done")
  /\ answer' = [answer EXCEPT ![q] = IF @ = "none" THEN "response" ELSE @]
  /\ UNCHANGED <<lease, slot, timer, drained, path, runs, lost, crashes>>

-----------------------------------------------------------------------------
(* What goes wrong *)

\* The caller goes away, or the forwarding instance's 120 s are over.  Handlers
\* not yet waiting for a window are dropped, some time; a queued request goes on.
GiveUp(q) ==
  /\ answer[q] = "none" /\ pc[q] \notin {"new", "done"}
  /\ answer' = [answer EXCEPT ![q] = "gave_up"]
  /\ \/ UNCHANGED pc
     \/ pc[q] \in {"lease", "owner", "enqueue"} /\ pc' = [pc EXCEPT ![q] = "done"]
  /\ UNCHANGED <<lease, slot, timer, drained, path, runs, lost, crashes>>

LeaseExpires ==
  /\ lease # {} /\ lease' = {}
  /\ UNCHANGED <<slot, timer, drained, path, pc, answer, runs, lost, crashes>>

\* A restart drops the window and every request handled there; a request that
\* was forwarded from there goes on at its owner with nobody to answer.
Crash(i) ==
  /\ crashes < MaxCrashes /\ crashes' = crashes + 1
  /\ slot' = [slot EXCEPT ![i] = {}]
  /\ timer' = [timer EXCEPT ![i] = 0]
  /\ drained' = [drained EXCEPT ![i] = {}]
  /\ LET touched == {q \in Request : \E n \in 1 .. Len(path[q]) : path[q][n] = i}
         dropped == {q \in touched : Here(q) = i /\ pc[q] # "done"}
     IN  /\ pc' = [q \in Request |->
                     IF q \in dropped \/ (q \in touched /\ pc[q] \in {"lease", "owner", "enqueue"})
                     THEN "done" ELSE pc[q]]
         /\ answer' = [q \in Request |->
                         IF q \in touched /\ answer[q] = "none" THEN "error" ELSE answer[q]]
         /\ lost' = lost \cup dropped
  /\ UNCHANGED <<lease, path, runs>>

-----------------------------------------------------------------------------
Handle(q) == TakeLease(q) \/ ReadOwner(q) \/ Enqueue(q) \/ Respond(q)
Flush(i) == Drain(i) \/ \E S \in drained[i] : ReleaseLease(i, S)

Next ==
  \/ \E q \in Request : (\E i \in Instance : Arrive(q, i)) \/ Handle(q) \/ GiveUp(q)
  \/ \E i \in Instance : Flush(i) \/ Crash(i)
  \/ LeaseExpires

\* The runtime lets a flush task sleep, wake and go on.
Fairness == \A i \in Instance : WF_vars(Flush(i))

Spec == Init /\ [][Next]_vars
FairSpec == Spec /\ Fairness

-----------------------------------------------------------------------------
\* Type invariant.
TypeOK ==
  /\ lease \in SUBSET Instance /\ Cardinality(lease) <= 1
  /\ slot \in [Instance -> SUBSET Request] /\ timer \in [Instance -> Nat]
  /\ drained \in [Instance -> SUBSET SUBSET Request]
  /\ path \in [Request -> Seq(Instance)]
  /\ pc \in [Request -> {"new", "lease", "owner", "enqueue", "queued", "sent", "done"}]
  /\ answer \in [Request -> {"none", "response", "gave_up", "error"}]
  /\ runs \in [Request -> Nat] /\ lost \in SUBSET Request /\ crashes \in Nat

\* An open window has exactly one flush task that will close it, and a closed
\* one has none, whatever leases expire or are deleted under it: no request
\* waits in a slot nobody drains, and no window is cut short by the timer of an
\* earlier one.
OneTimerPerWindow ==
  \A i \in Instance : timer[i] = IF slot[i] # {} THEN 1 ELSE 0

\* Through forwarding, lost leases and restarts a request is in one window at
\* most and goes to a pod once at most.
SentOnce ==
  /\ TypeOK
  /\ \A q \in Request :
       /\ runs[q] + Cardinality({i \in Instance : q \in slot[i]})
            + Cardinality({i \in Instance : q \in UNION drained[i]}) <= 1
       /\ answer[q] = "response" => runs[q] = 1

\* A request that got into a window is sent to a pod, unless the instance that
\* holds it restarts.
QueuedIsSent ==
  \A q \in Request : pc[q] = "queued" ~> runs[q] = 1 \/ q \in lost
=============================================================================
