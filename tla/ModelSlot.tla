------------------------------ MODULE ModelSlot ------------------------------
(***************************************************************************)
(* zealot/src/bin/zealot-backend.rs: the engine slot.  LoadModel,          *)
(* UnloadModel and Infer handlers run concurrently; each lock of the slot  *)
(* is one action, and everything between two locks is not protected.  A    *)
(* load spawns an engine thread (EngineActor.tla), which runs until it is  *)
(* told to shut down or until nobody can send it a command any more.       *)
(***************************************************************************)
EXTENDS Naturals, FiniteSets

CONSTANTS Load,    \* LoadModel calls; each names the engine it would create
          Unload,  \* UnloadModel calls
          Stream,  \* Infer calls
          Hangups  \* callers of LoadModel may go away while it loads

ASSUME SlotAssumption == Hangups \in BOOLEAN

VARIABLES slot,      \* EngineSlot
          load,      \* where each LoadModel call is
          unload,    \* where each UnloadModel call is
          stream,    \* where each Infer call is
          sender,    \* engines the call has a command sender of
          alive,     \* engine threads that run
          shutdown   \* engines whose queue holds a Shutdown

slotVars == <<slot, load, unload, stream, sender, alive, shutdown>>

Empty == [is |-> "empty"]
Loading == [is |-> "loading"]
Ready(e) == [is |-> "ready", engine |-> e]

SlotInit ==
  /\ slot = Empty
  /\ load = [l \in Load |-> "new"]
  /\ unload = [u \in Unload |-> "new"]
  /\ stream = [i \in Stream |-> "new"] /\ sender = [i \in Stream |-> {}]
  /\ alive = {} /\ shutdown = {}

-----------------------------------------------------------------------------
(* load_model *)

\* First lock: refuse unless the slot is empty.
LoadCheck(l) ==
  /\ load[l] = "new"
  /\ load' = [load EXCEPT ![l] = IF slot = Empty THEN "checked" ELSE "refused"]
  /\ UNCHANGED <<slot, unload, stream, sender, alive, shutdown>>

\* Second lock.
LoadMark(l) ==
  /\ load[l] = "checked"
  /\ slot' = Loading
  /\ load' = [load EXCEPT ![l] = "loading"]
  /\ UNCHANGED <<unload, stream, sender, alive, shutdown>>

SlotAfterFailure == Empty

LoadFail(l) ==
  /\ load[l] = "loading"
  /\ slot' = SlotAfterFailure
  /\ load' = [load EXCEPT ![l] = "failed"]
  /\ UNCHANGED <<unload, stream, sender, alive, shutdown>>

\* The weights are there: spawn the engine thread ...
LoadSpawn(l) ==
  /\ load[l] = "loading"
  /\ alive' = alive \cup {l}
  /\ load' = [load EXCEPT ![l] = "spawned"]
  /\ UNCHANGED <<slot, unload, stream, sender, shutdown>>

\* ... and publish it under a third lock.  A handle in the slot is dropped.
LoadPublish(l) ==
  /\ load[l] = "spawned"
  /\ slot' = Ready(l)
  /\ load' = [load EXCEPT ![l] = "done"]
  /\ UNCHANGED <<unload, stream, sender, alive, shutdown>>

\* The caller goes away while the handler awaits the blocking load: the handler
\* is dropped at that point and nothing is undone.
LoadHangup(l) ==
  /\ Hangups /\ load[l] = "loading"
  /\ load' = [load EXCEPT ![l] = "dropped"]
  /\ UNCHANGED <<slot, unload, stream, sender, alive, shutdown>>

-----------------------------------------------------------------------------
(* unload_model *)

ShutdownsAfter == IF slot.is = "ready" THEN shutdown \cup {slot.engine} ELSE shutdown

\* (mutant: a handle is copied, not taken)
SlotAfterTake_Ready == IF slot = Loading THEN Empty ELSE slot
SlotAfterTake == Empty

\* First lock: take what is in the slot.
UnloadTake(u) ==
  /\ unload[u] = "new"
  /\ slot' = SlotAfterTake
  /\ unload' = [unload EXCEPT ![u] = IF slot = Loading THEN "put_back" ELSE "done"]
  /\ shutdown' = ShutdownsAfter
  /\ UNCHANGED <<load, stream, sender, alive>>

\* Second lock: a load was in progress when the slot was taken.
UnloadPutBack(u) ==
  /\ unload[u] = "put_back"
  /\ slot' = Loading
  /\ unload' = [unload EXCEPT ![u] = "refused"]
  /\ UNCHANGED <<load, stream, sender, alive, shutdown>>

-----------------------------------------------------------------------------
(* infer and the engine threads *)

\* Clone the sender under the lock ...
InferLookup(i) ==
  /\ stream[i] = "new" /\ slot.is = "ready"
  /\ sender' = [sender EXCEPT ![i] = {slot.engine}]
  /\ stream' = [stream EXCEPT ![i] = "found"]
  /\ UNCHANGED <<slot, load, unload, alive, shutdown>>

\* ... and send the command without it: an error if the thread has exited.
InferSend(i) ==
  /\ stream[i] = "found"
  /\ IF sender[i] \subseteq alive
     THEN /\ stream' = [stream EXCEPT ![i] = "open"]
          /\ UNCHANGED sender
     ELSE /\ stream' = [stream EXCEPT ![i] = "gone"]
          /\ sender' = [sender EXCEPT ![i] = {}]
  /\ UNCHANGED <<slot, load, unload, alive, shutdown>>

\* The stream is over and its forwarding task lets go of the sender.
InferEnd(i) ==
  /\ stream[i] = "open"
  /\ stream' = [stream EXCEPT ![i] = "ended"]
  /\ sender' = [sender EXCEPT ![i] = {}]
  /\ UNCHANGED <<slot, load, unload, alive, shutdown>>

\* Somebody can still send commands to the engine.
HasSender(e) ==
  \/ slot = Ready(e)
  \/ load[e] = "spawned"
  \/ \E i \in Stream : e \in sender[i]

\* The thread exits on Shutdown, or when idle with no sender left.
\* (mutant: only on Shutdown)
MayExit_OnShutdown(e) == e \in shutdown
MayExit(e) == e \in shutdown \/ ~HasSender(e)

EngineExit(e) ==
  /\ e \in alive /\ MayExit(e)
  /\ alive' = alive \ {e}
  /\ shutdown' = shutdown \ {e}
  /\ UNCHANGED <<slot, load, unload, stream, sender>>

-----------------------------------------------------------------------------
LoadStep(l) ==
  LoadMark(l) \/ LoadFail(l) \/ LoadSpawn(l) \/ LoadPublish(l)

SlotNext ==
  \/ \E l \in Load : LoadCheck(l) \/ LoadStep(l) \/ LoadHangup(l)
  \/ \E u \in Unload : UnloadTake(u) \/ UnloadPutBack(u)
  \/ \E i \in Stream : InferLookup(i) \/ InferSend(i) \/ InferEnd(i)
  \/ \E e \in Load : EngineExit(e)

SlotSpec == SlotInit /\ [][SlotNext]_slotVars

\* Handlers that began go on, threads stop when they may, streams end.
SlotFairness ==
  /\ \A l \in Load : WF_slotVars(LoadStep(l)) /\ WF_slotVars(EngineExit(l))
  /\ \A u \in Unload : WF_slotVars(UnloadPutBack(u))
  /\ \A i \in Stream : WF_slotVars(InferSend(i)) /\ WF_slotVars(InferEnd(i))

SlotFairSpec == SlotSpec /\ SlotFairness

-----------------------------------------------------------------------------
\* Type invariant.
SlotTypeOK ==
  /\ slot \in {Empty, Loading} \cup {Ready(e) : e \in Load}
  /\ load \in [Load -> {"new", "checked", "loading", "spawned", "refused",
                        "failed", "dropped", "done"}]
  /\ unload \in [Unload -> {"new", "put_back", "refused", "done"}]
  /\ stream \in [Stream -> {"new", "found", "open", "gone", "ended"}]
  /\ sender \in [Stream -> SUBSET Load]
  /\ alive \in SUBSET Load /\ shutdown \in SUBSET Load

\* However loads and unloads interleave, a published engine runs, and it is
\* not already told to stop: Infer is never routed to a stopping engine by the
\* slot itself.
PublishedEngineRuns ==
  slot.is = "ready" => slot.engine \in alive \ shutdown

\* The slot keeps its types and publishes what runs.
SlotSound == SlotTypeOK /\ PublishedEngineRuns

\* An engine that is no longer published does not run for ever: it was told to
\* shut down, or its last sender goes with the streams that use it.
UnpublishedEngineExits ==
  \A e \in Load : e \in alive /\ load[e] = "done" /\ slot # Ready(e) ~> e \notin alive
=============================================================================
