----------------------------- MODULE EngineActor -----------------------------
(***************************************************************************)
(* zealot/src/bin/zealot-backend.rs: the engine thread (run_engine,        *)
(* handle_cmd) between the gRPC handlers and the engine.  Handlers put     *)
(* commands into an unbounded queue; the thread drains it between steps    *)
(* and pushes frames into one bounded channel per request, blocking while  *)
(* it is full.  The client may read slowly, cancel, or go away; the model  *)
(* may fail; an unload shuts the thread down.                              *)
(*                                                                         *)
(* The engine is Generation.tla, which Engine.tla implements: a step gives *)
(* some live requests a token and ends some of those.                      *)
(***************************************************************************)
EXTENDS Generation, Sequences, SequencesExt

CONSTANTS Capacity,     \* frames a response channel holds
          MaxFailures,  \* bound: errors returned by Engine::step
          MaxUnloads,   \* bound: Shutdown commands (0 or 1)
          MaxCancels    \* bound: callers that send CANCEL

ASSUME ActorAssumption ==
  /\ IsFiniteSet(Request) /\ MaxTokens \subseteq Nat
  /\ Capacity \in Nat \ {0} /\ MaxFailures \in Nat /\ MaxUnloads \in 0 .. 1
  /\ MaxCancels \in Nat

VARIABLES cmds,       \* the command queue
          inflight,   \* requests whose sender the thread holds
          client,     \* the caller's end of each stream
          cancelled,  \* requests whose caller sent CANCEL
          frames,     \* every frame put into the request's channel
          read,       \* how many of them were taken out
          outbox,     \* frames the thread still has to send, in order
          pc,         \* where the thread is
          failures

streamVars == <<client, cancelled, frames, read>>
actorVars == <<cmds, inflight, outbox, pc, failures>>
vars == <<genVars, streamVars, actorVars>>

Live == {r \in Request : stage[r] = "live"}
is_idle == Live = {}

Final == {"stop", "length", "cancel"}
Terminal == Final \cup {"error"}
Frame == [kind : {"delta"} \cup Terminal, completion : Nat]
Delta == [kind |-> "delta", completion |-> 0]
Error == [kind |-> "error", completion |-> 0]
usage_frame(completion, reason) == [kind |-> reason, completion |-> completion]

Command == [op : {"infer", "cancel"}, req : Request] \cup [op : {"shutdown"}]

Init ==
  /\ GenInit
  /\ cmds = <<>> /\ inflight = {} /\ outbox = <<>> /\ pc = "loop" /\ failures = 0
  /\ client = [r \in Request |-> "none"] /\ cancelled = {}
  /\ frames = [r \in Request |-> <<>>] /\ read = [r \in Request |-> 0]

-----------------------------------------------------------------------------
(* The callers *)

\* infer: hand the request and the sending end of its stream to the thread.
\* An exited thread has dropped the queue, and the call fails.
Infer(r) ==
  /\ client[r] = "none"
  /\ IF pc # "exited"
     THEN /\ client' = [client EXCEPT ![r] = "open"]
          /\ cmds' = Append(cmds, [op |-> "infer", req |-> r])
     ELSE /\ client' = [client EXCEPT ![r] = "refused"]
          /\ UNCHANGED cmds
  /\ UNCHANGED <<genVars, cancelled, frames, read, inflight, outbox, pc, failures>>

\* The forwarding task sends CANCEL frames on, also after the stream ended.
SendCancel(r) ==
  /\ client[r] = "open" /\ r \notin cancelled /\ Cardinality(cancelled) < MaxCancels
  /\ cancelled' = cancelled \cup {r}
  /\ cmds' = IF pc # "exited" THEN Append(cmds, [op |-> "cancel", req |-> r]) ELSE cmds
  /\ UNCHANGED <<genVars, client, frames, read, inflight, outbox, pc, failures>>

Read(r) ==
  /\ client[r] = "open" /\ read[r] < Len(frames[r])
  /\ read' = [read EXCEPT ![r] = @ + 1]
  /\ UNCHANGED <<genVars, client, cancelled, frames, actorVars>>

\* The caller goes away: the receiving end is dropped, nobody is told.
Disconnect(r) ==
  /\ client[r] = "open"
  /\ client' = [client EXCEPT ![r] = "gone"]
  /\ UNCHANGED <<genVars, cancelled, frames, read, actorVars>>

\* unload_model sends Shutdown and forgets the thread.
Shutdowns == Len(SelectSeq(cmds, LAMBDA c : c.op = "shutdown"))

UnloadModel ==
  /\ pc # "exited" /\ Shutdowns < MaxUnloads
  /\ cmds' = Append(cmds, [op |-> "shutdown"])
  /\ UNCHANGED <<genVars, streamVars, inflight, outbox, pc, failures>>

-----------------------------------------------------------------------------
(* handle_cmd *)

NextCmd(op) == pc = "loop" /\ cmds # <<>> /\ Head(cmds).op = op

\* inflight.insert: ids are assumed to differ (Engine's IsNew); one that is in flight
\* already would lose its sender to the later request.
HandleInfer ==
  /\ NextCmd("infer")
  /\ LET r == Head(cmds).req
     IN  \/ /\ \E n \in MaxTokens : Accept(r, n)
            /\ inflight' = inflight \cup {r}
            /\ UNCHANGED frames
         \/ /\ Reject(r)   \* tokenizer error or SequenceTooLong
            /\ frames' = IF client[r] = "open"
                         THEN [frames EXCEPT ![r] = Append(@, Error)] ELSE frames
            /\ UNCHANGED inflight
  /\ cmds' = Tail(cmds)
  /\ UNCHANGED <<client, cancelled, read, outbox, pc, failures>>

\* engine.cancel reports no tokens for a request that waits to be recomputed.
HandleCancel ==
  /\ NextCmd("cancel")
  /\ LET r == Head(cmds).req
     IN  IF r \in Live
         THEN /\ End(r, "cancel")
              /\ IF r \in inflight
                 THEN /\ \E completion \in {0, produced[r]} :
                           outbox' = <<[req |-> r, frame |-> usage_frame(completion, "cancel")]>>
                      /\ pc' = "deliver"
                 ELSE UNCHANGED <<outbox, pc>>
         ELSE UNCHANGED <<genVars, outbox, pc>>
  /\ cmds' = Tail(cmds)
  /\ UNCHANGED <<streamVars, inflight, failures>>

\* The thread returns: engine, senders and queued commands are dropped.
HandleShutdown ==
  /\ NextCmd("shutdown")
  /\ pc' = "exited" /\ cmds' = <<>> /\ inflight' = {}
  /\ UNCHANGED <<genVars, streamVars, outbox, failures>>

-----------------------------------------------------------------------------
(* run_engine: one step and what becomes of its result *)

\* S are the requests that get a token, sent in batch order.
StepTokens(S) ==
  /\ pc = "loop" /\ cmds = <<>> /\ ~is_idle
  /\ Produce(S)
  /\ \E order \in SetToSeqs(S) :
       outbox' = [i \in 1 .. Len(order) |-> [req |-> order[i], frame |-> Delta]]
  /\ pc' = "finish"
  /\ UNCHANGED <<streamVars, cmds, inflight, failures>>

GotToken(r) == \E i \in 1 .. Len(outbox) : outbox[i].req = r

StepFinish(r) ==
  /\ pc = "finish" /\ r \in Live /\ GotToken(r)
  /\ \E reason \in {"stop", "length"} :
       /\ End(r, reason)
       /\ outbox' = Append(outbox, [req |-> r, frame |-> usage_frame(produced[r], reason)])
  /\ UNCHANGED <<streamVars, cmds, inflight, pc, failures>>

StepDone ==
  /\ pc = "finish"
  /\ \A r \in Live : GotToken(r) => produced[r] < limit[r]
  /\ pc' = "deliver"
  /\ UNCHANGED <<genVars, streamVars, cmds, inflight, outbox, failures>>

\* The step failed: every stream gets the error, the sequences stay.
StepError ==
  /\ pc = "loop" /\ cmds = <<>> /\ ~is_idle
  /\ failures < MaxFailures
  /\ failures' = failures + 1
  /\ \E order \in SetToSeqs(inflight) :
       outbox' = [i \in 1 .. Len(order) |-> [req |-> order[i], frame |-> Error]]
  /\ pc' = "deliver"
  /\ UNCHANGED <<genVars, streamVars, cmds, inflight>>

\* Nobody holds the other end: the thread drops its sender too, and cancels
\* the request if the frame was a token.
\* (mutants: the request is not cancelled; the error is ignored)
SendFailed_Ignores(r, frame) == UNCHANGED <<inflight, genVars>>
SendFailed_Keeps(r, frame) == inflight' = inflight \ {r} /\ UNCHANGED genVars
SendFailed(r, frame) ==
  /\ inflight' = inflight \ {r}
  /\ IF frame.kind = "delta" /\ r \in Live THEN End(r, "cancel") ELSE UNCHANGED genVars

\* The sender is dropped with the last frame.
\* (mutants: it is dropped with the first; it stays in the map)
SendersAfter_First(r, frame) == inflight \ {r}
SendersAfter_Keeps(r, frame) == inflight
SendersAfter(r, frame) ==
  IF frame.kind \in Terminal THEN inflight \ {r} ELSE inflight

\* blocking_send of the outbox' head.
Deliver ==
  /\ pc = "deliver" /\ outbox # <<>>
  /\ LET r == Head(outbox).req
         frame == Head(outbox).frame
     IN  \/ /\ r \notin inflight
            /\ UNCHANGED <<genVars, frames, inflight>>
         \/ /\ r \in inflight /\ client[r] = "gone"
            /\ SendFailed(r, frame)
            /\ UNCHANGED frames
         \/ /\ r \in inflight /\ client[r] = "open"
            /\ Len(frames[r]) - read[r] < Capacity
            /\ frames' = [frames EXCEPT ![r] = Append(@, frame)]
            /\ inflight' = SendersAfter(r, frame)
            /\ UNCHANGED genVars
  /\ outbox' = Tail(outbox)
  /\ UNCHANGED <<client, cancelled, read, cmds, pc, failures>>

DeliverDone ==
  /\ pc = "deliver" /\ outbox = <<>>
  /\ pc' = "loop"
  /\ UNCHANGED <<genVars, streamVars, cmds, inflight, outbox, failures>>

-----------------------------------------------------------------------------
Thread ==
  \/ HandleInfer \/ HandleCancel \/ HandleShutdown
  \/ \E S \in SUBSET Live : StepTokens(S)
  \/ \E r \in Request : StepFinish(r)
  \/ StepDone
  \/ Deliver \/ DeliverDone

Next ==
  \/ \E r \in Request : Infer(r) \/ SendCancel(r) \/ Read(r) \/ Disconnect(r)
  \/ UnloadModel
  \/ Thread
  \/ StepError

Spec == Init /\ [][Next]_vars

\* The thread runs and callers take their frames.  Nothing is assumed of the
\* engine: it may let a request starve (EngineProps.tla: EveryRequestEnds).
Fairness == WF_vars(Thread) /\ \A r \in Request : WF_vars(Read(r))

FairSpec == Spec /\ Fairness

-----------------------------------------------------------------------------
\* Type invariant.
TypeOK ==
  /\ stage \in [Request -> {"new", "live", "rejected"} \cup Final]
  /\ produced \in [Request -> Nat] /\ limit \in [Request -> Nat]
  /\ cmds \in Seq(Command)
  /\ inflight \in SUBSET Request /\ cancelled \in SUBSET Request
  /\ client \in [Request -> {"none", "open", "gone", "refused"}]
  /\ frames \in [Request -> Seq(Frame)] /\ read \in [Request -> Nat]
  /\ outbox \in Seq([req : Request, frame : Frame])
  /\ pc \in {"loop", "finish", "deliver", "exited"} /\ failures \in Nat

Deltas(r) == Cardinality({i \in 1 .. Len(frames[r]) : frames[r][i].kind = "delta"})
LastFrame(r) == frames[r][Len(frames[r])]
HasTerminal(r) == frames[r] # <<>> /\ LastFrame(r).kind \in Terminal

\* No sender is left: the caller sees the stream end after the frames in it.
Queued(r) == \E i \in 1 .. Len(cmds) : cmds[i] = [op |-> "infer", req |-> r]
Closed(r) == client[r] = "open" /\ r \notin inflight /\ ~Queued(r)

\* A stream ends once, and for a reason: it carries at most one final or error
\* frame, as its last, also when a cancel, the end of the generation and a model
\* error come together; and it ends without one only if the thread shut down.
EndsOnceWithReason ==
  \A r \in Request :
    /\ \A i \in 1 .. Len(frames[r]) :
         frames[r][i].kind \in Terminal => i = Len(frames[r])
    /\ Closed(r) => HasTerminal(r) \/ pc = "exited"

\* Between steps the thread's map and the engine agree: no sender waits for a
\* request the engine no longer has (run_engine would sleep for ever: "should
\* not happen"), and before any model error no request runs for nobody.
InflightTracksEngine ==
  pc = "loop" => /\ inflight \subseteq Live
                 /\ failures = 0 => Live \subseteq inflight

\* Every token reaches its stream and the bill.  Between steps each token made
\* for a request that still has a sender is in its channel (a caller that went
\* away costs at most the token of one step); a finished stream is billed the
\* tokens it carries, a cancelled one no more.
TokensAccounted ==
  /\ TypeOK
  /\ pc = "loop" => \A r \in inflight : produced[r] = Deltas(r)
  /\ \A r \in Request :
       frames[r] # <<>> =>
         /\ LastFrame(r).kind \in {"stop", "length"} => LastFrame(r).completion = Deltas(r)
         /\ LastFrame(r).kind = "cancel" => LastFrame(r).completion <= Deltas(r)

\* Every open stream comes to its end while its caller stays and reads, unless
\* the engine never ends its request (run_engine, blocking_send).
Starved(r) == <>[](r \in Live /\ pc # "exited")

StreamsEnd ==
  \A r \in Request :
    Starved(r) \/ (client[r] = "open" ~> Closed(r) \/ client[r] = "gone")
=============================================================================
