---------------------------- MODULE BackendProofs ----------------------------
(***************************************************************************)
(* zealot's gRPC backend.  For any number of concurrent LoadModel,         *)
(* UnloadModel and Infer calls the engine published in the slot runs and   *)
(* was not told to stop; and for any requests, channels and cancellations  *)
(* each stream gets its tokens and one final frame.                        *)
(***************************************************************************)
EXTENDS ModelSlot, EngineActor, FiniteSetTheorems, SequenceTheorems, TLAPS

-----------------------------------------------------------------------------
(* bin/zealot-backend.rs: the slot *)

\* Where an engine is in its life: not spawned yet, spawned and not published
\* (so nobody can have told it to stop), or published by its own finished load.
EngineStage ==
  /\ \A l \in Load : load[l] \in {"new", "checked", "loading"} => l \notin alive \cup shutdown
  /\ \A l \in Load : load[l] = "spawned" => l \in alive \ shutdown
  /\ slot.is = "ready" => load[slot.engine] = "done"

SlotInv == SlotTypeOK /\ EngineStage /\ PublishedEngineRuns

\* What SlotTypeOK says of the slot.
LEMMA SlotCases ==
  ASSUME SlotTypeOK
  PROVE  /\ slot \in {Empty, Loading} \/ \E e \in Load : slot = Ready(e)
         /\ slot.is = "ready" => slot.engine \in Load /\ slot = Ready(slot.engine)
BY DEF SlotTypeOK, Empty, Loading, Ready

\* The initial state.
LEMMA InitSlotInv == SlotInit => SlotInv
BY DEF SlotInit, SlotInv, SlotTypeOK, EngineStage, PublishedEngineRuns, Empty, Loading, Ready

\* A load in progress keeps the invariant: publishing replaces whatever the
\* slot holds by an engine that was just spawned.
LEMMA LoadSlotInv ==
  ASSUME SlotInv, NEW l \in Load, LoadCheck(l) \/ LoadStep(l) \/ LoadHangup(l)
  PROVE  SlotInv'
<1> USE DEF SlotInv, SlotTypeOK, EngineStage, PublishedEngineRuns
<1>1. CASE LoadCheck(l)
  BY <1>1, SlotCases DEF LoadCheck
<1>2. CASE LoadMark(l)
  BY <1>2 DEF LoadMark, Loading
<1>3. CASE LoadFail(l)
  BY <1>3 DEF LoadFail, SlotAfterFailure, Empty
<1>4. CASE LoadSpawn(l)
  BY <1>4, SlotCases DEF LoadSpawn
<1>5. CASE LoadPublish(l)
  BY <1>5 DEF LoadPublish, Ready
<1>6. CASE LoadHangup(l)
  BY <1>6, SlotCases DEF LoadHangup
<1> QED
  BY <1>1, <1>2, <1>3, <1>4, <1>5, <1>6 DEF LoadStep

\* An unload tells an engine to stop only while it takes it out of the slot.
LEMMA UnloadSlotInv ==
  ASSUME SlotInv, NEW u \in Unload, UnloadTake(u) \/ UnloadPutBack(u)
  PROVE  SlotInv'
<1> USE DEF SlotInv, SlotTypeOK, EngineStage, PublishedEngineRuns
<1>1. CASE UnloadTake(u)
  BY <1>1, SlotCases DEF UnloadTake, SlotAfterTake, ShutdownsAfter, Empty
<1>2. CASE UnloadPutBack(u)
  BY <1>2 DEF UnloadPutBack, Loading
<1> QED
  BY <1>1, <1>2

\* Streams do not touch the slot, and an engine does not exit while it is
\* published or about to be, unless it was told to.
LEMMA EngineSlotInv ==
  ASSUME SlotInv,
         \/ \E i \in Stream : InferLookup(i) \/ InferSend(i) \/ InferEnd(i)
         \/ \E e \in Load : EngineExit(e)
  PROVE  SlotInv'
<1> USE DEF SlotInv, SlotTypeOK, EngineStage, PublishedEngineRuns
<1>1. ASSUME NEW i \in Stream, InferLookup(i) \/ InferSend(i) \/ InferEnd(i)
      PROVE  SlotInv'
  BY <1>1, SlotCases DEF InferLookup, InferSend, InferEnd
<1>2. ASSUME NEW e \in Load, EngineExit(e) PROVE SlotInv'
  BY <1>2, SlotCases DEF EngineExit, MayExit, HasSender
<1> QED
  BY <1>1, <1>2

\* However loads, unloads and streams interleave, the engine Infer finds in the
\* slot runs and has not been told to stop.
THEOREM PublishedEngineAlwaysRuns == SlotSpec => []SlotSound
<1>1. SlotInv /\ [SlotNext]_slotVars => SlotInv'
  <2>1. SlotInv /\ UNCHANGED slotVars => SlotInv'
    BY DEF slotVars, SlotInv, SlotTypeOK, EngineStage, PublishedEngineRuns
  <2> QED
    BY <2>1, LoadSlotInv, UnloadSlotInv, EngineSlotInv DEF SlotNext
<1>2. SlotInv => SlotSound
  BY DEF SlotInv, SlotSound
<1> QED
  BY <1>1, <1>2, InitSlotInv, PTL DEF SlotSpec

-----------------------------------------------------------------------------
(* bin/zealot-backend.rs and engine.rs: the engine thread and its streams *)

Message == [req : Request, frame : Frame]

\* A token of the request waits to be sent.
Pending(r) == \E i \in 1 .. Len(outbox) : outbox[i].req = r /\ outbox[i].frame.kind = "delta"
Ending(r) == \E i \in 1 .. Len(outbox) : outbox[i].req = r /\ outbox[i].frame.kind \in Terminal
PendingTokens(r) == IF Pending(r) THEN 1 ELSE 0

\* What waits to be sent to a request is a token, or an end, or the one before
\* the other, and an end bills what was produced.
OutboxOK ==
  /\ pc \in {"loop", "exited"} => outbox = <<>>
  /\ \A i, j \in 1 .. Len(outbox) :
       i < j /\ outbox[i].req = outbox[j].req =>
         outbox[i].frame.kind = "delta" /\ outbox[j].frame.kind \in Terminal
  /\ \A i \in 1 .. Len(outbox) :
       LET r == outbox[i].req
           frame == outbox[i].frame
       IN  /\ stage[r] # "new"
           /\ frame.kind \in Final => stage[r] # "live"
           /\ frame.kind = "error" => failures > 0 /\ pc = "deliver"
           /\ frame.kind \in {"stop", "length"} => frame.completion = produced[r]
           /\ frame.kind = "cancel" => frame.completion <= produced[r]

\* The thread's map: a sender is kept for a request that runs or whose end is
\* about to be sent, and what was produced for it is in the channel or waits.
SendersOK ==
  /\ failures = 0 /\ pc # "exited" => Live \subseteq inflight
  /\ \A r \in inflight :
       /\ stage[r] = "live" \/ (stage[r] # "new" /\ Ending(r))
       /\ \A i \in 1 .. Len(frames[r]) : frames[r][i].kind = "delta"
       /\ produced[r] = Len(frames[r]) + PendingTokens(r)

\* One stream: tokens, then at most one end, which bills no more than there are.
StreamOK(r) ==
  /\ stage[r] = "new" => frames[r] = <<>> /\ produced[r] = 0
  /\ \A i \in 1 .. Len(frames[r]) : frames[r][i].kind # "delta" => i = Len(frames[r])
  /\ frames[r] # <<>> =>
       /\ LastFrame(r).kind \in {"stop", "length"} => LastFrame(r).completion = Len(frames[r]) - 1
       /\ LastFrame(r).kind = "cancel" => LastFrame(r).completion <= Len(frames[r]) - 1
  /\ client[r] = "open" => Queued(r) \/ r \in inflight \/ HasTerminal(r) \/ pc = "exited"

ActorInv == TypeOK /\ OutboxOK /\ SendersOK /\ \A r \in Request : StreamOK(r)

-----------------------------------------------------------------------------
(* Types *)

\* What the operators of the library do to queues.
LEMMA AppendTo ==
  ASSUME NEW S, NEW s \in Seq(S), NEW e \in S
  PROVE  /\ Append(s, e) \in Seq(S) /\ Len(Append(s, e)) = Len(s) + 1 /\ Len(s) \in Nat
         /\ \A i \in 1 .. Len(s) : Append(s, e)[i] = s[i]
         /\ Append(s, e)[Len(s) + 1] = e
BY AppendProperties, LenProperties

LEMMA TailOf ==
  ASSUME NEW S, NEW s \in Seq(S), s # <<>>
  PROVE  /\ Head(s) \in S /\ Head(s) = s[1] /\ Tail(s) \in Seq(S)
         /\ Len(s) \in Nat \ {0} /\ Len(Tail(s)) = Len(s) - 1
         /\ \A i \in 1 .. Len(s) - 1 : Tail(s)[i] = s[i + 1]
<1>1. Len(s) \in Nat \ {0}
  BY EmptySeq
<1> QED
  BY <1>1, HeadTailProperties, LenProperties

\* An order of a finite set lists each of its members, once.
LEMMA OrderOf ==
  ASSUME NEW S, IsFiniteSet(S), NEW order \in SetToSeqs(S)
  PROVE  /\ order \in Seq(S)
         /\ \A i, j \in 1 .. Len(order) : order[i] = order[j] => i = j
         /\ \A r \in S : \E i \in 1 .. Len(order) : order[i] = r
<1> DEFINE D == 1 .. Cardinality(S)
<1>1. Cardinality(S) \in Nat
  BY FS_CardinalityType
<1>2. order \in [D -> S] /\ \A i, j \in D : i # j => order[i] # order[j]
  BY DEF SetToSeqs
<1>3. order \in Seq(S) /\ Len(order) = Cardinality(S)
  BY <1>1, <1>2, SeqDef, LenProperties
<1>4. IsFiniteSet(D) /\ Cardinality(D) = Cardinality(S)
  BY <1>1, FS_Interval
<1>5. order \in Injection(D, S)
  BY <1>2 DEF Injection, IsInjective
<1>6. order \in Surjection(D, S)
  <2> HIDE DEF D
  <2> QED
    BY <1>4, <1>5, FS_Injection
<1> QED
  BY <1>2, <1>3, <1>6 DEF Surjection

LEMMA InitActorInv == Init => ActorInv
<1> SUFFICES ASSUME Init PROVE ActorInv
  OBVIOUS
<1>1. TypeOK
  BY ActorAssumption DEF Init, GenInit, TypeOK, Final
<1>2. OutboxOK /\ SendersOK
  BY DEF Init, GenInit, OutboxOK, SendersOK, Live
<1>3. ASSUME NEW r \in Request PROVE StreamOK(r)
  <2>1. frames[r] = <<>> /\ Len(frames[r]) = 0 /\ produced[r] = 0 /\ client[r] = "none"
    BY DEF Init, GenInit
  <2> QED
    BY <2>1 DEF StreamOK
<1> QED
  BY <1>1, <1>2, <1>3 DEF ActorInv

-----------------------------------------------------------------------------
(* The callers *)

\* What the thread keeps, where the thread did nothing.
LEMMA ThreadFrame ==
  ASSUME OutboxOK, SendersOK, UNCHANGED <<genVars, frames, inflight, outbox, pc, failures>>
  PROVE  OutboxOK' /\ SendersOK'
<1>1. OutboxOK'
  BY DEF OutboxOK, genVars
<1>2. \A r \in inflight : Ending(r)' = Ending(r) /\ PendingTokens(r)' = PendingTokens(r)
  BY DEF Ending, PendingTokens, Pending
<1>3. SendersOK'
  BY <1>2 DEF SendersOK, genVars, Live
<1> QED
  BY <1>1, <1>3

\* A stream none of whose parts changed is as it was.
LEMMA StreamFrame ==
  ASSUME NEW r \in Request, StreamOK(r),
         stage'[r] = stage[r], produced'[r] = produced[r], frames'[r] = frames[r],
         client'[r] = "open" /\ client[r] = "open" /\ Queued(r) => Queued(r)' \/ pc' = "exited",
         client'[r] = "open" => client[r] = "open" \/ Queued(r)' \/ pc' = "exited",
         r \in inflight => r \in inflight' \/ pc' = "exited",
         pc = "exited" => pc' = "exited"
  PROVE  StreamOK(r)'
BY DEF StreamOK, LastFrame, HasTerminal

\* A command that is queued stays there when another one comes.
LEMMA QueuedAfterAppend ==
  ASSUME cmds \in Seq(Command), NEW c \in Command, cmds' = Append(cmds, c)
  PROVE  /\ cmds' \in Seq(Command)
         /\ \A r \in Request : Queued(r) => Queued(r)'
         /\ \A r \in Request : c = [op |-> "infer", req |-> r] => Queued(r)'
<1>1. /\ Len(cmds') = Len(cmds) + 1 /\ Len(cmds) \in Nat /\ cmds' \in Seq(Command)
      /\ \A i \in 1 .. Len(cmds) : cmds'[i] = cmds[i]
      /\ cmds'[Len(cmds) + 1] = c
  BY AppendTo
<1> QED
  BY <1>1 DEF Queued

LEMMA CallersKeep ==
  ASSUME ActorInv, NEW r \in Request,
         Infer(r) \/ SendCancel(r) \/ Read(r) \/ Disconnect(r)
  PROVE  ActorInv'
<1> USE DEF ActorInv
<1>1. CASE Infer(r)
  <2>1. OutboxOK' /\ SendersOK'
    BY <1>1, ThreadFrame DEF Infer
  <2>2. CASE pc # "exited"
    <3> DEFINE c == [op |-> "infer", req |-> r]
    <3>1. cmds' = Append(cmds, c) /\ c \in Command
      BY <1>1, <2>2 DEF Infer, Command
    <3>2. cmds' \in Seq(Command) /\ (\A x \in Request : Queued(x) => Queued(x)') /\ Queued(r)'
      BY <3>1, QueuedAfterAppend DEF TypeOK
    <3>3. client' = [client EXCEPT ![r] = "open"] /\ client \in [Request -> {"none", "open", "gone", "refused"}]
      BY <1>1, <2>2 DEF Infer, TypeOK
    <3>4. TypeOK'
      BY <1>1, <3>2, <3>3 DEF Infer, TypeOK, genVars
    <3>5. \A x \in Request : StreamOK(x)'
      <4> SUFFICES ASSUME NEW x \in Request PROVE StreamOK(x)'
        OBVIOUS
      <4>1. client'[x] = "open" => client[x] = "open" \/ x = r
        BY <3>3
      <4> QED
        BY <1>1, <3>2, <4>1, StreamFrame DEF Infer, genVars
    <3> QED
      BY <2>1, <3>4, <3>5
  <2>3. CASE pc = "exited"
    <3>1. client' = [client EXCEPT ![r] = "refused"] /\ UNCHANGED cmds
      BY <1>1, <2>3 DEF Infer
    <3>2. TypeOK'
      BY <1>1, <3>1 DEF Infer, TypeOK, genVars
    <3>3. \A x \in Request : StreamOK(x)'
      BY <1>1, <2>3, <3>1, StreamFrame DEF Infer, genVars, Queued, TypeOK
    <3> QED
      BY <2>1, <3>2, <3>3
  <2> QED
    BY <2>2, <2>3
<1>2. CASE SendCancel(r)
  <2>1. OutboxOK' /\ SendersOK'
    BY <1>2, ThreadFrame DEF SendCancel
  <2>2. cmds' \in Seq(Command) /\ \A x \in Request : Queued(x) => Queued(x)'
    <3> DEFINE c == [op |-> "cancel", req |-> r]
    <3>1. c \in Command
      BY DEF Command
    <3>2. CASE cmds' = Append(cmds, c)
      BY <3>1, <3>2, QueuedAfterAppend DEF TypeOK
    <3>3. CASE cmds' = cmds
      BY <3>3 DEF TypeOK, Queued
    <3> QED
      BY <1>2, <3>2, <3>3 DEF SendCancel
  <2>3. TypeOK'
    BY <1>2, <2>2 DEF SendCancel, TypeOK, genVars
  <2>4. \A x \in Request : StreamOK(x)'
    BY <1>2, <2>2, StreamFrame DEF SendCancel, genVars
  <2> QED
    BY <2>1, <2>3, <2>4
<1>3. CASE Read(r)
  <2>1. OutboxOK' /\ SendersOK'
    BY <1>3, ThreadFrame DEF Read, actorVars
  <2>2. TypeOK'
    BY <1>3 DEF Read, TypeOK, genVars, actorVars
  <2>3. \A x \in Request : StreamOK(x)'
    BY <1>3, StreamFrame DEF Read, genVars, actorVars, Queued
  <2> QED
    BY <2>1, <2>2, <2>3
<1>4. CASE Disconnect(r)
  <2>1. OutboxOK' /\ SendersOK'
    BY <1>4, ThreadFrame DEF Disconnect, actorVars
  <2>2. TypeOK'
    BY <1>4 DEF Disconnect, TypeOK, genVars, actorVars
  <2>3. \A x \in Request : client'[x] = "open" => client[x] = "open"
    BY <1>4 DEF Disconnect, TypeOK
  <2>4. \A x \in Request : StreamOK(x)'
    BY <1>4, <2>3, StreamFrame DEF Disconnect, genVars, actorVars, Queued
  <2> QED
    BY <2>1, <2>2, <2>4
<1> QED
  BY <1>1, <1>2, <1>3, <1>4

LEMMA UnloadKeeps == ASSUME ActorInv, UnloadModel PROVE ActorInv'
<1> USE DEF ActorInv
<1>1. OutboxOK' /\ SendersOK'
  BY ThreadFrame DEF UnloadModel, streamVars
<1>2. cmds' \in Seq(Command) /\ \A x \in Request : Queued(x) => Queued(x)'
  <2> DEFINE c == [op |-> "shutdown"]
  <2>1. c \in Command /\ cmds' = Append(cmds, c)
    BY DEF Command, UnloadModel
  <2> QED
    BY <2>1, QueuedAfterAppend DEF TypeOK
<1>3. TypeOK'
  BY <1>2 DEF UnloadModel, TypeOK, genVars, streamVars
<1>4. \A x \in Request : StreamOK(x)'
  BY <1>2, StreamFrame DEF UnloadModel, genVars, streamVars
<1> QED
  BY <1>1, <1>3, <1>4

-----------------------------------------------------------------------------
(* handle_cmd *)

\* Taking a command leaves the others queued.
LEMMA QueuedAfterTail ==
  ASSUME cmds \in Seq(Command), cmds # <<>>, cmds' = Tail(cmds)
  PROVE  /\ cmds' \in Seq(Command) /\ Head(cmds) \in Command
         /\ \A r \in Request : Queued(r) => Queued(r)' \/ Head(cmds) = [op |-> "infer", req |-> r]
<1>1. /\ Head(cmds) \in Command /\ Head(cmds) = cmds[1] /\ cmds' \in Seq(Command)
      /\ Len(cmds) \in Nat \ {0} /\ Len(cmds') = Len(cmds) - 1
      /\ \A i \in 1 .. Len(cmds) - 1 : cmds'[i] = cmds[i + 1]
  BY TailOf
<1>2. ASSUME NEW r \in Request, Queued(r), Head(cmds) # [op |-> "infer", req |-> r]
      PROVE  Queued(r)'
  <2>1. PICK i \in 1 .. Len(cmds) : cmds[i] = [op |-> "infer", req |-> r]
    BY <1>2 DEF Queued
  <2>2. i # 1
    BY <1>1, <1>2, <2>1
  <2>3. i - 1 \in 1 .. Len(cmds) - 1 /\ (i - 1) + 1 = i
    BY <1>1, <2>2
  <2>4. cmds'[i - 1] = [op |-> "infer", req |-> r] /\ i - 1 \in 1 .. Len(cmds')
    BY <1>1, <2>1, <2>3
  <2> QED
    BY <2>4 DEF Queued
<1> QED
  BY <1>1, <1>2

\* Nothing waits to be sent while the outbox is empty.
LEMMA EmptyOutbox ==
  ASSUME outbox = <<>>
  PROVE  \A r \in Request : ~Pending(r) /\ ~Ending(r) /\ PendingTokens(r) = 0
BY DEF Pending, Ending, PendingTokens

LEMMA HandleInferKeeps == ASSUME ActorInv, HandleInfer PROVE ActorInv'
<1> USE DEF ActorInv
<1> DEFINE cmd == Head(cmds)
<1>1. /\ pc = "loop" /\ cmds # <<>> /\ cmd.op = "infer" /\ cmds' = Tail(cmds)
      /\ UNCHANGED <<client, cancelled, read, outbox, pc, failures>> /\ outbox = <<>>
  BY DEF HandleInfer, NextCmd, OutboxOK
<1>2. /\ cmds' \in Seq(Command) /\ cmd \in Command
      /\ \A x \in Request : Queued(x) => Queued(x)' \/ cmd = [op |-> "infer", req |-> x]
  BY <1>1, QueuedAfterTail DEF TypeOK
<1>3. PICK r \in Request : r = cmd.req
  BY <1>1, <1>2 DEF Command
<1>4. \A x \in Request : x # r => (Queued(x) => Queued(x)')
  BY <1>2, <1>3
<1>5. OutboxOK'
  BY <1>1 DEF OutboxOK
<1>6. \A x \in Request : PendingTokens(x) = 0 /\ ~Ending(x) /\ PendingTokens(x)' = 0
  BY <1>1, EmptyOutbox DEF PendingTokens, Pending
<1>7. \A x \in inflight : stage[x] = "live"
  BY <1>6 DEF SendersOK, TypeOK
<1>8. CASE (\E n \in MaxTokens : Accept(r, n)) /\ inflight' = inflight \cup {r} /\ UNCHANGED frames
  <2>1. PICK n \in MaxTokens : Accept(r, n)
    BY <1>8
  <2>2. /\ stage[r] = "new" /\ stage' = [stage EXCEPT ![r] = "live"]
        /\ limit' = [limit EXCEPT ![r] = n] /\ produced' = produced
    BY <2>1 DEF Accept
  <2>3. frames[r] = <<>> /\ produced[r] = 0
    BY <2>2 DEF StreamOK
  <2>4. TypeOK'
    BY <1>1, <1>2, <1>8, <2>2, ActorAssumption DEF TypeOK
  <2>5. SendersOK'
    <3>1. failures' = 0 /\ pc' # "exited" => Live' \subseteq inflight'
      BY <1>1, <1>8, <2>2 DEF SendersOK, Live, TypeOK
    <3>2. ASSUME NEW x \in inflight'
          PROVE  /\ stage'[x] = "live" /\ produced'[x] = Len(frames'[x]) + PendingTokens(x)'
                 /\ \A i \in 1 .. Len(frames'[x]) : frames'[x][i].kind = "delta"
      <4>1. CASE x = r
        <5>1. Len(frames[r]) = 0
          BY <2>3
        <5> QED
          BY <1>6, <1>8, <2>2, <2>3, <4>1, <5>1 DEF TypeOK
      <4>2. CASE x # r
        BY <1>6, <1>7, <1>8, <2>2, <4>2 DEF TypeOK, SendersOK
      <4> QED
        BY <4>1, <4>2
    <3> QED
      BY <3>1, <3>2 DEF SendersOK
  <2>6. ASSUME NEW x \in Request PROVE StreamOK(x)'
    <3>1. CASE x = r
      <4>1. frames'[r] = <<>> /\ Len(frames'[r]) = 0 /\ stage'[r] = "live" /\ r \in inflight'
        BY <1>8, <2>2, <2>3 DEF TypeOK
      <4> QED
        BY <3>1, <4>1 DEF StreamOK
    <3>2. CASE x # r
      BY <1>1, <1>4, <1>8, <2>2, <3>2, StreamFrame DEF TypeOK
    <3> QED
      BY <3>1, <3>2
  <2> QED
    BY <1>5, <2>4, <2>5, <2>6
<1>9. CASE /\ Reject(r) /\ inflight' = inflight
           /\ frames' = IF client[r] = "open" THEN [frames EXCEPT ![r] = Append(@, Error)] ELSE frames
  <2>1. /\ stage[r] = "new" /\ stage' = [stage EXCEPT ![r] = "rejected"]
        /\ produced' = produced /\ limit' = limit
    BY <1>9 DEF Reject
  <2>2. frames[r] = <<>> /\ r \notin inflight
    BY <1>7, <2>1 DEF StreamOK
  <2>3. /\ \A x \in Request : x # r => frames'[x] = frames[x]
        /\ frames' \in [Request -> Seq(Frame)]
        /\ client[r] = "open" => /\ Len(frames'[r]) = 1 /\ frames'[r][1] = Error
                                 /\ frames'[r] # <<>>
        /\ client[r] # "open" => frames'[r] = <<>>
    <3>1. Error \in Frame /\ <<>> \in Seq(Frame) /\ Len(<<>>) = 0
      BY EmptySeq DEF Error, Frame, Terminal
    <3>2. /\ Append(frames[r], Error) \in Seq(Frame) /\ Len(Append(frames[r], Error)) = 1
          /\ Append(frames[r], Error)[1] = Error
      BY <2>2, <3>1, AppendTo
    <3>3. Append(frames[r], Error) # <<>>
      <4>1. frames[r] \in Seq(Frame)
        BY DEF TypeOK
      <4> QED
        BY <3>1, <3>2, <4>1, AppendProperties
    <3> QED
      BY <1>9, <2>2, <3>2, <3>3 DEF TypeOK
  <2>4. TypeOK'
    BY <1>1, <1>2, <1>9, <2>1, <2>3 DEF TypeOK
  <2>5. SendersOK'
    <3>1. failures' = 0 /\ pc' # "exited" => Live' \subseteq inflight'
      BY <1>1, <1>9, <2>1 DEF SendersOK, Live, TypeOK
    <3>2. ASSUME NEW x \in inflight'
          PROVE  /\ stage'[x] = "live" /\ produced'[x] = Len(frames'[x]) + PendingTokens(x)'
                 /\ \A i \in 1 .. Len(frames'[x]) : frames'[x][i].kind = "delta"
      <4>1. x # r /\ x \in inflight
        BY <1>9, <2>2
      <4> QED
        BY <1>6, <1>7, <2>1, <2>3, <4>1 DEF TypeOK, SendersOK
    <3> QED
      BY <3>1, <3>2 DEF SendersOK
  <2>6. ASSUME NEW x \in Request PROVE StreamOK(x)'
    <3>1. CASE x = r /\ client[r] = "open"
      <4>0. Len(frames'[r]) = 1 /\ frames'[r][1] = Error /\ frames'[r] # <<>>
        BY <2>3, <3>1
      <4>1. LastFrame(r)' = Error /\ HasTerminal(r)'
        BY <4>0 DEF LastFrame, HasTerminal, Error, Terminal, Final
      <4>2. stage'[r] # "new"
        BY <2>1 DEF TypeOK
      <4>3. \A i \in 1 .. Len(frames'[r]) : i = Len(frames'[r])
        BY <4>0
      <4> QED
        BY <3>1, <4>1, <4>2, <4>3 DEF StreamOK, Error
    <3>2. CASE x = r /\ client[r] # "open"
      <4>1. frames'[r] = <<>> /\ Len(frames'[r]) = 0 /\ stage'[r] # "new" /\ client'[r] # "open"
        BY <1>1, <2>1, <2>3, <3>2 DEF TypeOK
      <4> QED
        BY <3>2, <4>1 DEF StreamOK
    <3>3. CASE x # r
      BY <1>1, <1>4, <1>9, <2>1, <2>3, <3>3, StreamFrame DEF TypeOK
    <3> QED
      BY <3>1, <3>2, <3>3
  <2> QED
    BY <1>5, <2>4, <2>5, <2>6
<1> QED
  BY <1>3, <1>8, <1>9 DEF HandleInfer

LEMMA HandleCancelKeeps == ASSUME ActorInv, HandleCancel PROVE ActorInv'
<1> USE DEF ActorInv
<1> DEFINE cmd == Head(cmds)
<1>1. /\ pc = "loop" /\ cmds # <<>> /\ cmd.op = "cancel" /\ cmds' = Tail(cmds)
      /\ UNCHANGED <<streamVars, inflight, failures>> /\ outbox = <<>>
  BY DEF HandleCancel, NextCmd, OutboxOK
<1>2. /\ cmds' \in Seq(Command) /\ cmd \in Command
      /\ \A x \in Request : Queued(x) => Queued(x)' \/ cmd = [op |-> "infer", req |-> x]
  BY <1>1, QueuedAfterTail DEF TypeOK
<1>3. PICK r \in Request : r = cmd.req
  BY <1>1, <1>2 DEF Command
<1>4. \A x \in Request : Queued(x) => Queued(x)'
  BY <1>1, <1>2
<1>5. \A x \in Request : PendingTokens(x) = 0 /\ ~Ending(x)
  BY <1>1, EmptyOutbox
<1>6. CASE r \in Live
  <2>1. /\ stage[r] = "live" /\ stage' = [stage EXCEPT ![r] = "cancel"]
        /\ limit' = [limit EXCEPT ![r] = 0] /\ produced' = produced
    BY <1>3, <1>6 DEF HandleCancel, End
  <2>2. CASE r \in inflight
    <3>1. PICK completion \in {0, produced[r]} :
            outbox' = <<[req |-> r, frame |-> usage_frame(completion, "cancel")]>>
      BY <1>3, <1>6, <2>2 DEF HandleCancel
    <3>2. pc' = "deliver"
      BY <1>3, <1>6, <2>2 DEF HandleCancel
    <3> DEFINE frame == usage_frame(completion, "cancel")
    <3>3. frame \in Frame /\ frame.kind = "cancel" /\ frame.completion = completion
      BY DEF usage_frame, Frame, Terminal, Final, TypeOK
    <3>4. /\ outbox' \in Seq(Message) /\ Len(outbox') = 1
          /\ outbox'[1].req = r /\ outbox'[1].frame = frame
      BY <3>1, <3>3 DEF Message
    <3>5. TypeOK'
      BY <1>1, <1>2, <2>1, <3>2, <3>4 DEF TypeOK, streamVars, Message, Final
    <3>6. OutboxOK'
      BY <1>1, <2>1, <3>2, <3>3, <3>4 DEF OutboxOK, TypeOK, Final
    <3>7. \A x \in Request : ~Pending(x)'
      BY <3>3, <3>4 DEF Pending
    <3>8. Ending(r)'
      BY <3>3, <3>4 DEF Ending, Terminal, Final
    <3>9. SendersOK'
      <4>1. failures' = 0 /\ pc' # "exited" => Live' \subseteq inflight'
        <5>1. Live' \subseteq Live
          BY <2>1 DEF Live, TypeOK
        <5> QED
          BY <1>1, <5>1 DEF SendersOK
      <4>2. ASSUME NEW x \in inflight'
            PROVE  stage'[x] = "live" \/ (stage'[x] # "new" /\ Ending(x)')
        <5>1. x \in Request /\ stage[x] = "live"
          BY <1>1, <1>5, <4>2 DEF SendersOK, TypeOK
        <5>2. x = r => stage'[x] = "cancel" /\ Ending(x)'
          BY <2>1, <3>8 DEF TypeOK
        <5>3. x # r => stage'[x] = "live"
          BY <2>1, <5>1 DEF TypeOK
        <5> QED
          BY <5>2, <5>3
      <4>3. ASSUME NEW x \in inflight'
            PROVE  /\ \A i \in 1 .. Len(frames'[x]) : frames'[x][i].kind = "delta"
                   /\ produced'[x] = Len(frames'[x]) + PendingTokens(x)'
        <5>1. x \in Request /\ x \in inflight /\ frames' = frames
          BY <1>1, <4>3 DEF TypeOK, streamVars
        <5>2. PendingTokens(x) = 0 /\ PendingTokens(x)' = 0
          BY <1>5, <3>7, <5>1 DEF PendingTokens
        <5> QED
          BY <2>1, <5>1, <5>2 DEF SendersOK
      <4> QED
        BY <4>1, <4>2, <4>3 DEF SendersOK
    <3>10. \A x \in Request : StreamOK(x)'
      <4> SUFFICES ASSUME NEW x \in Request PROVE StreamOK(x)'
        OBVIOUS
      <4>1. CASE x = r
        BY <1>1, <2>1, <2>2, <4>1 DEF StreamOK, TypeOK, streamVars, LastFrame
      <4>2. CASE x # r
        BY <1>1, <1>4, <2>1, <4>2, StreamFrame DEF TypeOK, streamVars
      <4> QED
        BY <4>1, <4>2
    <3> QED
      BY <3>5, <3>6, <3>9, <3>10
  <2>3. CASE r \notin inflight
    <3>1. outbox' = outbox /\ pc' = pc
      BY <1>3, <1>6, <2>3 DEF HandleCancel
    <3>2. TypeOK'
      BY <1>1, <1>2, <2>1, <3>1 DEF TypeOK, streamVars, Final
    <3>3. OutboxOK'
      BY <1>1, <3>1 DEF OutboxOK
    <3>4. \A x \in Request : ~Pending(x)'
      BY <1>1, <3>1 DEF Pending
    <3>5. SendersOK'
      <4>1. failures' = 0 /\ pc' # "exited" => Live' \subseteq inflight'
        <5>1. Live' \subseteq Live
          BY <2>1 DEF Live, TypeOK
        <5> QED
          BY <1>1, <3>1, <5>1 DEF SendersOK
      <4>2. ASSUME NEW x \in inflight'
            PROVE  /\ stage'[x] = "live"
                   /\ \A i \in 1 .. Len(frames'[x]) : frames'[x][i].kind = "delta"
                   /\ produced'[x] = Len(frames'[x]) + PendingTokens(x)'
        <5>1. x \in Request /\ x \in inflight /\ x # r /\ frames' = frames
          BY <1>1, <2>3, <4>2 DEF TypeOK, streamVars
        <5>2. PendingTokens(x) = 0 /\ PendingTokens(x)' = 0
          BY <1>5, <3>4, <5>1 DEF PendingTokens
        <5>3. stage'[x] = "live"
          BY <1>5, <2>1, <5>1 DEF SendersOK, TypeOK
        <5> QED
          BY <2>1, <5>1, <5>2, <5>3 DEF SendersOK
      <4> QED
        BY <4>1, <4>2 DEF SendersOK
    <3>6. \A x \in Request : StreamOK(x)'
      <4> SUFFICES ASSUME NEW x \in Request PROVE StreamOK(x)'
        OBVIOUS
      <4>1. CASE x = r
        <5>1. Queued(r)' \/ r \in inflight' \/ HasTerminal(r)' \/ client'[r] # "open"
          BY <1>1, <1>4 DEF StreamOK, streamVars, HasTerminal, LastFrame
        <5> QED
          BY <1>1, <2>1, <4>1, <5>1 DEF StreamOK, TypeOK, streamVars, LastFrame
      <4>2. CASE x # r
        BY <1>1, <1>4, <2>1, <3>1, <4>2, StreamFrame DEF TypeOK, streamVars
      <4> QED
        BY <4>1, <4>2
    <3> QED
      BY <3>2, <3>3, <3>5, <3>6
  <2> QED
    BY <2>2, <2>3
<1>7. CASE r \notin Live
  <2>1. UNCHANGED <<genVars, outbox, pc>>
    BY <1>3, <1>7 DEF HandleCancel
  <2>2. OutboxOK' /\ SendersOK'
    BY <1>1, <2>1, ThreadFrame DEF streamVars
  <2>3. TypeOK'
    BY <1>1, <1>2, <2>1 DEF TypeOK, streamVars, genVars
  <2>4. \A x \in Request : StreamOK(x)'
    BY <1>1, <1>4, <2>1, StreamFrame DEF streamVars, genVars
  <2> QED
    BY <2>2, <2>3, <2>4
<1> QED
  BY <1>6, <1>7

LEMMA HandleShutdownKeeps == ASSUME ActorInv, HandleShutdown PROVE ActorInv'
<1> USE DEF ActorInv
<1>1. /\ pc = "loop" /\ pc' = "exited" /\ cmds' = <<>> /\ inflight' = {}
      /\ UNCHANGED <<genVars, streamVars, outbox, failures>> /\ outbox = <<>>
  BY DEF HandleShutdown, NextCmd, OutboxOK
<1>2. TypeOK'
  BY <1>1, EmptySeq DEF TypeOK, genVars, streamVars
<1>3. OutboxOK' /\ SendersOK'
  BY <1>1 DEF OutboxOK, SendersOK
<1>4. \A x \in Request : StreamOK(x)'
  BY <1>1, StreamFrame DEF genVars, streamVars
<1> QED
  BY <1>2, <1>3, <1>4

-----------------------------------------------------------------------------
(* A step of the engine *)

LEMMA StepTokensKeeps == ASSUME ActorInv, NEW S \in SUBSET Live, StepTokens(S) PROVE ActorInv'
<1> USE DEF ActorInv
<1>1. /\ pc = "loop" /\ outbox = <<>> /\ pc' = "finish"
      /\ UNCHANGED <<streamVars, cmds, inflight, failures, stage, limit>>
      /\ produced' = [r \in Request |-> IF r \in S THEN produced[r] + 1 ELSE produced[r]]
  BY DEF StepTokens, Produce, OutboxOK
<1>2. \A r \in S : r \in Request /\ stage[r] = "live"
  BY DEF Live
<1>3. IsFiniteSet(S)
  BY <1>2, ActorAssumption, FS_Subset
<1>4. PICK order \in SetToSeqs(S) :
        outbox' = [i \in 1 .. Len(order) |-> [req |-> order[i], frame |-> Delta]]
  BY DEF StepTokens
<1>5. /\ order \in Seq(S) /\ Len(order) \in Nat
      /\ \A i \in 1 .. Len(order) : order[i] \in S
      /\ \A i, j \in 1 .. Len(order) : order[i] = order[j] => i = j
      /\ \A r \in S : \E i \in 1 .. Len(order) : order[i] = r
  BY <1>3, OrderOf, LenProperties, ElementOfSeq
<1>6. Delta \in Frame /\ Delta.kind = "delta"
  BY DEF Delta, Frame
<1>7. outbox' \in Seq(Message) /\ Len(outbox') = Len(order)
  <2>1. outbox' \in [1 .. Len(order) -> Message]
    BY <1>2, <1>4, <1>5, <1>6 DEF Message
  <2>2. Len(order) \in Nat
    BY <1>5
  <2> QED
    BY <2>1, <2>2, SeqDef, LenProperties
<1>8. \A i \in 1 .. Len(outbox') : outbox'[i].req = order[i] /\ outbox'[i].frame = Delta
  BY <1>4, <1>7
<1>9. \A r \in Request : Pending(r)' <=> r \in S
  BY <1>5, <1>6, <1>7, <1>8 DEF Pending
<1>10. TypeOK'
  BY <1>1, <1>7 DEF TypeOK, streamVars, Message
<1>11. OutboxOK'
  <2>1. \A i \in 1 .. Len(outbox') : outbox'[i].req \in S /\ outbox'[i].frame.kind = "delta"
    BY <1>5, <1>6, <1>7, <1>8
  <2>2. \A i, j \in 1 .. Len(outbox') : i < j => outbox'[i].req # outbox'[j].req
    BY <1>5, <1>7, <1>8
  <2> QED
    BY <1>1, <1>2, <2>1, <2>2 DEF OutboxOK, Final
<1>12. SendersOK'
  <2>1. ASSUME NEW r \in inflight
        PROVE  /\ r \in Request /\ stage[r] = "live"
               /\ produced[r] = Len(frames[r]) /\ Len(frames[r]) \in Nat
    <3>1. r \in Request /\ frames[r] \in Seq(Frame)
      BY DEF TypeOK
    <3>2. ~Ending(r) /\ PendingTokens(r) = 0
      BY <1>1, <3>1, EmptyOutbox
    <3>3. Len(frames[r]) \in Nat
      BY <3>1, LenProperties
    <3> QED
      BY <3>1, <3>2, <3>3 DEF SendersOK
  <2>2. ASSUME NEW r \in inflight PROVE produced'[r] = Len(frames[r]) + PendingTokens(r)'
    <3>1. produced'[r] = produced[r] + (IF r \in S THEN 1 ELSE 0)
      BY <1>1, <2>1
    <3>2. PendingTokens(r)' = IF r \in S THEN 1 ELSE 0
      BY <1>9, <2>1 DEF PendingTokens
    <3> QED
      BY <2>1, <3>1, <3>2
  <2> QED
    BY <1>1, <2>1, <2>2 DEF SendersOK, Live, streamVars
<1>13. \A r \in Request : StreamOK(r)'
  <2> SUFFICES ASSUME NEW r \in Request PROVE StreamOK(r)'
    OBVIOUS
  <2>1. stage[r] = "new" => produced'[r] = produced[r]
    BY <1>1, <1>2
  <2> QED
    BY <1>1, <2>1 DEF StreamOK, streamVars, LastFrame, HasTerminal, Queued
<1> QED
  BY <1>10, <1>11, <1>12, <1>13

LEMMA StepFinishKeeps == ASSUME ActorInv, NEW r \in Request, StepFinish(r) PROVE ActorInv'
<1> USE DEF ActorInv
<1>1. /\ pc = "finish" /\ stage[r] = "live" /\ UNCHANGED <<streamVars, cmds, inflight, pc, failures>>
  BY DEF StepFinish, Live
<1>2. PICK reason \in {"stop", "length"} :
        /\ End(r, reason)
        /\ outbox' = Append(outbox, [req |-> r, frame |-> usage_frame(produced[r], reason)])
  BY DEF StepFinish
<1>3. stage' = [stage EXCEPT ![r] = reason] /\ limit' = [limit EXCEPT ![r] = 0] /\ produced' = produced
  BY <1>2 DEF End
<1> DEFINE frame == usage_frame(produced[r], reason)
           m == [req |-> r, frame |-> frame]
           n == Len(outbox) + 1
<1>4. frame \in Frame /\ frame.kind = reason /\ frame.completion = produced[r]
  BY DEF usage_frame, Frame, Terminal, Final, TypeOK
<1>5. m \in Message /\ m.req = r /\ m.frame = frame
  BY <1>4 DEF Message
<1>6. /\ outbox' \in Seq(Message) /\ Len(outbox') = n /\ Len(outbox) \in Nat
      /\ \A i \in 1 .. Len(outbox) : outbox'[i] = outbox[i]
      /\ outbox'[n].req = r /\ outbox'[n].frame = frame
  <2> HIDE DEF m
  <2>1. outbox \in Seq(Message) /\ outbox' = Append(outbox, m)
    BY <1>2 DEF TypeOK, Message, m
  <2> QED
    BY <1>5, <2>1, AppendTo
<1>7. \A i \in 1 .. Len(outbox) : outbox[i].req = r => outbox[i].frame.kind = "delta"
  <2>1. \A i \in 1 .. Len(outbox) : outbox[i].frame.kind \in {"delta", "error"} \cup Final
    <3>1. outbox \in Seq(Message)
      BY DEF TypeOK, Message
    <3>2. \A i \in 1 .. Len(outbox) : outbox[i] \in Message
      BY <3>1, ElementOfSeq
    <3> QED
      BY <3>2 DEF Message, Frame, Terminal
  <2> QED
    BY <1>1, <2>1 DEF OutboxOK
<1>8. TypeOK'
  BY <1>1, <1>3, <1>6 DEF TypeOK, streamVars, Message, Final
<1>9. OutboxOK'
  <2>1. \A i, j \in 1 .. Len(outbox') :
          i < j /\ outbox'[i].req = outbox'[j].req =>
            outbox'[i].frame.kind = "delta" /\ outbox'[j].frame.kind \in Terminal
    <3> SUFFICES ASSUME NEW i \in 1 .. Len(outbox'), NEW j \in 1 .. Len(outbox'),
                        i < j, outbox'[i].req = outbox'[j].req
                 PROVE  outbox'[i].frame.kind = "delta" /\ outbox'[j].frame.kind \in Terminal
      OBVIOUS
    <3>1. i \in 1 .. Len(outbox) /\ outbox'[i] = outbox[i]
      BY <1>6
    <3>2. CASE j = n
      BY <1>4, <1>6, <1>7, <3>1, <3>2 DEF Terminal, Final
    <3>3. CASE j \in 1 .. Len(outbox)
      BY <1>6, <3>1, <3>3 DEF OutboxOK
    <3> QED
      BY <1>6, <3>2, <3>3
  <2>2. ASSUME NEW i \in 1 .. Len(outbox')
        PROVE  /\ stage'[outbox'[i].req] # "new"
               /\ outbox'[i].frame.kind \in Final => stage'[outbox'[i].req] # "live"
               /\ outbox'[i].frame.kind = "error" => failures' > 0 /\ pc' = "deliver"
               /\ outbox'[i].frame.kind \in {"stop", "length"} =>
                    outbox'[i].frame.completion = produced'[outbox'[i].req]
               /\ outbox'[i].frame.kind = "cancel" =>
                    outbox'[i].frame.completion <= produced'[outbox'[i].req]
    <3>1. CASE i = n
      BY <1>3, <1>4, <1>6, <3>1 DEF TypeOK
    <3>2. CASE i \in 1 .. Len(outbox)
      <4>1. outbox'[i] = outbox[i]
        BY <1>6, <3>2
      <4>2. stage'[outbox[i].req] = stage[outbox[i].req] \/ stage'[outbox[i].req] = reason
        BY <1>3 DEF TypeOK
      <4> QED
        BY <1>1, <1>3, <3>2, <4>1, <4>2 DEF OutboxOK
    <3> QED
      BY <1>6, <3>1, <3>2
  <2> QED
    BY <1>1, <2>1, <2>2 DEF OutboxOK
<1>10. /\ \A x \in Request : Pending(x)' <=> Pending(x)
       /\ \A x \in Request : Ending(x) => Ending(x)'
       /\ Ending(r)'
  <2>1. ASSUME NEW x \in Request PROVE Pending(x)' <=> Pending(x)
    <3>1. Pending(x) => Pending(x)'
      BY <1>6 DEF Pending
    <3>2. ASSUME NEW i \in 1 .. Len(outbox'), outbox'[i].frame.kind = "delta"
          PROVE  i \in 1 .. Len(outbox) /\ outbox'[i] = outbox[i]
      BY <1>4, <1>6, <3>2
    <3> QED
      BY <3>1, <3>2 DEF Pending
  <2>2. \A x \in Request : Ending(x) => Ending(x)'
    BY <1>6 DEF Ending
  <2>3. Ending(r)'
    BY <1>4, <1>6 DEF Ending, Terminal, Final
  <2> QED
    BY <2>1, <2>2, <2>3
<1>11. SendersOK'
  <2>1. \A x \in Request : stage'[x] = IF x = r THEN reason ELSE stage[x]
    BY <1>3 DEF TypeOK
  <2>2. failures' = 0 /\ pc' # "exited" => Live' \subseteq inflight'
    BY <1>1, <2>1 DEF SendersOK, Live
  <2>3. \A x \in inflight : x \in Request /\ PendingTokens(x)' = PendingTokens(x)
    BY <1>10 DEF PendingTokens, TypeOK
  <2> QED
    BY <1>1, <1>3, <1>10, <2>1, <2>2, <2>3 DEF SendersOK, streamVars
<1>12. \A x \in Request : StreamOK(x)'
  <2> SUFFICES ASSUME NEW x \in Request PROVE StreamOK(x)'
    OBVIOUS
  <2>1. stage'[x] = stage[x] \/ stage'[x] # "new"
    BY <1>3 DEF TypeOK
  <2> QED
    BY <1>1, <1>3, <2>1 DEF StreamOK, streamVars, LastFrame, HasTerminal, Queued
<1> QED
  BY <1>8, <1>9, <1>11, <1>12

LEMMA StepDoneKeeps == ASSUME ActorInv, StepDone PROVE ActorInv'
<1> USE DEF ActorInv
<1>1. pc = "finish" /\ pc' = "deliver" /\ UNCHANGED <<genVars, streamVars, cmds, inflight, outbox, failures>>
  BY DEF StepDone
<1>2. TypeOK'
  BY <1>1 DEF TypeOK, genVars, streamVars
<1>3. OutboxOK'
  BY <1>1 DEF OutboxOK, genVars
<1>4. SendersOK'
  <2>1. \A x \in inflight : Ending(x)' = Ending(x) /\ PendingTokens(x)' = PendingTokens(x)
    BY <1>1 DEF Ending, PendingTokens, Pending
  <2> QED
    BY <1>1, <2>1 DEF SendersOK, Live, genVars, streamVars
<1>5. \A x \in Request : StreamOK(x)'
  BY <1>1, StreamFrame DEF genVars, streamVars, Queued
<1> QED
  BY <1>2, <1>3, <1>4, <1>5

LEMMA StepErrorKeeps == ASSUME ActorInv, StepError PROVE ActorInv'
<1> USE DEF ActorInv
<1>1. /\ pc = "loop" /\ outbox = <<>> /\ pc' = "deliver" /\ failures' = failures + 1
      /\ UNCHANGED <<genVars, streamVars, cmds, inflight>>
  BY DEF StepError, OutboxOK
<1>2. IsFiniteSet(inflight)
  BY ActorAssumption, FS_Subset DEF TypeOK
<1>3. PICK order \in SetToSeqs(inflight) :
        outbox' = [i \in 1 .. Len(order) |-> [req |-> order[i], frame |-> Error]]
  BY DEF StepError
<1>4. /\ order \in Seq(inflight) /\ Len(order) \in Nat
      /\ \A i \in 1 .. Len(order) : order[i] \in inflight
      /\ \A i, j \in 1 .. Len(order) : order[i] = order[j] => i = j
  BY <1>2, OrderOf, LenProperties, ElementOfSeq
<1>5. Error \in Frame /\ Error.kind = "error"
  BY DEF Error, Frame, Terminal
<1>6. outbox' \in Seq(Message) /\ Len(outbox') = Len(order)
  <2>1. outbox' \in [1 .. Len(order) -> Message]
    BY <1>3, <1>4, <1>5 DEF Message, TypeOK
  <2> QED
    BY <1>4, <2>1, SeqDef, LenProperties
<1>7. \A i \in 1 .. Len(outbox') : outbox'[i].req = order[i] /\ outbox'[i].frame = Error
  BY <1>3, <1>6
<1>8. \A r \in Request : ~Pending(r)'
  BY <1>5, <1>7 DEF Pending
<1>9. TypeOK'
  BY <1>1, <1>6 DEF TypeOK, genVars, streamVars, Message
<1>10. \A r \in inflight : stage[r] = "live" /\ produced[r] = Len(frames[r]) + 0
  BY <1>1, EmptyOutbox DEF SendersOK, TypeOK
<1>11. OutboxOK'
  <2>1. \A i \in 1 .. Len(outbox') : outbox'[i].req \in inflight /\ outbox'[i].frame.kind = "error"
    BY <1>4, <1>5, <1>6, <1>7
  <2>2. \A i, j \in 1 .. Len(outbox') : i < j => outbox'[i].req # outbox'[j].req
    BY <1>4, <1>6, <1>7
  <2>3. failures' > 0
    BY <1>1 DEF TypeOK
  <2> QED
    BY <1>1, <1>10, <2>1, <2>2, <2>3 DEF OutboxOK, Final, genVars
<1>12. SendersOK'
  <2>1. failures' # 0
    BY <1>1 DEF TypeOK
  <2>2. \A r \in inflight : produced[r] = Len(frames[r]) + PendingTokens(r)'
    BY <1>8, <1>10 DEF PendingTokens, TypeOK
  <2> QED
    BY <1>1, <1>10, <2>1, <2>2 DEF SendersOK, genVars, streamVars
<1>13. \A x \in Request : StreamOK(x)'
  BY <1>1, StreamFrame DEF genVars, streamVars, Queued
<1> QED
  BY <1>9, <1>11, <1>12, <1>13

-----------------------------------------------------------------------------
(* Sending what waits *)

\* The outbox without its head: nobody else's messages change, a token that is
\* sent leaves at most the end behind, and an end nothing.
LEMMA OutboxAfterTail ==
  ASSUME TypeOK, OutboxOK, outbox # <<>>, outbox' = Tail(outbox),
         NEW r, NEW frame, r = Head(outbox).req, frame = Head(outbox).frame
  PROVE  /\ outbox' \in Seq(Message) /\ r \in Request /\ frame \in Frame
         /\ Len(outbox) \in Nat \ {0} /\ Len(outbox') = Len(outbox) - 1
         /\ Head(outbox) = outbox[1]
         /\ \A i \in 1 .. Len(outbox') : i + 1 \in 1 .. Len(outbox) /\ outbox'[i] = outbox[i + 1]
         /\ \A x \in Request : x # r => (Pending(x)' <=> Pending(x)) /\ (Ending(x)' <=> Ending(x))
         /\ frame.kind = "delta" => Pending(r) /\ ~Pending(r)' /\ (Ending(r)' <=> Ending(r))
         /\ frame.kind # "delta" => ~Pending(r) /\ ~Pending(r)'
<1>1. outbox \in Seq(Message)
  BY DEF TypeOK, Message
<1>2. /\ Head(outbox) \in Message /\ Head(outbox) = outbox[1] /\ outbox' \in Seq(Message)
      /\ Len(outbox) \in Nat \ {0} /\ Len(outbox') = Len(outbox) - 1
      /\ \A i \in 1 .. Len(outbox) - 1 : outbox'[i] = outbox[i + 1]
  BY <1>1, TailOf
<1>3. r \in Request /\ frame \in Frame
  BY <1>2 DEF Message
<1>4. \A i \in 1 .. Len(outbox') : i + 1 \in 1 .. Len(outbox) /\ i + 1 > 1 /\ outbox'[i] = outbox[i + 1]
  BY <1>2
<1>5. \A i \in 1 .. Len(outbox) : i = 1 \/ (i - 1 \in 1 .. Len(outbox') /\ outbox'[i - 1] = outbox[i])
  <2> SUFFICES ASSUME NEW i \in 1 .. Len(outbox), i # 1
               PROVE  i - 1 \in 1 .. Len(outbox') /\ outbox'[i - 1] = outbox[i]
    OBVIOUS
  <2>1. i - 1 \in 1 .. Len(outbox') /\ (i - 1) + 1 = i
    BY <1>2
  <2> QED
    BY <1>2, <2>1
<1>6. \A i \in 1 .. Len(outbox') :
        outbox'[i].req = r => frame.kind = "delta" /\ outbox'[i].frame.kind \in Terminal
  BY <1>2, <1>4 DEF OutboxOK
<1>7. \A x \in Request : x # r => (Pending(x)' <=> Pending(x)) /\ (Ending(x)' <=> Ending(x))
  <2> SUFFICES ASSUME NEW x \in Request, x # r
               PROVE  (Pending(x)' <=> Pending(x)) /\ (Ending(x)' <=> Ending(x))
    OBVIOUS
  <2>1. outbox[1].req # x
    BY <1>2
  <2>2. Pending(x)' => Pending(x)
    BY <1>4 DEF Pending
  <2>3. Pending(x) => Pending(x)'
    BY <1>5, <2>1 DEF Pending
  <2>4. Ending(x)' => Ending(x)
    BY <1>4 DEF Ending
  <2>5. Ending(x) => Ending(x)'
    BY <1>5, <2>1 DEF Ending
  <2> QED
    BY <2>2, <2>3, <2>4, <2>5
<1>8. "delta" \notin Terminal
  BY DEF Terminal, Final
<1>9. ~Pending(r)'
  BY <1>6, <1>8 DEF Pending
<1>10. ASSUME frame.kind = "delta" PROVE Pending(r) /\ (Ending(r)' <=> Ending(r))
  <2>1. 1 \in 1 .. Len(outbox) /\ outbox[1].req = r /\ outbox[1].frame.kind = "delta"
    BY <1>2, <1>10
  <2>2. Ending(r)' => Ending(r)
    BY <1>4 DEF Ending
  <2>3. Ending(r) => Ending(r)'
    BY <1>5, <1>8, <2>1 DEF Ending
  <2> QED
    BY <2>1, <2>2, <2>3 DEF Pending
<1>11. ASSUME frame.kind # "delta" PROVE ~Pending(r)
  <2>1. ASSUME NEW i \in 1 .. Len(outbox), outbox[i].req = r, outbox[i].frame.kind = "delta"
        PROVE  FALSE
    <3>1. i # 1
      BY <1>2, <1>11, <2>1
    <3>2. i - 1 \in 1 .. Len(outbox') /\ outbox'[i - 1].req = r
      BY <1>5, <2>1, <3>1
    <3> QED
      BY <1>6, <1>11, <3>2
  <2> QED
    BY <2>1 DEF Pending
<1> QED
  BY <1>2, <1>3, <1>4, <1>7, <1>9, <1>10, <1>11

\* What is left of the outbox is still in order, whatever becomes of the
\* request whose message was sent, if it does not become new or live again.
LEMMA OutboxLeft ==
  ASSUME TypeOK, OutboxOK, outbox # <<>>, outbox' = Tail(outbox), pc = "deliver",
         pc' = pc, failures' = failures, produced' = produced,
         \A x \in Request : stage'[x] = stage[x] \/ stage'[x] = "cancel"
  PROVE  OutboxOK'
<1>1. /\ \A i \in 1 .. Len(outbox') : i + 1 \in 1 .. Len(outbox) /\ outbox'[i] = outbox[i + 1]
      /\ outbox' \in Seq(Message) /\ Len(outbox') \in Nat
  BY OutboxAfterTail, LenProperties
<1>2. \A i, j \in 1 .. Len(outbox') :
        i < j /\ outbox'[i].req = outbox'[j].req =>
          outbox'[i].frame.kind = "delta" /\ outbox'[j].frame.kind \in Terminal
  <2> SUFFICES ASSUME NEW i \in 1 .. Len(outbox'), NEW j \in 1 .. Len(outbox'),
                      i < j, outbox'[i].req = outbox'[j].req
               PROVE  outbox'[i].frame.kind = "delta" /\ outbox'[j].frame.kind \in Terminal
    OBVIOUS
  <2>1. i + 1 < j + 1
    BY <1>1
  <2> QED
    BY <1>1, <2>1 DEF OutboxOK
<1>3. ASSUME NEW i \in 1 .. Len(outbox')
      PROVE  /\ stage'[outbox'[i].req] # "new"
             /\ outbox'[i].frame.kind \in Final => stage'[outbox'[i].req] # "live"
             /\ outbox'[i].frame.kind = "error" => failures' > 0 /\ pc' = "deliver"
             /\ outbox'[i].frame.kind \in {"stop", "length"} =>
                  outbox'[i].frame.completion = produced'[outbox'[i].req]
             /\ outbox'[i].frame.kind = "cancel" =>
                  outbox'[i].frame.completion <= produced'[outbox'[i].req]
  <2>1. outbox'[i] \in Message
    BY <1>1, ElementOfSeq
  <2>2. outbox'[i].req \in Request
    BY <2>1 DEF Message
  <2>3. stage'[outbox'[i].req] = stage[outbox'[i].req] \/ stage'[outbox'[i].req] = "cancel"
    BY <2>2
  <2> QED
    BY <1>1, <2>3 DEF OutboxOK
<1> QED
  BY <1>2, <1>3 DEF OutboxOK

LEMMA DeliverKeeps == ASSUME ActorInv, Deliver PROVE ActorInv'
<1> USE DEF ActorInv
<1>1. /\ pc = "deliver" /\ outbox # <<>> /\ outbox' = Tail(outbox)
      /\ UNCHANGED <<client, cancelled, read, cmds, pc, failures>>
  BY DEF Deliver
<1>2. PICK r \in Request, frame \in Frame : r = Head(outbox).req /\ frame = Head(outbox).frame
  BY <1>1, OutboxAfterTail
<1>3. /\ outbox' \in Seq(Message) /\ 1 \in 1 .. Len(outbox)
      /\ outbox[1].req = r /\ outbox[1].frame = frame
      /\ \A x \in Request : x # r => (Pending(x)' <=> Pending(x)) /\ (Ending(x)' <=> Ending(x))
      /\ frame.kind = "delta" => Pending(r) /\ ~Pending(r)' /\ (Ending(r)' <=> Ending(r))
      /\ frame.kind # "delta" => ~Pending(r) /\ ~Pending(r)'
  BY <1>1, <1>2, OutboxAfterTail
<1>4. \A x \in Request : x # r => PendingTokens(x)' = PendingTokens(x)
  BY <1>3 DEF PendingTokens
<1>5. PendingTokens(r)' = 0 /\ PendingTokens(r) = IF frame.kind = "delta" THEN 1 ELSE 0
  BY <1>3 DEF PendingTokens
<1>6. frame.kind \in {"delta", "error"} \cup Final /\ (frame.kind # "delta" <=> frame.kind \in Terminal)
  BY DEF Frame, Terminal, Final
<1>7. /\ stage[r] # "new"
      /\ frame.kind \in Final => stage[r] # "live"
      /\ frame.kind = "error" => failures > 0
      /\ frame.kind \in {"stop", "length"} => frame.completion = produced[r]
      /\ frame.kind = "cancel" => frame.completion <= produced[r]
  BY <1>1, <1>3 DEF OutboxOK
<1>8. frame.kind # "delta" /\ failures = 0 => r \notin Live
  BY <1>6, <1>7 DEF Live
<1>9. /\ frames \in [Request -> Seq(Frame)] /\ stage \in [Request -> {"new", "live", "rejected"} \cup Final]
      /\ produced \in [Request -> Nat] /\ inflight \in SUBSET Request /\ limit \in [Request -> Nat]
  BY DEF TypeOK
<1>10. CASE r \notin inflight /\ UNCHANGED <<genVars, frames, inflight>>
  <2>1. TypeOK'
    BY <1>1, <1>3, <1>10 DEF TypeOK, genVars, Message
  <2>2. OutboxOK'
    BY <1>1, <1>10, OutboxLeft DEF genVars
  <2>3. SendersOK'
    BY <1>1, <1>3, <1>4, <1>9, <1>10 DEF SendersOK, genVars, Live
  <2>4. \A x \in Request : StreamOK(x)'
    BY <1>1, <1>10, StreamFrame DEF genVars, Queued
  <2> QED
    BY <2>1, <2>2, <2>3, <2>4
<1>11. CASE r \in inflight /\ client[r] = "gone" /\ SendFailed(r, frame) /\ UNCHANGED frames
  <2>1. /\ inflight' = inflight \ {r} /\ produced' = produced /\ limit' \in [Request -> Nat]
        /\ stage' \in [Request -> {"new", "live", "rejected"} \cup Final]
        /\ \A x \in Request : x # r => stage'[x] = stage[x]
        /\ stage'[r] = stage[r] \/ stage'[r] = "cancel"
        /\ stage'[r] = "live" => frame.kind # "delta" /\ stage[r] = "live"
    <3>1. CASE frame.kind = "delta" /\ r \in Live
      <4>1. inflight' = inflight \ {r} /\ End(r, "cancel")
        BY <1>11, <3>1 DEF SendFailed
      <4>2. /\ stage' = [stage EXCEPT ![r] = "cancel"] /\ limit' = [limit EXCEPT ![r] = 0]
            /\ produced' = produced
        BY <4>1 DEF End
      <4> QED
        BY <1>9, <4>1, <4>2 DEF Final
    <3>2. CASE ~(frame.kind = "delta" /\ r \in Live)
      <4>1. inflight' = inflight \ {r} /\ UNCHANGED genVars
        BY <1>11, <3>2 DEF SendFailed
      <4> QED
        BY <1>9, <3>2, <4>1 DEF genVars, Live
    <3> QED
      BY <3>1, <3>2
  <2>2. TypeOK'
    BY <1>1, <1>3, <1>9, <1>11, <2>1 DEF TypeOK, Message
  <2>3. OutboxOK'
    BY <1>1, <1>11, <2>1, OutboxLeft
  <2>4. SendersOK'
    <3>1. failures' = 0 /\ pc' # "exited" => Live' \subseteq inflight'
      BY <1>1, <1>8, <2>1 DEF SendersOK, Live
    <3>2. ASSUME NEW x \in inflight'
          PROVE  /\ stage'[x] = "live" \/ (stage'[x] # "new" /\ Ending(x)')
                 /\ \A i \in 1 .. Len(frames'[x]) : frames'[x][i].kind = "delta"
                 /\ produced'[x] = Len(frames'[x]) + PendingTokens(x)'
      <4>1. x \in inflight /\ x \in Request /\ x # r
        BY <1>9, <2>1
      <4> QED
        BY <1>3, <1>4, <1>11, <2>1, <4>1 DEF SendersOK
    <3> QED
      BY <3>1, <3>2 DEF SendersOK
  <2>5. \A x \in Request : StreamOK(x)'
    <3> SUFFICES ASSUME NEW x \in Request PROVE StreamOK(x)'
      OBVIOUS
    <3>1. CASE x = r
      <4>1. stage'[r] # "new" /\ client'[r] # "open"
        BY <1>1, <1>7, <1>11, <2>1
      <4> QED
        BY <1>11, <3>1, <4>1 DEF StreamOK, LastFrame
    <3>2. CASE x # r
      BY <1>1, <1>11, <2>1, <3>2, StreamFrame DEF Queued
    <3> QED
      BY <3>1, <3>2
  <2> QED
    BY <2>2, <2>3, <2>4, <2>5
<1>12. CASE /\ r \in inflight /\ client[r] = "open" /\ frames' = [frames EXCEPT ![r] = Append(@, frame)]
            /\ inflight' = SendersAfter(r, frame) /\ UNCHANGED genVars
  <2> DEFINE n == Len(frames[r])
  <2>1. /\ n \in Nat /\ frames'[r] \in Seq(Frame) /\ Len(frames'[r]) = n + 1
        /\ \A i \in 1 .. n : frames'[r][i] = frames[r][i]
        /\ frames'[r][n + 1] = frame /\ frames'[r] # <<>>
    <3>1. frames'[r] = Append(frames[r], frame) /\ frames[r] \in Seq(Frame)
      BY <1>9, <1>12
    <3> QED
      BY <3>1, AppendTo, AppendProperties
  <2>2. \A x \in Request : x # r => frames'[x] = frames[x]
    BY <1>9, <1>12
  <2>3. /\ \A i \in 1 .. n : frames[r][i].kind = "delta"
        /\ produced[r] = n + PendingTokens(r)
    BY <1>12 DEF SendersOK
  <2>4. inflight' = IF frame.kind = "delta" THEN inflight ELSE inflight \ {r}
    BY <1>6, <1>12 DEF SendersAfter
  <2>5. frames' \in [Request -> Seq(Frame)]
    BY <1>9, <1>12, <2>1
  <2>6. TypeOK'
    BY <1>1, <1>3, <1>9, <1>12, <2>4, <2>5 DEF TypeOK, Message, genVars
  <2>7. OutboxOK'
    BY <1>1, <1>12, OutboxLeft DEF genVars
  <2>8. SendersOK'
    <3>1. failures' = 0 /\ pc' # "exited" => Live' \subseteq inflight'
      BY <1>1, <1>8, <1>12, <2>4 DEF SendersOK, Live, genVars
    <3>2. ASSUME NEW x \in inflight'
          PROVE  /\ stage'[x] = "live" \/ (stage'[x] # "new" /\ Ending(x)')
                 /\ \A i \in 1 .. Len(frames'[x]) : frames'[x][i].kind = "delta"
                 /\ produced'[x] = Len(frames'[x]) + PendingTokens(x)'
      <4>1. x \in inflight /\ x \in Request
        BY <1>9, <2>4
      <4>2. CASE x = r
        <5>1. frame.kind = "delta"
          BY <2>4, <4>2
        <5>2. stage'[r] = "live" \/ (stage'[r] # "new" /\ Ending(r)')
          BY <1>3, <1>12, <5>1 DEF SendersOK, genVars
        <5>3. \A i \in 1 .. Len(frames'[r]) : frames'[r][i].kind = "delta"
          BY <2>1, <2>3, <5>1
        <5>4. produced'[r] = Len(frames'[r]) + PendingTokens(r)'
          BY <1>5, <1>12, <2>1, <2>3, <5>1 DEF genVars
        <5> QED
          BY <4>2, <5>2, <5>3, <5>4
      <4>3. CASE x # r
        BY <1>3, <1>4, <1>12, <2>2, <4>1, <4>3 DEF SendersOK, genVars
      <4> QED
        BY <4>2, <4>3
    <3> QED
      BY <3>1, <3>2 DEF SendersOK
  <2>9. StreamOK(r)'
    <3>1. LastFrame(r)' = frame
      BY <2>1 DEF LastFrame
    <3>2. \A i \in 1 .. Len(frames'[r]) : frames'[r][i].kind # "delta" => i = Len(frames'[r])
      BY <2>1, <2>3
    <3>3. frame.kind # "delta" => produced[r] = Len(frames'[r]) - 1
      BY <1>5, <2>1, <2>3
    <3>4. r \in inflight' \/ HasTerminal(r)'
      BY <1>6, <1>12, <2>1, <2>4, <3>1 DEF HasTerminal
    <3>5. stage'[r] # "new"
      BY <1>7, <1>12 DEF genVars
    <3>6. /\ frame.kind \in {"stop", "length"} => frame.completion = Len(frames'[r]) - 1
          /\ frame.kind = "cancel" => frame.completion <= Len(frames'[r]) - 1
      BY <1>7, <3>3
    <3> QED
      BY <2>1, <3>1, <3>2, <3>4, <3>5, <3>6 DEF StreamOK
  <2>10. ASSUME NEW x \in Request, x # r PROVE StreamOK(x)'
    BY <1>1, <1>12, <2>2, <2>4, <2>10, StreamFrame DEF genVars, Queued
  <2> QED
    BY <2>6, <2>7, <2>8, <2>9, <2>10
<1> QED
  BY <1>2, <1>10, <1>11, <1>12 DEF Deliver

LEMMA DeliverDoneKeeps == ASSUME ActorInv, DeliverDone PROVE ActorInv'
<1> USE DEF ActorInv
<1>1. /\ pc = "deliver" /\ outbox = <<>> /\ pc' = "loop"
      /\ UNCHANGED <<genVars, streamVars, cmds, inflight, outbox, failures>>
  BY DEF DeliverDone
<1>2. TypeOK'
  BY <1>1 DEF TypeOK, genVars, streamVars
<1>3. OutboxOK'
  BY <1>1, EmptySeq DEF OutboxOK
<1>4. SendersOK'
  <2>1. \A x \in inflight : Ending(x)' = Ending(x) /\ PendingTokens(x)' = PendingTokens(x)
    BY <1>1 DEF Ending, PendingTokens, Pending
  <2> QED
    BY <1>1, <2>1 DEF SendersOK, Live, genVars, streamVars
<1>5. \A x \in Request : StreamOK(x)'
  BY <1>1, StreamFrame DEF genVars, streamVars, Queued
<1> QED
  BY <1>2, <1>3, <1>4, <1>5

-----------------------------------------------------------------------------
(* The invariant, and what it says of the streams *)

LEMMA ActorInvAlways == Spec => []ActorInv
<1>1. ActorInv /\ [Next]_vars => ActorInv'
  <2> SUFFICES ASSUME ActorInv, [Next]_vars PROVE ActorInv'
    OBVIOUS
  <2>1. ASSUME NEW r \in Request, Infer(r) \/ SendCancel(r) \/ Read(r) \/ Disconnect(r)
        PROVE  ActorInv'
    BY <2>1, CallersKeep
  <2>2. CASE UnloadModel
    BY <2>2, UnloadKeeps
  <2>3. CASE Thread
    BY <2>3, HandleInferKeeps, HandleCancelKeeps, HandleShutdownKeeps, StepTokensKeeps,
       StepFinishKeeps, StepDoneKeeps, DeliverKeeps, DeliverDoneKeeps DEF Thread
  <2>4. CASE StepError
    BY <2>4, StepErrorKeeps
  <2>5. CASE UNCHANGED vars
    <3>1. OutboxOK' /\ SendersOK'
      BY <2>5, ThreadFrame DEF ActorInv, vars, actorVars, streamVars
    <3>2. TypeOK'
      BY <2>5 DEF ActorInv, TypeOK, vars, genVars, actorVars, streamVars
    <3>3. \A x \in Request : StreamOK(x)'
      BY <2>5, StreamFrame DEF ActorInv, vars, genVars, actorVars, streamVars, Queued
    <3> QED
      BY <3>1, <3>2, <3>3 DEF ActorInv
  <2> QED
    BY <2>1, <2>2, <2>3, <2>4, <2>5 DEF Next
<1> QED
  BY <1>1, InitActorInv, PTL DEF Spec

\* The tokens of a stream are its frames but for the end.
LEMMA DeltasAreFrames ==
  ASSUME TypeOK, NEW r \in Request,
         \A i \in 1 .. Len(frames[r]) : frames[r][i].kind # "delta" => i = Len(frames[r])
  PROVE  /\ frames[r] # <<>> /\ LastFrame(r).kind # "delta" => Deltas(r) = Len(frames[r]) - 1
         /\ frames[r] = <<>> \/ LastFrame(r).kind = "delta" => Deltas(r) = Len(frames[r])
<1> DEFINE n == Len(frames[r])
           D == {i \in 1 .. n : frames[r][i].kind = "delta"}
<1>1. n \in Nat /\ (frames[r] # <<>> => n > 0) /\ (frames[r] = <<>> => n = 0)
  BY EmptySeq, LenProperties DEF TypeOK
<1>2. ASSUME frames[r] # <<>>, LastFrame(r).kind # "delta" PROVE Deltas(r) = n - 1
  <2>1. D = 1 .. n - 1
    BY <1>1, <1>2 DEF LastFrame
  <2>2. Cardinality(1 .. n - 1) = n - 1
    BY <1>1, <1>2, FS_Interval
  <2>3. Deltas(r) = Cardinality(D)
    BY DEF Deltas
  <2> QED
    BY <2>1, <2>2, <2>3
<1>3. ASSUME frames[r] = <<>> \/ LastFrame(r).kind = "delta" PROVE Deltas(r) = n
  <2>1. D = 1 .. n
    BY <1>1, <1>3 DEF LastFrame
  <2>2. Cardinality(1 .. n) = n
    BY <1>1, FS_Interval
  <2>3. Deltas(r) = Cardinality(D)
    BY DEF Deltas
  <2> QED
    BY <2>1, <2>2, <2>3
<1> QED
  BY <1>2, <1>3

\* Streams carry at most one end, as their last frame, and are closed without
\* one only by a shutdown, for any number of callers, cancels and errors.
THEOREM StreamsEndOnce == Spec => []EndsOnceWithReason
<1>1. ActorInv => EndsOnceWithReason
  <2> SUFFICES ASSUME ActorInv, NEW r \in Request
               PROVE  /\ \A i \in 1 .. Len(frames[r]) :
                           frames[r][i].kind \in Terminal => i = Len(frames[r])
                      /\ Closed(r) => HasTerminal(r) \/ pc = "exited"
    BY DEF EndsOnceWithReason
  <2>1. "delta" \notin Terminal
    BY DEF Terminal, Final
  <2> QED
    BY <2>1 DEF ActorInv, StreamOK, Closed
<1> QED
  BY <1>1, ActorInvAlways, PTL

\* Between steps the thread's map holds senders of requests that run only, and,
\* before any model error, of all that run.
THEOREM SendersTrackEngine == Spec => []InflightTracksEngine
<1>1. ActorInv => InflightTracksEngine
  <2> SUFFICES ASSUME ActorInv, pc = "loop"
               PROVE  inflight \subseteq Live /\ (failures = 0 => Live \subseteq inflight)
    BY DEF InflightTracksEngine
  <2>1. \A r \in inflight : r \in Request /\ ~Ending(r)
    BY EmptyOutbox DEF ActorInv, OutboxOK, TypeOK
  <2> QED
    BY <2>1 DEF ActorInv, SendersOK, Live
<1> QED
  BY <1>1, ActorInvAlways, PTL

\* Every token of a request with a sender is in its channel between steps, and
\* a finished stream is billed exactly the tokens it carries.
THEOREM TokensReachTheirStream == Spec => []TokensAccounted
<1>1. ActorInv => TokensAccounted
  <2> SUFFICES ASSUME ActorInv PROVE TokensAccounted
    OBVIOUS
  <2>1. ASSUME pc = "loop", NEW r \in inflight PROVE produced[r] = Deltas(r)
    <3>1. r \in Request /\ outbox = <<>>
      BY <2>1 DEF ActorInv, OutboxOK, TypeOK
    <3>2. /\ \A i \in 1 .. Len(frames[r]) : frames[r][i].kind = "delta"
          /\ produced[r] = Len(frames[r]) + 0 /\ produced[r] \in Nat /\ Len(frames[r]) \in Nat
      BY <3>1, EmptyOutbox, LenProperties DEF ActorInv, SendersOK, TypeOK
    <3>3. frames[r] = <<>> \/ LastFrame(r).kind = "delta"
      <4>1. frames[r] # <<>> => Len(frames[r]) \in 1 .. Len(frames[r])
        BY <3>1, EmptySeq DEF ActorInv, TypeOK
      <4> QED
        BY <3>2, <4>1 DEF LastFrame
    <3>4. Deltas(r) = Len(frames[r])
      BY <3>1, <3>2, <3>3, DeltasAreFrames DEF ActorInv
    <3> QED
      BY <3>2, <3>4
  <2>2. ASSUME NEW r \in Request, frames[r] # <<>>
        PROVE  /\ LastFrame(r).kind \in {"stop", "length"} => LastFrame(r).completion = Deltas(r)
               /\ LastFrame(r).kind = "cancel" => LastFrame(r).completion <= Deltas(r)
    <3>1. LastFrame(r).kind # "delta" => Deltas(r) = Len(frames[r]) - 1
      BY <2>2, DeltasAreFrames DEF ActorInv, StreamOK
    <3> QED
      BY <2>2, <3>1 DEF ActorInv, StreamOK
  <2> QED
    BY <2>1, <2>2 DEF TokensAccounted, ActorInv
<1> QED
  BY <1>1, ActorInvAlways, PTL
=============================================================================
