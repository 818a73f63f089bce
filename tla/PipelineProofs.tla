--------------------------- MODULE PipelineProofs ---------------------------
(***************************************************************************)
(* Proofs about the pipeline: its handlers are callers the store can live  *)
(* with, so that what is proved of the store holds in the proxy.           *)
(***************************************************************************)
EXTENDS Pipeline, MemoryStoreProofs

\* A replay that has found its source holds a conversation's client and tag.
SourceHeld ==
    /\ pc \in [ExId -> Pc]
    /\ source \in [ExId -> [client : ClientId, tag : Tags] \cup {None}]
    /\ \A id \in ExId : pc[id] = "lookup" => source[id] \in [client : ClientId, tag : Tags]

\* The inductive invariant.
PipeInv ==
    /\ IInv
    /\ SourceHeld
    /\ CallerProtocol

\* The invariant holds before the first request.
LEMMA InitPipeInv == PipeInit => PipeInv
<1> SUFFICES ASSUME PipeInit PROVE PipeInv
  OBVIOUS
<1>1. IInv
  BY InitIInv DEF PipeInit
<1>2. SourceHeld
  BY DEF PipeInit, SourceHeld, Pc
<1>3. CallerProtocol
  BY DEF PipeInit, StoreInit, CallerProtocol, At, Open, Running
<1> QED BY <1>1, <1>2, <1>3 DEF PipeInv
-----------------------------------------------------------------------------
\* What the steps of a handler have to say about its call: it is opened, it is
\* ended, or the store is left alone.
LEMMA OpensCall ==
    ASSUME PipeInv, NEW id \in ExId, NEW c \in ClientId, NEW t \in Tags,
           Forward(id, c, t)
    PROVE  StoreNext /\ pc' \in [ExId -> Pc] /\ pc'[id] = "connecting"
           /\ (\A x \in ExId \ {id} : pc'[x] = pc[x]) /\ CallerProtocol'
<1>1. /\ call' = [call EXCEPT ![id] = [client |-> c, tag |-> t, state |-> "open"]]
      /\ pc' = [pc EXCEPT ![id] = "connecting"]
  BY DEF Forward, BeginExchange, Goto
<1>2. call \in [ExId -> Call \cup {None}] /\ pc \in [ExId -> Pc]
  BY DEF PipeInv, IInv, TypeOK, SourceHeld
<1>3. [client |-> c, tag |-> t, state |-> "open"] # None
  <2>1. [client |-> c, tag |-> t, state |-> "open"] \in Call
    BY DEF Call
  <2> QED BY <2>1, StoreAssumption
<1>4. StoreNext
  BY DEF Forward, StoreNext
<1>5. pc' \in [ExId -> Pc]
  BY <1>1, <1>2 DEF Pc
<1>6. CallerProtocol'
  BY <1>1, <1>2, <1>3 DEF PipeInv, CallerProtocol, At, Open, Running
<1> QED BY <1>1, <1>2, <1>4, <1>5, <1>6

\* A handler that captures its exchange ends the call.
LEMMA EndsCall ==
    ASSUME PipeInv, NEW id \in ExId, AddExchange(id), Goto(id, "ended")
    PROVE  StoreNext /\ pc' \in [ExId -> Pc] /\ pc'[id] = "ended"
           /\ (\A x \in ExId \ {id} : pc'[x] = pc[x]) /\ CallerProtocol'
<1>1. StoreNext
  BY DEF StoreNext
<1>2. PICK r \in {"stored", "dropped"} : call' = [call EXCEPT ![id].state = r]
  BY DEF AddExchange, AddRemoved, AddPending, AddUnknown, AddTo
<1>3. call \in [ExId -> Call \cup {None}] /\ pc \in [ExId -> Pc]
  BY DEF PipeInv, IInv, TypeOK, SourceHeld
<1>4. call[id] \in Call
  BY <1>3 DEF AddExchange, AddRemoved, AddPending, AddUnknown, Open
<1>5. call'[id].state = r
  BY <1>2, <1>3, <1>4 DEF Call
<1>6. pc' = [pc EXCEPT ![id] = "ended"]
  BY DEF Goto
<1>7. pc' \in [ExId -> Pc]
  BY <1>3, <1>6 DEF Pc
<1>8. \A x \in ExId \ {id} : call'[x] = call[x] /\ pc'[x] = pc[x]
  BY <1>2, <1>3, <1>6
<1>9. CallerProtocol'
  <2> SUFFICES ASSUME NEW x \in ExId
               PROVE  At(x, Running \cup {"failed"})' <=> Open(x)'
    BY DEF CallerProtocol
  <2>1. CASE x = id
    BY <2>1, <1>3, <1>5, <1>6 DEF At, Open, Running
  <2>2. CASE x # id
    BY <2>2, <1>8 DEF PipeInv, CallerProtocol, At, Open
  <2> QED BY <2>1, <2>2
<1> QED BY <1>1, <1>3, <1>6, <1>7, <1>8, <1>9

\* A handler that moves on without the store keeps the call as it is.
LEMMA KeepsCall ==
    ASSUME PipeInv, UNCHANGED storeVars, NEW id \in ExId, NEW place \in Pc,
           Goto(id, place), pc[id] # "lookup", place # "lookup",
           pc[id] \in Running \cup {"failed"} <=> place \in Running \cup {"failed"}
    PROVE  pc' \in [ExId -> Pc] /\ pc'[id] # "lookup"
           /\ (\A x \in ExId \ {id} : pc'[x] = pc[x]) /\ CallerProtocol'
<1>1. pc' = [pc EXCEPT ![id] = place] /\ call' = call
  BY DEF Goto, storeVars
<1>2. pc \in [ExId -> Pc]
  BY DEF PipeInv, SourceHeld
<1> QED BY <1>1, <1>2 DEF PipeInv, CallerProtocol, At, Open

\* The UI's requests and the clock leave the calls alone.
LEMMA EnvironmentStep ==
    ASSUME PipeInv, Environment
    PROVE  StoreNext /\ UNCHANGED <<pc, source, call>>
<1>1. CASE Tick
  BY <1>1 DEF Environment, Tick, StoreNext
<1>2. CASE UiStep
  <2>1. UNCHANGED call
    BY <1>2 DEF UiStep, ClearConversation, RemoveExchange, RemoveClient
  <2> QED BY <1>2, <2>1 DEF Environment, StoreNext
<1> QED BY <1>1, <1>2 DEF Environment
-----------------------------------------------------------------------------
\* Every step of a handler is a step of the store or leaves it alone.
LEMMA HandlerStep ==
    ASSUME PipeInv, NEW id \in ExId,
           \/ \E c \in ClientId, t \in Tags : Handle(id, c, t)
           \/ \E cid \in ConvIds : ReplayLookup(id, cid)
           \/ Replay(id) \/ ClientGone(id) \/ Chunk(id) \/ Progress(id) \/ Breaks(id)
    PROVE  [StoreNext]_storeVars /\ SourceHeld' /\ CallerProtocol'
<1> USE DEF At
<1>0. SourceHeld
  BY DEF PipeInv
<1>1. CASE \E c \in ClientId, t \in Tags : Handle(id, c, t)
  <2>1. PICK c \in ClientId, t \in Tags : Handle(id, c, t)
    BY <1>1
  <2>2. Forward(id, c, t) /\ source' = source
    BY <2>1 DEF Handle
  <2> QED BY <2>2, <1>0, OpensCall DEF SourceHeld
<1>2. CASE \E cid \in ConvIds : ReplayLookup(id, cid)
  <2>1. PICK cid \in ConvIds : ReplayLookup(id, cid)
    BY <1>2
  <2> DEFINE s == [client |-> convs[cid].client, tag |-> convs[cid].tag]
  <2>2. s \in [client : ClientId, tag : Tags]
    <3>1. convs[cid] \in Conversation
      BY <2>1 DEF ReplayLookup, Has, PipeInv, IInv, TypeOK
    <3> QED BY <3>1 DEF Conversation
  <2>3. /\ pc[id] = "idle" /\ pc' = [pc EXCEPT ![id] = "lookup"]
        /\ source' = [source EXCEPT ![id] = s] /\ UNCHANGED storeVars
    BY <2>1 DEF ReplayLookup, Goto
  <2> HIDE DEF s
  <2>4. SourceHeld'
    BY <2>2, <2>3, <1>0 DEF SourceHeld, Pc
  <2>5. CallerProtocol'
    BY <2>3, <1>0 DEF PipeInv, SourceHeld, CallerProtocol, Open, Running, storeVars
  <2> QED BY <2>3, <2>4, <2>5
<1>3. CASE Replay(id)
  <2>1. pc[id] = "lookup" /\ source' = source
    BY <1>3 DEF Replay
  <2>2. source[id] \in [client : ClientId, tag : Tags]
    BY <2>1, <1>0 DEF SourceHeld
  <2>3. PICK c \in ClientId, t \in Tags : c = source[id].client /\ t = source[id].tag
    BY <2>2
  <2>4. Forward(id, c, t)
    BY <1>3, <2>3 DEF Replay
  <2> QED BY <2>1, <2>4, <1>0, OpensCall DEF SourceHeld
<1>4. CASE \/ UpstreamFails(id) \/ ClientGone(id) \/ Drained(id) \/ StreamCaptured(id)
  <2>1. AddExchange(id) /\ Goto(id, "ended") /\ source' = source
    BY <1>4 DEF UpstreamFails, ClientGone, Drained, StreamCaptured, Capture
  <2> QED BY <2>1, <1>0, EndsCall DEF SourceHeld
<1>5. CASE \/ UpstreamHead(id) \/ DrainedBadUsage(id) \/ StreamStarts(id)
           \/ StreamOver(id) \/ StreamLost(id)
  <2>1. /\ UNCHANGED storeVars /\ source' = source
        /\ pc[id] \in {"connecting", "draining", "responding", "streaming", "closing"}
        /\ \E place \in {"draining", "responding", "streaming", "closing", "failed"} :
              Goto(id, place)
    BY <1>5 DEF UpstreamHead, DrainedBadUsage, StreamStarts, StreamOver, StreamLost
  <2>2. PICK place \in {"draining", "responding", "streaming", "closing", "failed"} :
              Goto(id, place)
    BY <2>1
  <2>3. /\ place \in Pc /\ pc[id] # "lookup" /\ place # "lookup"
        /\ pc[id] \in Running \cup {"failed"} <=> place \in Running \cup {"failed"}
    BY <2>1 DEF Pc, Running
  <2>4. pc' \in [ExId -> Pc] /\ pc'[id] # "lookup"
           /\ (\A x \in ExId \ {id} : pc'[x] = pc[x]) /\ CallerProtocol'
    BY <2>1, <2>2, <2>3, KeepsCall
  <2> QED BY <2>1, <2>4, <1>0 DEF SourceHeld
<1>6. CASE Chunk(id)
  <2>1. UNCHANGED <<storeVars, pc, source>>
    BY <1>6 DEF Chunk
  <2> QED BY <2>1, <1>0 DEF SourceHeld, PipeInv, CallerProtocol, Open, storeVars
<1> QED BY <1>1, <1>2, <1>3, <1>4, <1>5, <1>6 DEF Progress, Breaks

\* Every step of the pipeline keeps the invariant, and is one the store allows.
LEMMA StepPipeInv ==
    PipeInv /\ [PipeNext]_vars => PipeInv' /\ [StoreNext]_storeVars
<1> SUFFICES ASSUME PipeInv, [PipeNext]_vars
             PROVE  PipeInv' /\ [StoreNext]_storeVars
  OBVIOUS
<1>1. [StoreNext]_storeVars /\ SourceHeld' /\ CallerProtocol'
  <2>1. CASE UNCHANGED vars
    BY <2>1 DEF vars, pipeVars, storeVars, PipeInv, SourceHeld, CallerProtocol, At, Open
  <2>2. CASE Environment
    <3>1. StoreNext /\ UNCHANGED <<pc, source, call>>
      BY <2>2, EnvironmentStep
    <3> QED BY <3>1 DEF PipeInv, SourceHeld, CallerProtocol, At, Open
  <2>3. ASSUME NEW id \in ExId,
               \/ \E c \in ClientId, t \in Tags : Handle(id, c, t)
               \/ \E cid \in ConvIds : ReplayLookup(id, cid)
               \/ Replay(id) \/ ClientGone(id) \/ Chunk(id) \/ Progress(id) \/ Breaks(id)
        PROVE  [StoreNext]_storeVars /\ SourceHeld' /\ CallerProtocol'
    BY <2>3, HandlerStep
  <2> QED BY <2>1, <2>2, <2>3 DEF PipeNext
<1>2. IInv'
  BY <1>1, StepIInv DEF PipeInv
<1> QED BY <1>1, <1>2 DEF PipeInv

\* The invariant holds in every reachable state of the pipeline.
THEOREM PipelineInvariant == PipeSpec => []PipeInv
BY InitPipeInv, StepPipeInv, PTL DEF PipeSpec

\* The pipeline is built from the store's own actions, so that what holds of the store
\* holds in the proxy (pipeline.py:313, 781).
LEMMA PipelineIsStore == PipeSpec => StoreSpec
<1>1. PipeInit => StoreInit
  BY DEF PipeInit
<1> QED BY <1>1, InitPipeInv, StepPipeInv, PTL DEF PipeSpec, StoreSpec

\* add_exchange is called at most once for an exchange, and only after its
\* begin_exchange (pipeline.py:313, 348, 469, 505, 627).
THEOREM PipelineCallerProtocol == PipeSpec => []CallerProtocol
<1>1. PipeInv => CallerProtocol
  BY DEF PipeInv
<1> QED BY <1>1, PipelineInvariant, PTL

\* And so the proxy as a whole keeps the ledger of exchanges: what a request, a
\* replay or the UI does to the store is a step of the ledger or none.
THEOREM PipelineImplementsLedger == PipeSpec => ImplementsLedger
BY PipelineIsStore, StoreImplementsLedger, PTL

\* Whatever the handlers of the proxy do, no exchange of the UI's list changes its
\* number and none that was removed comes back (memory.py:69-83, conversation.py:74-91).
THEOREM PipelineKeepsList == PipeSpec => SequenceStable /\ RemovedNotReadded
BY PipelineIsStore, StoreSequenceStable, StoreRemovedNotReadded, PTL

\* A placeholder in flight belongs to a handler that still runs or to one that raised
\* before it captured (pipeline.py:620-662, 727): no other path leaves one behind.
THEOREM PipelineInFlight ==
    PipeSpec => [](\A cid \in ConvIds : Has(cid) =>
                      \A e \in convs[cid].ring :
                          e.inFlight => At(e.id, Running \cup {"failed"}))
<1>1. PipeInv => \A cid \in ConvIds : Has(cid) =>
                      \A e \in convs[cid].ring :
                          e.inFlight => At(e.id, Running \cup {"failed"})
  <2> SUFFICES ASSUME PipeInv, NEW cid \in ConvIds, Has(cid),
                      NEW e \in convs[cid].ring, e.inFlight
               PROVE  At(e.id, Running \cup {"failed"})
    OBVIOUS
  <2>1. Open(e.id)
    BY DEF PipeInv, IInv, PendingResolves
  <2>2. e.id \in ExId
    BY StoredBegun DEF PipeInv
  <2> QED BY <2>1, <2>2 DEF PipeInv, CallerProtocol
<1> QED BY <1>1, PipelineInvariant, PTL
-----------------------------------------------------------------------------
(***************************************************************************)
(* Every exchange settles.                                                 *)
(***************************************************************************)

\* How many awaits a handler has at least behind it.
Stage(place) ==
    CASE place = "idle" -> 0
      [] place = "lookup" -> 1
      [] place = "connecting" -> 2
      [] place \in {"draining", "responding"} -> 3
      [] place = "streaming" -> 4
      [] place = "closing" -> 5
      [] place \in {"ended", "failed"} -> 6

\* No step takes a handler back, and each that it is owed takes it on.
MovesOn ==
    \A id \in ExId :
        /\ pc'[id] = pc[id] \/ Stage(pc[id]) < Stage(pc'[id])
        /\ Progress(id) => Stage(pc[id]) < Stage(pc'[id])

\* A handler that goes from one place to a later one.
LEMMA GoesOn ==
    ASSUME SourceHeld, NEW id \in ExId, NEW place \in Pc, Goto(id, place),
           Stage(pc[id]) < Stage(place)
    PROVE  /\ Stage(pc[id]) < Stage(pc'[id])
           /\ \A x \in ExId \ {id} : pc'[x] = pc[x]
BY DEF Goto, SourceHeld

\* So does every step of a handler but a chunk.
LEMMA HandlerGoesOn ==
    ASSUME SourceHeld, NEW id \in ExId,
           \/ \E c \in ClientId, t \in Tags : Handle(id, c, t)
           \/ \E cid \in ConvIds : ReplayLookup(id, cid)
           \/ Replay(id) \/ ClientGone(id) \/ Progress(id) \/ Breaks(id)
    PROVE  /\ Stage(pc[id]) < Stage(pc'[id])
           /\ \A x \in ExId \ {id} : pc'[x] = pc[x]
<1>1. PICK place \in Pc : Goto(id, place) /\ Stage(pc[id]) < Stage(place)
  <2>1. CASE \/ \E c \in ClientId, t \in Tags : Handle(id, c, t)
             \/ Replay(id)
    <3>1. Goto(id, "connecting") /\ pc[id] \in {"idle", "lookup"}
      BY <2>1 DEF Handle, Replay, Forward, At
    <3> QED BY <3>1 DEF Stage, Pc
  <2>2. CASE \E cid \in ConvIds : ReplayLookup(id, cid)
    <3>1. Goto(id, "lookup") /\ pc[id] = "idle"
      BY <2>2 DEF ReplayLookup, At
    <3> QED BY <3>1 DEF Stage, Pc
  <2>3. CASE UpstreamHead(id)
    <3>1. pc[id] = "connecting" /\ (Goto(id, "draining") \/ Goto(id, "responding"))
      BY <2>3 DEF UpstreamHead, At
    <3> QED BY <3>1 DEF Stage, Pc
  <2>4. CASE StreamStarts(id) \/ StreamOver(id)
    <3>1. \/ pc[id] = "responding" /\ Goto(id, "streaming")
          \/ pc[id] = "streaming" /\ Goto(id, "closing")
      BY <2>4 DEF StreamStarts, StreamOver, At
    <3> QED BY <3>1 DEF Stage, Pc
  <2>5. CASE \/ ClientGone(id) \/ UpstreamFails(id) \/ Drained(id) \/ DrainedBadUsage(id)
             \/ StreamCaptured(id) \/ StreamLost(id)
    <3>1. pc[id] \in {"connecting", "draining", "responding", "closing"}
          /\ (Goto(id, "ended") \/ Goto(id, "failed"))
      BY <2>5 DEF ClientGone, UpstreamFails, Drained, DrainedBadUsage, StreamCaptured, StreamLost, At
    <3> QED BY <3>1 DEF Stage, Pc
  <2> QED BY <2>1, <2>2, <2>3, <2>4, <2>5 DEF Progress, Breaks
<1> QED BY <1>1, GoesOn

\* A handler goes from await to await and never back, a replay one lookup more (pipeline.py:
\* 237-354, 455-650): beside its chunks, at most six steps lead it from its request to its
\* end, and each one that Fairness speaks of is one of them.
THEOREM PipelineMovesOn == PipeSpec => [][MovesOn]_vars
<1>1. ASSUME PipeInv, [PipeNext]_vars PROVE [MovesOn]_vars
  <2>0. SourceHeld
    BY <1>1 DEF PipeInv
  <2>1. \A x \in ExId : Progress(x) => Stage(pc[x]) < Stage(pc'[x])
    BY <2>0, HandlerGoesOn
  <2>2. CASE UNCHANGED vars
    BY <2>2
  <2>3. CASE Environment \/ \E id \in ExId : Chunk(id)
    <3>1. UNCHANGED pc
      BY <2>3 DEF Environment, Chunk
    <3> QED BY <2>1, <3>1 DEF MovesOn
  <2>4. ASSUME NEW id \in ExId,
               \/ \E c \in ClientId, t \in Tags : Handle(id, c, t)
               \/ \E cid \in ConvIds : ReplayLookup(id, cid)
               \/ Replay(id) \/ ClientGone(id) \/ Progress(id) \/ Breaks(id)
        PROVE  MovesOn
    <3>1. /\ Stage(pc[id]) < Stage(pc'[id])
          /\ \A x \in ExId \ {id} : pc'[x] = pc[x]
      BY <2>0, <2>4, HandlerGoesOn
    <3> QED BY <2>1, <3>1 DEF MovesOn
  <2> QED BY <1>1, <2>2, <2>3, <2>4 DEF PipeNext
<1> QED BY <1>1, PipelineInvariant, PTL DEF PipeSpec

\* A handler that owes its exchange, at its k-th stage; one that is further.
Owes(id, k) == At(id, Running) /\ Stage(pc[id]) = k
Further(id, k) == k < Stage(pc[id])

\* A handler that is run leaves its k-th stage.
Leaves(id, k) == PipeSpec /\ FairTo(id) /\ []NeverStuck => (Owes(id, k) ~> Further(id, k))

\* By the fairness of its steps a handler leaves each of its stages.
LEMMA LeavesStage == ASSUME NEW id \in ExId, NEW k \in 2 .. 5 PROVE Leaves(id, k)
<1>1. Owes(id, k) /\ [MovesOn]_vars => Owes(id, k)' \/ Further(id, k)'
  <2>1. CASE MovesOn
    BY <2>1 DEF MovesOn, Owes, Further, At
  <2>2. CASE UNCHANGED vars
    BY <2>2 DEF vars, pipeVars, Owes, At
  <2> QED BY <2>1, <2>2
<1>2. Owes(id, k) /\ [MovesOn]_vars /\ <<Progress(id)>>_vars => Further(id, k)'
  BY DEF MovesOn, Owes, Further
<1>3. NeverStuck => (Owes(id, k) => ENABLED <<Progress(id)>>_vars)
  BY DEF NeverStuck, Owes
<1> QED BY <1>1, <1>2, <1>3, PipelineMovesOn, PTL DEF FairTo, Leaves

\* What begins is settled, or its handler has raised.
LEMMA SettlesOne ==
    ASSUME NEW id \in ExId
    PROVE  PipeSpec /\ FairTo(id) /\ []NeverStuck => SettlesFor(id)
<1> DEFINE Over == ~Open(id) \/ At(id, {"failed"})
<1>1. PipeInv => (~Over => \/ Owes(id, 2) \/ Owes(id, 3) \/ Owes(id, 4) \/ Owes(id, 5))
  BY DEF PipeInv, CallerProtocol, At, Running, Owes, Stage
<1>2. PipeInv =>
        /\ Further(id, 2) => Over \/ Owes(id, 3) \/ Owes(id, 4) \/ Owes(id, 5)
        /\ Further(id, 3) => Over \/ Owes(id, 4) \/ Owes(id, 5)
        /\ Further(id, 4) => Over \/ Owes(id, 5)
        /\ Further(id, 5) => Over
  BY <1>1 DEF Owes, Further
<1>3. 2 \in 2 .. 5 /\ 3 \in 2 .. 5 /\ 4 \in 2 .. 5 /\ 5 \in 2 .. 5
  OBVIOUS
<1>4. Leaves(id, 2) /\ Leaves(id, 3) /\ Leaves(id, 4) /\ Leaves(id, 5)
  BY <1>3, LeavesStage
<1> QED BY <1>1, <1>2, <1>4, PipelineInvariant, PTL DEF SettlesFor, Leaves

\* However many handlers run, every exchange that begins is finalized, unless its handler
\* raised before it could store (pipeline.py:237-354, 455-650).  That a step which is owed
\* can be taken is an invariant of its own, NeverStuck, which the model checker checks.
THEOREM PipelineSettles == FairPipeSpec /\ []NeverStuck => Settles
BY SettlesOne DEF FairPipeSpec, Fairness, Settles
-----------------------------------------------------------------------------
(***************************************************************************)
(* What the UI and the caller are told of an exchange.                     *)
(***************************************************************************)

\* How an exchange captured with a status was answered.
AsAnswered(id, status) ==
    /\ status = "502" <=> reply[id] = "502"
    /\ status = "499" <=> reply[id] = "none"
    /\ (status # "upstream" \/ reply[id] = "500") => NoDelta(id)

\* The story of one exchange so far: its events, where its handler is, how its call
\* ended, and what its caller was answered.
Story(id) ==
    /\ pc[id] \in {"idle", "lookup"} => events[id] = <<>> /\ call[id] = None
    /\ pc[id] \notin {"idle", "lookup"} => events[id] # <<>> /\ call[id] # None
    /\ \A i \in DOMAIN events[id] :
        /\ events[id][i].type = "started" <=> i = 1
        /\ events[id][i].type = "completed" => i = Len(events[id]) /\ pc[id] = "ended"
    /\ Completed(id) <=> call[id] # None /\ call[id].state = "stored"
    /\ \A i \in DOMAIN events[id] :
        events[id][i].type = "completed" => AsAnswered(id, events[id][i].status)
    /\ pc[id] \in {"connecting", "draining", "responding"} => NoDelta(id)
    /\ pc[id] \in {"idle", "lookup", "connecting", "draining"} => reply[id] = "none"
    /\ pc[id] \in {"responding", "streaming", "closing"} => reply[id] = "upstream"

\* The inductive invariant of the events and replies.
EventInv == PipeTypeOK /\ \A id \in ExId : Story(id)

\* Nothing has been told before the first request.
LEMMA InitEventInv == PipeInit => EventInv
<1> SUFFICES ASSUME PipeInit PROVE EventInv
  OBVIOUS
<1>1. PipeTypeOK
  BY DEF PipeInit, PipeTypeOK, Pc, Reply
<1>2. ASSUME NEW id \in ExId PROVE Story(id)
  BY DEF PipeInit, StoreInit, Story, Completed, NoDelta
<1> QED BY <1>1, <1>2 DEF EventInv

\* The exchanges a step is not about keep their story.
LEMMA OthersKeepStory ==
    ASSUME EventInv, NEW x \in ExId,
           pc'[x] = pc[x], events'[x] = events[x], call'[x] = call[x], reply'[x] = reply[x]
    PROVE  Story(x)'
BY DEF EventInv, Story, Completed, NoDelta, AsAnswered

\* An event is appended to the story of one exchange.
LEMMA Told ==
    ASSUME NEW s \in Seq(Event), NEW e \in Event
    PROVE  /\ Append(s, e) \in Seq(Event) /\ Append(s, e) # <<>>
           /\ Len(Append(s, e)) = Len(s) + 1
           /\ DOMAIN Append(s, e) = 1 .. Len(s) + 1
           /\ DOMAIN s = 1 .. Len(s) /\ Len(s) \in Nat
           /\ \A i \in 1 .. Len(s) : Append(s, e)[i] = s[i]
           /\ Append(s, e)[Len(s) + 1] = e
OBVIOUS

\* exchange_started opens the story.
LEMMA ForwardStory ==
    ASSUME PipeInv, EventInv, NEW id \in ExId, NEW c \in ClientId, NEW t \in Tags,
           pc[id] \in {"idle", "lookup"}, Forward(id, c, t),
           source' \in [ExId -> [client : ClientId, tag : Tags] \cup {None}],
           announced' \in SUBSET ClientId
    PROVE  EventInv'
<1>1. PICK seq : seq = Opened(c, t).nextSeq
  OBVIOUS
<1>2. seq \in Nat
  <2>1. Opened(c, t) \in Conversation
    BY OpenedType DEF PipeInv, IInv
  <2> QED BY <1>1, <2>1 DEF Conversation
<1>3. PICK e : e = [type |-> "started", seq |-> seq]
  OBVIOUS
<1>4. e \in Event /\ e.type = "started"
  BY <1>2, <1>3 DEF Event
<1>5. /\ events' = [events EXCEPT ![id] = Append(@, e)]
      /\ pc' = [pc EXCEPT ![id] = "connecting"]
      /\ call' = [call EXCEPT ![id] = [client |-> c, tag |-> t, state |-> "open"]]
      /\ reply' = reply
  BY <1>1, <1>3 DEF Forward, Emit, Goto, BeginExchange
<1>6. /\ events \in [ExId -> Seq(Event)] /\ pc \in [ExId -> Pc] /\ reply \in [ExId -> Reply]
      /\ call \in [ExId -> Call \cup {None}]
  BY DEF EventInv, PipeTypeOK, PipeInv, IInv, TypeOK
<1>7. events[id] = <<>>
  BY DEF EventInv, Story
<1>8. events'[id] = <<e>>
  BY <1>5, <1>6, <1>7
<1>9. PipeTypeOK'
  BY <1>4, <1>5, <1>6, Told DEF PipeTypeOK, Pc
<1>10. call'[id] # None /\ call'[id].state = "open"
  <2>1. [client |-> c, tag |-> t, state |-> "open"] \in Call
    BY DEF Call
  <2> QED BY <2>1, <1>5, <1>6, StoreAssumption
<1>11. reply'[id] = "none"
  BY <1>5 DEF EventInv, Story
<1>12. pc'[id] = "connecting"
  BY <1>5, <1>6
<1>13. Story(id)'
  BY <1>4, <1>8, <1>10, <1>11, <1>12 DEF Story, Completed, NoDelta
<1>14. ASSUME NEW x \in ExId, x # id PROVE Story(x)'
  BY <1>5, <1>6, <1>14, OthersKeepStory
<1> QED BY <1>9, <1>13, <1>14 DEF EventInv

\* The capture ends the story, with completed as its last word if it was stored.
LEMMA CaptureStory ==
    ASSUME PipeInv, EventInv, NEW id \in ExId, NEW status \in Status, NEW what \in Reply,
           Capture(id, status), Goto(id, "ended"), reply' = [reply EXCEPT ![id] = what],
           status = "502" <=> what = "502",
           status = "499" <=> what = "none",
           (status # "upstream" \/ what = "500") => pc[id] \in {"connecting", "draining"}
    PROVE  EventInv'
<1>1. PICK result \in {"stored", "dropped"} : call' = [call EXCEPT ![id].state = result]
  BY DEF Capture, AddExchange, AddRemoved, AddPending, AddUnknown, AddTo
<1>2. Open(id) /\ UNCHANGED <<source, announced>> /\ pc' = [pc EXCEPT ![id] = "ended"]
  BY DEF Capture, AddExchange, AddRemoved, AddPending, AddUnknown, Goto
<1>3. /\ events \in [ExId -> Seq(Event)] /\ pc \in [ExId -> Pc] /\ reply \in [ExId -> Reply]
      /\ call \in [ExId -> Call \cup {None}]
  BY DEF EventInv, PipeTypeOK, PipeInv, IInv, TypeOK
<1>4. call[id] \in Call /\ call'[id].state = result /\ call'[id] # None
  <2>1. call[id] \in Call /\ call'[id] = [call[id] EXCEPT !.state = result]
    BY <1>1, <1>2, <1>3 DEF Open
  <2>2. call'[id] \in Call /\ call'[id].state = result
    BY <2>1 DEF Call
  <2> QED BY <2>1, <2>2, StoreAssumption
<1>5. pc[id] \notin {"idle", "lookup"} /\ events[id] # <<>> /\ pc[id] # "ended"
  BY <1>2 DEF EventInv, Story, PipeInv, CallerProtocol, At, Open, Running
<1>6. ~Completed(id)
  BY <1>2 DEF EventInv, Story, Open
<1>7. StoredSeq(id) \in Nat
  <2>1. events[id][1] \in Event /\ events[id][1].type = "started"
    BY <1>3, <1>5 DEF EventInv, Story
  <2>2. Head(events[id]).seq \in Nat
    BY <2>1, <1>3, <1>5 DEF Event
  <2>3. Opened(call[id].client, call[id].tag) \in Conversation
    BY <1>4, OpenedType DEF PipeInv, IInv, Call
  <2> QED BY <2>2, <2>3 DEF StoredSeq, Conversation
<1>8. PICK e : e = [type |-> "completed", seq |-> StoredSeq(id), status |-> status]
  OBVIOUS
<1>9. e \in Event /\ e.type = "completed" /\ e.status = status
  BY <1>7, <1>8 DEF Event
<1>10. events' = IF result = "stored" THEN [events EXCEPT ![id] = Append(@, e)] ELSE events
  BY <1>4, <1>8 DEF Capture, Emit
<1>11. PipeTypeOK'
  <2>1. events' \in [ExId -> Seq(Event)]
    BY <1>3, <1>9, <1>10, Told
  <2> QED BY <2>1, <1>2, <1>3 DEF PipeTypeOK, EventInv, Pc, Reply
<1>12. pc'[id] = "ended" /\ reply'[id] = what
  BY <1>2, <1>3
<1>13. (status # "upstream" \/ what = "500") => NoDelta(id)
  BY DEF EventInv, Story
<1>14. ASSUME result = "stored" PROVE Story(id)'
  <2>1. events'[id] = Append(events[id], e)
    BY <1>3, <1>10, <1>14
  <2> DEFINE old == events[id]
  <2>10. /\ old \in Seq(Event) /\ old # <<>> /\ Len(old) \in Nat \ {0}
         /\ DOMAIN old = 1 .. Len(old) /\ DOMAIN events'[id] = 1 .. Len(old) + 1
         /\ Len(events'[id]) = Len(old) + 1
         /\ \A i \in 1 .. Len(old) : events'[id][i] = old[i]
         /\ events'[id][Len(old) + 1] = e
    BY <2>1, <1>3, <1>5, <1>9, Told
  <2>11. /\ \A i \in 1 .. Len(old) : old[i].type = "started" <=> i = 1
         /\ \A i \in 1 .. Len(old) : old[i].type # "completed"
    <3>1. Story(id)
      BY DEF EventInv
    <3> QED BY <2>10, <1>6, <3>1 DEF Story, Completed
  <2>2. Completed(id)'
    BY <2>10, <1>9 DEF Completed
  <2>3. \A i \in DOMAIN events'[id] :
          /\ events'[id][i].type = "started" <=> i = 1
          /\ events'[id][i].type = "completed" => i = Len(events'[id])
    <3> HIDE DEF old
    <3> SUFFICES ASSUME NEW i \in 1 .. Len(old) + 1
                 PROVE  /\ events'[id][i].type = "started" <=> i = 1
                        /\ events'[id][i].type = "completed" => i = Len(old) + 1
      BY <2>10
    <3>1. CASE i = Len(old) + 1
      BY <3>1, <2>10, <1>9
    <3>2. CASE i \in 1 .. Len(old)
      BY <3>2, <2>10, <2>11
    <3> QED BY <3>1, <3>2, <2>10
  <2>4. NoDelta(id) => NoDelta(id)'
    BY <2>1, <1>3, <1>9, Told DEF NoDelta
  <2>5. events'[id] # <<>>
    BY <2>1, <1>3, <1>9, Told
  <2>6. AsAnswered(id, status)'
    BY <2>4, <1>12, <1>13 DEF AsAnswered
  <2>7. (\A i \in DOMAIN events[id] :
          events[id][i].type = "completed" => AsAnswered(id, events[id][i].status))'
    <3>1. \A i \in DOMAIN events'[id] :
            events'[id][i].type = "completed" => events'[id][i].status = status
      <4> HIDE DEF old
      <4> QED BY <2>3, <2>10, <1>9
    <3> QED BY <3>1, <2>6 DEF AsAnswered
  <2> HIDE DEF old
  <2> QED BY <2>2, <2>3, <2>5, <2>7, <1>4, <1>12, <1>14 DEF Story
<1>15. ASSUME result = "dropped" PROVE Story(id)'
  <2>1. events' = events /\ (Completed(id)' <=> Completed(id)) /\ (NoDelta(id)' <=> NoDelta(id))
    BY <1>10, <1>15 DEF Completed, NoDelta
  <2> QED BY <2>1, <1>4, <1>5, <1>6, <1>12, <1>15 DEF EventInv, Story, Completed
<1>16. ASSUME NEW x \in ExId, x # id PROVE Story(x)'
  <2>1. events'[x] = events[x] /\ pc'[x] = pc[x] /\ call'[x] = call[x] /\ reply'[x] = reply[x]
    BY <1>1, <1>2, <1>3, <1>10, <1>16
  <2> QED BY <2>1, OthersKeepStory
<1> QED BY <1>11, <1>14, <1>15, <1>16 DEF EventInv

\* A handler that moves from one await to the next tells nothing.
LEMMA MoveStory ==
    ASSUME PipeInv, EventInv, NEW id \in ExId,
           \/ UpstreamHead(id) \/ DrainedBadUsage(id) \/ StreamStarts(id)
           \/ StreamOver(id) \/ StreamLost(id)
    PROVE  EventInv'
<1>1. UNCHANGED <<storeVars, source, events, announced>>
  BY DEF UpstreamHead, DrainedBadUsage, StreamStarts, StreamOver, StreamLost
<1>2. pc \in [ExId -> Pc] /\ reply \in [ExId -> Reply]
  BY DEF EventInv, PipeTypeOK
<1>3. /\ \A x \in ExId \ {id} : pc'[x] = pc[x] /\ reply'[x] = reply[x]
      /\ pc' \in [ExId -> Pc] /\ reply' \in [ExId -> Reply]
  BY <1>2 DEF UpstreamHead, DrainedBadUsage, StreamStarts, StreamOver, StreamLost, Goto, Answer, Pc, Reply
<1>4. /\ pc[id] \in {"connecting", "draining", "responding", "streaming", "closing"}
      /\ \/ pc[id] = "connecting" /\ pc'[id] = "draining" /\ reply'[id] = reply[id]
         \/ pc[id] = "connecting" /\ pc'[id] = "responding" /\ reply'[id] = "upstream"
         \/ pc[id] = "draining" /\ pc'[id] = "failed" /\ reply'[id] = "500"
         \/ pc[id] = "responding" /\ pc'[id] = "streaming" /\ reply'[id] = reply[id]
         \/ pc[id] = "streaming" /\ pc'[id] = "closing" /\ reply'[id] = reply[id]
         \/ pc[id] \in {"responding", "closing"} /\ pc'[id] = "failed" /\ reply'[id] = reply[id]
  BY <1>2 DEF UpstreamHead, DrainedBadUsage, StreamStarts, StreamOver, StreamLost, Goto, Answer, At
<1>5. call' = call /\ events' = events
  BY <1>1 DEF storeVars
<1>6. Story(id)'
  <2>1. (Completed(id)' <=> Completed(id)) /\ (NoDelta(id)' <=> NoDelta(id))
    BY <1>5 DEF Completed, NoDelta
  <2>2. Story(id)
    BY DEF EventInv
  <2>3. ~\E i \in DOMAIN events[id] : events[id][i].type = "completed"
    BY <2>2, <1>4 DEF Story
  <2> QED BY <2>1, <2>2, <2>3, <1>4, <1>5 DEF Story
<1>7. PipeTypeOK'
  BY <1>1, <1>3 DEF EventInv, PipeTypeOK
<1>8. ASSUME NEW x \in ExId, x # id PROVE Story(x)'
  BY <1>3, <1>5, <1>8, OthersKeepStory
<1> QED BY <1>6, <1>7, <1>8 DEF EventInv

\* A delta comes between started and completed.
LEMMA ChunkStory ==
    ASSUME PipeInv, EventInv, NEW id \in ExId, Chunk(id)
    PROVE  EventInv'
<1>1. PICK e : e = [type |-> "delta"]
  OBVIOUS
<1>2. e \in Event /\ e.type = "delta"
  BY <1>1 DEF Event
<1>3. /\ events' = [events EXCEPT ![id] = Append(@, e)]
      /\ UNCHANGED <<storeVars, pc, source, announced, reply>> /\ pc[id] = "streaming"
  BY <1>1 DEF Chunk, Emit, At
<1>4. events \in [ExId -> Seq(Event)]
  BY DEF EventInv, PipeTypeOK
<1>5. events'[id] = Append(events[id], e)
  BY <1>3, <1>4
<1>6. Story(id) /\ Len(events[id]) \in Nat \ {0}
  BY <1>3, <1>4 DEF EventInv, Story
<1>7. \A i \in DOMAIN events'[id] :
        /\ events'[id][i].type = "started" <=> i = 1
        /\ events'[id][i].type # "completed"
  BY <1>2, <1>3, <1>4, <1>5, <1>6, Told DEF Story
<1>8. ~Completed(id) /\ ~Completed(id)'
  BY <1>3, <1>6, <1>7 DEF Story, Completed
<1>9. events'[id] # <<>>
  BY <1>2, <1>4, <1>5, Told
<1>10. call' = call /\ pc' = pc /\ reply' = reply
  BY <1>3 DEF storeVars
<1>11. Story(id)'
  BY <1>3, <1>6, <1>7, <1>8, <1>9, <1>10 DEF Story
<1>12. PipeTypeOK'
  BY <1>2, <1>3, <1>4, Told DEF EventInv, PipeTypeOK
<1>13. ASSUME NEW x \in ExId, x # id PROVE Story(x)'
  BY <1>3, <1>4, <1>10, <1>13, OthersKeepStory
<1> QED BY <1>11, <1>12, <1>13 DEF EventInv

\* Steps of no handler, and of a replay that has only looked its source up.
LEMMA SilentStory ==
    ASSUME PipeInv, EventInv,
           \/ Environment \/ UNCHANGED vars
           \/ \E id \in ExId, cid \in ConvIds : ReplayLookup(id, cid)
    PROVE  EventInv'
<1>1. CASE Environment \/ UNCHANGED vars
  <2>1. UNCHANGED <<pc, source, events, reply, call>> /\ announced' \in SUBSET ClientId
    BY <1>1, EnvironmentStep DEF Environment, vars, pipeVars, storeVars, EventInv, PipeTypeOK
  <2> QED BY <2>1, OthersKeepStory DEF EventInv, PipeTypeOK
<1>2. ASSUME NEW id \in ExId, NEW cid \in ConvIds, ReplayLookup(id, cid) PROVE EventInv'
  <2>1. /\ pc[id] = "idle" /\ pc' = [pc EXCEPT ![id] = "lookup"]
        /\ UNCHANGED <<events, announced, reply, call>>
    BY <1>2 DEF ReplayLookup, At, Goto, storeVars
  <2>2. pc \in [ExId -> Pc]
    BY DEF EventInv, PipeTypeOK
  <2>3. source' \in [ExId -> [client : ClientId, tag : Tags] \cup {None}]
    BY <1>2, HandlerStep, <2>1, <2>2 DEF SourceHeld
  <2>4. PipeTypeOK'
    BY <2>1, <2>2, <2>3 DEF EventInv, PipeTypeOK, Pc
  <2>5. Story(id)'
    BY <2>1, <2>2 DEF EventInv, Story, Completed, NoDelta, AsAnswered
  <2>6. ASSUME NEW x \in ExId, x # id PROVE Story(x)'
    BY <2>1, <2>2, <2>6, OthersKeepStory
  <2> QED BY <2>4, <2>5, <2>6 DEF EventInv
<1> QED BY <1>1, <1>2

\* Every step of the pipeline carries the stories on.
LEMMA StepEventInv == PipeInv /\ EventInv /\ [PipeNext]_vars => EventInv'
<1> SUFFICES ASSUME PipeInv, EventInv, [PipeNext]_vars PROVE EventInv'
  OBVIOUS
<1>0. PipeTypeOK
  BY DEF EventInv
<1>1. ASSUME NEW id \in ExId, NEW c \in ClientId, NEW t \in Tags, Handle(id, c, t) PROVE EventInv'
  BY <1>0, <1>1, ForwardStory DEF Handle, At, PipeTypeOK
<1>2. ASSUME NEW id \in ExId, Replay(id) PROVE EventInv'
  <2>1. pc[id] = "lookup" /\ source' = source /\ announced' = announced
    BY <1>2 DEF Replay, At
  <2>2. source[id] \in [client : ClientId, tag : Tags]
    BY <2>1 DEF PipeInv, SourceHeld
  <2>3. PICK c \in ClientId, t \in Tags : c = source[id].client /\ t = source[id].tag
    BY <2>2
  <2>4. Forward(id, c, t)
    BY <1>2, <2>3 DEF Replay
  <2> QED BY <2>1, <2>4, <1>0, ForwardStory DEF PipeTypeOK
<1>3. ASSUME NEW id \in ExId,
             UpstreamFails(id) \/ ClientGone(id) \/ Drained(id) \/ StreamCaptured(id)
      PROVE  EventInv'
  <2>1. reply \in [ExId -> Reply]
    BY <1>0 DEF PipeTypeOK
  <2>2. CASE UpstreamFails(id)
    BY <2>2, CaptureStory DEF UpstreamFails, At, Answer, Status, Reply
  <2>3. CASE ClientGone(id)
    <3>1. reply[id] = "none"
      BY <2>3 DEF EventInv, Story, ClientGone, At
    <3>2. reply' = [reply EXCEPT ![id] = "none"]
      BY <2>1, <2>3, <3>1 DEF ClientGone
    <3> QED BY <2>3, <3>2, CaptureStory DEF ClientGone, At, Status, Reply
  <2>4. CASE Drained(id)
    <3>1. PICK what \in {"upstream", "500"} : Answer(id, what)
      BY <2>4 DEF Drained
    <3> QED BY <2>4, <3>1, CaptureStory DEF Drained, At, Answer, Status, Reply
  <2>5. CASE StreamCaptured(id)
    <3>1. reply[id] = "upstream"
      BY <2>5 DEF EventInv, Story, StreamCaptured, At
    <3>2. reply' = [reply EXCEPT ![id] = "upstream"]
      BY <2>1, <2>5, <3>1 DEF StreamCaptured
    <3> QED BY <2>5, <3>2, CaptureStory DEF StreamCaptured, Status, Reply
  <2> QED BY <1>3, <2>2, <2>3, <2>4, <2>5
<1>4. ASSUME NEW id \in ExId, Chunk(id) PROVE EventInv'
  BY <1>4, ChunkStory
<1>5. ASSUME NEW id \in ExId,
             \/ UpstreamHead(id) \/ DrainedBadUsage(id) \/ StreamStarts(id)
             \/ StreamOver(id) \/ StreamLost(id)
      PROVE  EventInv'
  BY <1>5, MoveStory
<1>6. CASE \/ Environment \/ UNCHANGED vars
           \/ \E id \in ExId, cid \in ConvIds : ReplayLookup(id, cid)
  BY <1>6, SilentStory
<1> QED BY <1>1, <1>2, <1>3, <1>4, <1>5, <1>6 DEF PipeNext, Progress, Breaks

\* The stories hold always.
LEMMA PipelineEventInv == PipeSpec => [](PipeInv /\ EventInv)
BY InitPipeInv, StepPipeInv, InitEventInv, StepEventInv, PTL DEF PipeSpec

\* Type correctness of the pipeline.
THEOREM PipelineTypes == PipeSpec => []PipeTypeOK
<1>1. EventInv => PipeTypeOK
  BY DEF EventInv
<1> QED BY PipelineEventInv, <1>1, PTL

\* A focused UI hears of an exchange in order, and nothing after its completed event
\* (pipeline.py:314, 593, 650).
THEOREM PipelineEventOrder == PipeSpec => []EventOrder
<1>1. EventInv => EventOrder
  BY DEF EventInv, Story, EventOrder, At
<1> QED BY PipelineEventInv, <1>1, PTL

\* What the UI is shown of an exchange is how its caller was answered, a stream that
\* breaks off and a client that leaves included (pipeline.py:343-378, 465-540, 618-650).
THEOREM PipelineCompletedAsAnswered == PipeSpec => []CompletedAsAnswered
<1>1. EventInv => CompletedAsAnswered
  BY DEF EventInv, Story, AsAnswered, CompletedAsAnswered
<1> QED BY PipelineEventInv, <1>1, PTL

\* Removing an exchange in flight silences it: its own capture is dropped and nobody
\* else completes it (memory.py:71-74, pipeline.py:487, 523, 649).
THEOREM PipelineRemovedSilent == PipeSpec => RemovedSilent
<1>1. ASSUME PipeInv, EventInv, EventInv', [PipeNext]_vars, NEW id \in removed \cap inflight
      PROVE  ~Completed(id)'
  <2>1. id \in ExId /\ Open(id)
    BY <1>1 DEF PipeInv, IInv, TypeOK, InflightConsistent
  <2>2. [StoreNext]_storeVars
    BY <1>1, StepPipeInv
  <2>3. call'[id] # None => call'[id].state # "stored"
    <3>1. call \in [ExId -> Call \cup {None}]
      BY <1>1 DEF PipeInv, IInv, TypeOK
    <3>2. CASE \E x \in ExId, c \in ClientId, t \in Tags : BeginExchange(x, c, t)
      BY <2>1, <3>1, <3>2 DEF BeginExchange, Open
    <3>3. ASSUME NEW x \in ExId, AddExchange(x) PROVE call'[id] # None => call'[id].state # "stored"
      <4>1. CASE x = id
        <5>1. AddRemoved(id)
          BY <1>1, <3>3, <4>1 DEF AddExchange, AddPending, AddUnknown
        <5>2. call' = [call EXCEPT ![id].state = "dropped"]
          BY <5>1 DEF AddRemoved, AddTo
        <5> QED BY <5>2, <2>1, <3>1 DEF Call, Open
      <4>2. CASE x # id
        <5>1. call'[id] = call[id]
          BY <3>1, <3>3, <4>2, <2>1 DEF AddExchange, AddRemoved, AddPending, AddUnknown, AddTo
        <5> QED BY <5>1, <2>1 DEF Open
      <4> QED BY <4>1, <4>2
    <3>4. CASE UiStep \/ Tick \/ UNCHANGED storeVars
      <4>1. call' = call
        BY <3>4 DEF UiStep, ClearConversation, RemoveExchange, RemoveClient, Tick, storeVars
      <4> QED BY <4>1, <2>1 DEF Open
    <3> QED BY <2>2, <3>2, <3>3, <3>4 DEF StoreNext
  <2> QED BY <1>1, <2>1, <2>3 DEF EventInv, Story
<1>2. PipeInv /\ EventInv /\ EventInv' /\ [PipeNext]_vars
        => [\A id \in removed \cap inflight : ~Completed(id)']_vars
  BY <1>1
<1> QED BY PipelineEventInv, <1>2, PTL DEF PipeSpec, RemovedSilent

\* A client that is not announced was removed under a running exchange of its own
\* (pipeline.py:244-255, memory.py:46).
THEOREM PipelineAnnounced == PipeSpec => AnnouncedUnlessRunning
<1> DEFINE Known(c) ==
        \/ c \in announced'
        \/ \E id \in ExId :
            \/ Open(id) /\ call[id].client = c
            \/ At(id, {"lookup"}) /\ source[id].client = c
<1>1. ASSUME PipeInv, [PipeNext]_vars, NEW c \in clients' \ clients PROVE Known(c)
  <2>1. ASSUME NEW id \in ExId, NEW d \in ClientId, NEW t \in Tags, Handle(id, d, t) PROVE Known(c)
    <3>1. clients' = clients \cup {d} /\ (d \notin clients => d \in announced')
      BY <2>1 DEF Handle, Forward, BeginExchange
    <3> QED BY <1>1, <3>1
  <2>2. ASSUME NEW id \in ExId, Replay(id) PROVE Known(c)
    <3>1. clients' = clients \cup {source[id].client} /\ At(id, {"lookup"})
      BY <2>2 DEF Replay, Forward, BeginExchange
    <3> QED BY <1>1, <3>1
  <2>3. ASSUME NEW id \in ExId, AddExchange(id) PROVE Known(c)
    <3>1. clients' = clients \cup {call[id].client} /\ Open(id)
      BY <2>3 DEF AddExchange, AddRemoved, AddPending, AddUnknown, AddTo
    <3> QED BY <1>1, <3>1
  <2>4. ASSUME clients' \subseteq clients PROVE Known(c)
    BY <1>1, <2>4
  <2>5. CASE Environment
    <3>1. clients' \subseteq clients
      BY <2>5 DEF Environment, UiStep, ClearConversation, RemoveExchange, RemoveClient, Tick
    <3> QED BY <3>1, <2>4
  <2>6. CASE UNCHANGED vars
    BY <2>6, <2>4 DEF vars, storeVars
  <2>7. ASSUME NEW id \in ExId,
               \/ \E cid \in ConvIds : ReplayLookup(id, cid)
               \/ Chunk(id) \/ UpstreamHead(id) \/ DrainedBadUsage(id) \/ StreamStarts(id)
               \/ StreamOver(id) \/ StreamLost(id)
        PROVE  Known(c)
    <3>1. UNCHANGED storeVars
      BY <2>7 DEF ReplayLookup, Chunk, UpstreamHead, DrainedBadUsage, StreamStarts, StreamOver, StreamLost
    <3> QED BY <3>1, <2>4 DEF storeVars
  <2>8. ASSUME NEW id \in ExId,
               UpstreamFails(id) \/ ClientGone(id) \/ Drained(id) \/ StreamCaptured(id)
        PROVE  Known(c)
    BY <2>8, <2>3 DEF UpstreamFails, ClientGone, Drained, StreamCaptured, Capture
  <2> HIDE DEF Known
  <2> QED BY <1>1, <2>1, <2>2, <2>5, <2>6, <2>7, <2>8 DEF PipeNext, Progress, Breaks
<1>2. PipeInv /\ [PipeNext]_vars => [\A c \in clients' \ clients : Known(c)]_vars
  BY <1>1
<1> QED BY PipelineInvariant, <1>2, PTL DEF PipeSpec, AnnouncedUnlessRunning
-----------------------------------------------------------------------------
(***************************************************************************)
(* The events and the REST listing.                                        *)
(***************************************************************************)

\* A pending exchange is stored under the sequence of its started event, a finished
\* one was stored by its own call and under the sequence of its last event.
SeqTold(e) ==
    /\ e.inFlight => e.seq = events[e.id][1].seq
    /\ ~e.inFlight => /\ call[e.id].state = "stored"
                      /\ e.seq = events[e.id][Len(events[e.id])].seq

\* The inductive invariant that ties the rings to the events.
RestInv == \A cid \in ConvIds : Has(cid) => \A e \in convs[cid].ring : SeqTold(e)

\* An exchange nothing was told of, and whose call did not move, keeps its sequence.
LEMMA StaysTold ==
    ASSUME RestInv, NEW x \in ConvIds, Has(x), NEW e \in convs[x].ring,
           call'[e.id] = call[e.id], events'[e.id] = events[e.id]
    PROVE  SeqTold(e)'
BY DEF RestInv, SeqTold

\* Steps that store nothing and tell nothing.
LEMMA QuietRest ==
    ASSUME RestInv, UNCHANGED <<call, events>>,
           \A x \in ConvIds : Has(x)' => Has(x) /\ convs'[x].ring \subseteq convs[x].ring
    PROVE  RestInv'
<1> SUFFICES ASSUME NEW x \in ConvIds, Has(x)', NEW e \in convs'[x].ring
             PROVE  SeqTold(e)'
  BY DEF RestInv
<1>1. Has(x) /\ e \in convs[x].ring
  OBVIOUS
<1> QED BY <1>1, StaysTold

\* The UI only takes exchanges out of rings.
LEMMA EnvironmentRest ==
    ASSUME PipeInv, RestInv, Environment
    PROVE  RestInv'
<1>1. UNCHANGED <<call, events>>
  BY EnvironmentStep DEF Environment
<1>2. CASE Tick
  BY <1>1, <1>2, QuietRest DEF Tick, Has
<1>3. ASSUME NEW cids, Clear(cids) PROVE RestInv'
  BY <1>1, <1>3, QuietRest DEF Clear, Has
<1>4. ASSUME NEW cid \in ConvIds, Has(cid), NEW ex \in convs[cid].ring, RemoveExchange(cid, ex)
      PROVE  RestInv'
  <2>1. convs[cid] \in Conversation
    BY <1>4, StoredBegun DEF PipeInv
  <2>2. convs' = [convs EXCEPT ![cid] = [convs[cid] EXCEPT !.ring = convs[cid].ring \ {ex}]]
    BY <1>4 DEF RemoveExchange
  <2>3. \A x \in ConvIds : Has(x)' => Has(x) /\ convs'[x].ring \subseteq convs[x].ring
    BY <1>4, <2>1, <2>2, StoreAssumption DEF PipeInv, IInv, TypeOK, Has, Conversation
  <2> QED BY <1>1, <2>3, QuietRest
<1>5. CASE UiStep
  BY <1>3, <1>4, <1>5 DEF UiStep, ClearConversation, RemoveClient
<1> QED BY <1>2, <1>5 DEF Environment

\* A delta is told of an exchange that is pending, if it is stored at all.
LEMMA ChunkRest ==
    ASSUME PipeInv, EventInv, RestInv, NEW id \in ExId, Chunk(id)
    PROVE  RestInv'
<1>1. PICK d : d = [type |-> "delta"]
  OBVIOUS
<1>2. /\ events' = [events EXCEPT ![id] = Append(@, d)] /\ d \in Event
      /\ call' = call /\ convs' = convs /\ pc[id] = "streaming"
  BY <1>1 DEF Chunk, Emit, At, storeVars, Event
<1>3. events \in [ExId -> Seq(Event)] /\ events[id] # <<>> /\ Open(id)
  BY <1>2 DEF EventInv, PipeTypeOK, Story, PipeInv, CallerProtocol, At, Running
<1>4. events'[id][1] = events[id][1] /\ \A x \in ExId : x # id => events'[x] = events[x]
  BY <1>2, <1>3, Told
<1> SUFFICES ASSUME NEW x \in ConvIds, Has(x), NEW e \in convs[x].ring
             PROVE  SeqTold(e)'
  BY <1>2 DEF RestInv, Has
<1>5. e.id \in ExId /\ (e.id = id => e.inFlight)
  BY <1>3, StoredBegun DEF PipeInv
<1>6. CASE e.id = id
  BY <1>2, <1>4, <1>5, <1>6 DEF RestInv, SeqTold
<1>7. CASE e.id # id
  BY <1>2, <1>4, <1>5, <1>7, StaysTold
<1> QED BY <1>6, <1>7

\* The placeholder gets the sequence that exchange_started names.
LEMMA ForwardRest ==
    ASSUME PipeInv, EventInv, RestInv, NEW id \in ExId, NEW c \in ClientId, NEW t \in Tags,
           pc[id] \in {"idle", "lookup"}, Forward(id, c, t)
    PROVE  RestInv'
<1> DEFINE new == NewEntry(Opened(c, t), id, TRUE)
<1>1. PICK d : d = [type |-> "started", seq |-> Opened(c, t).nextSeq]
  OBVIOUS
<1>2. events' = [events EXCEPT ![id] = Append(@, d)] /\ d.seq = Opened(c, t).nextSeq
  BY <1>1 DEF Forward, Emit
<1>3. events \in [ExId -> Seq(Event)] /\ events[id] = <<>>
  BY DEF EventInv, PipeTypeOK, Story
<1>4. events'[id] = <<d>> /\ \A x \in ExId : x # id => events'[x] = events[x]
  BY <1>2, <1>3
<1>5. call[id] = None /\ \A x \in ExId : x # id => call'[x] = call[x]
  BY DEF Forward, BeginExchange, PipeInv, IInv, TypeOK
<1>6. id \notin Stored
  <2> SUFFICES ASSUME NEW y \in ConvIds, Has(y), NEW e \in convs[y].ring
               PROVE  e.id # id
    BY DEF Stored, IdsIn
  <2> QED BY <1>5, StoredBegun DEF PipeInv
<1>7. KeepsRings(id, c, t, TRUE)
  BY <1>6, AppendStep DEF Forward, BeginExchange, AppendsTo, PipeInv
<1>8. new.id = id /\ new.inFlight = TRUE /\ new.seq = d.seq
  BY <1>2 DEF NewEntry
<1> HIDE DEF new
<1> SUFFICES ASSUME NEW x \in ConvIds, Has(x)', NEW e \in convs'[x].ring
             PROVE  SeqTold(e)'
  BY DEF RestInv
<1>9. CASE Has(x) /\ e \in convs[x].ring
  <2>1. e.id \in ExId /\ e.id # id
    BY <1>6, <1>9, StoredBegun DEF PipeInv
  <2> QED BY <1>4, <1>5, <1>9, <2>1, StaysTold
<1>10. CASE e = new
  BY <1>4, <1>8, <1>10 DEF SeqTold
<1> QED BY <1>7, <1>9, <1>10 DEF KeepsRings, new

\* The capture tells the sequence under which it stored the exchange.
LEMMA CaptureRest ==
    ASSUME PipeInv, EventInv, RestInv, NEW id \in ExId, NEW status, Capture(id, status)
    PROVE  RestInv'
<1>1. Open(id) /\ AddExchange(id) /\ IInv
  BY DEF Capture, AddExchange, AddRemoved, AddPending, AddUnknown, PipeInv
<1>2. /\ events \in [ExId -> Seq(Event)] /\ events[id] # <<>>
      /\ call \in [ExId -> Call \cup {None}] /\ call[id] \in Call
  BY <1>1 DEF EventInv, PipeTypeOK, Story, IInv, TypeOK, Open
<1>3. PICK result \in {"stored", "dropped"} : call' = [call EXCEPT ![id].state = result]
  BY <1>1 DEF AddExchange, AddRemoved, AddPending, AddUnknown, AddTo
<1>4. call'[id].state = result /\ \A x \in ExId : x # id => call'[x] = call[x]
  BY <1>2, <1>3 DEF Call
<1>5. PICK d : d = [type |-> "completed", seq |-> StoredSeq(id), status |-> status]
  OBVIOUS
<1>6. events' = IF result = "stored" THEN [events EXCEPT ![id] = Append(@, d)] ELSE events
  BY <1>4, <1>5 DEF Capture, Emit
<1>7. \A x \in ExId : x # id => events'[x] = events[x]
  BY <1>2, <1>6
<1>8. ASSUME NEW x \in ConvIds, Has(x), NEW e \in convs[x].ring, e.id # id
      PROVE  SeqTold(e)'
  <2>1. e.id \in ExId
    BY <1>1, <1>8, StoredBegun
  <2> QED BY <1>4, <1>7, <1>8, <2>1, StaysTold
<1>9. ASSUME result = "stored"
      PROVE  call'[id].state = "stored" /\ events'[id][Len(events'[id])].seq = StoredSeq(id)
  <2>1. events'[id] = Append(events[id], d) /\ d.seq = StoredSeq(id)
    BY <1>2, <1>5, <1>6, <1>9
  <2> QED BY <1>2, <1>4, <1>9, <2>1
<1> SUFFICES ASSUME NEW x \in ConvIds, Has(x)', NEW f \in convs'[x].ring
             PROVE  SeqTold(f)'
  BY DEF RestInv
<1>10. CASE AddRemoved(id)
  <2>1. convs' = convs /\ id \notin Stored
    BY <1>1, <1>10, OpenCall DEF AddRemoved, AddTo, IInv, TypeOK, RemovedHidden
  <2>2. Has(x) /\ f \in convs[x].ring
    BY <2>1 DEF Has
  <2>3. f.id # id
    BY <1>1, <2>1, <2>2, StoredBegun
  <2> QED BY <1>8, <2>2, <2>3
<1>11. CASE AddPending(id)
  <2> PICK cid \in ConvIds : cid = CidOf(id)
    BY <1>1, OpenCall
  <2>1. /\ Has(cid) /\ convs[cid] \in Conversation
        /\ convs' = [convs EXCEPT ![cid] = Finalized(convs[cid], id)]
    BY <1>1, <1>11, OpenCall DEF AddPending, AddTo
  <2>2. result = "stored" /\ StoredSeq(id) = events[id][1].seq
    <3>1. id \in inflight /\ call' = [call EXCEPT ![id].state = "stored"]
      BY <1>11 DEF AddPending, AddTo
    <3>2. call'[id].state = "stored"
      BY <1>2, <3>1
    <3> QED BY <1>2, <1>4, <3>1, <3>2 DEF StoredSeq
  <2>3. CASE x # cid
    <3>1. Has(x) /\ f \in convs[x].ring
      BY <2>1, <2>3 DEF Has, IInv, TypeOK, PipeInv
    <3>2. f.id # id
      <4>1. f.id = id => f.inFlight /\ CidOf(id) = x
        BY <1>1, <3>1, StoredBegun DEF IInv, PendingResolves
      <4> QED BY <2>3, <4>1
    <3> QED BY <1>8, <3>1, <3>2
  <2>4. CASE x = cid
    <3>1. f \in Finalized(convs[cid], id).ring
      BY <1>1, <2>1, <2>4 DEF IInv, TypeOK
    <3>2. PICK e \in convs[cid].ring : /\ e \in Entry /\ f.id = e.id /\ f.seq = e.seq
                                       /\ f.inFlight = (e.inFlight /\ e.id # id)
      BY <2>1, <3>1, FinalizedEntries
    <3>3. e.inFlight \in BOOLEAN
      BY <3>2 DEF Entry
    <3>4. CASE e.id # id
      <4>1. SeqTold(e)'
        BY <1>8, <2>1, <3>4
      <4> QED BY <3>2, <3>3, <3>4, <4>1 DEF SeqTold
    <3>5. CASE e.id = id
      <4>1. e.inFlight /\ e.seq = events[id][1].seq
        BY <1>1, <2>1, <3>5, StoredBegun DEF RestInv, SeqTold
      <4>2. ~f.inFlight /\ f.id = id /\ f.seq = StoredSeq(id)
        BY <2>2, <3>2, <3>5, <4>1
      <4> QED BY <1>9, <2>2, <4>2 DEF SeqTold
    <3> QED BY <3>4, <3>5
  <2> QED BY <2>3, <2>4
<1>12. CASE AddUnknown(id)
  <2> PICK c \in ClientId, t \in Tags : c = call[id].client /\ t = call[id].tag
    BY <1>1, OpenCall
  <2> DEFINE new == NewEntry(Opened(c, t), id, FALSE)
  <2>1. id \notin inflight /\ id \notin Stored
    BY <1>1, <1>12, OpenCall DEF AddUnknown
  <2>2. KeepsRings(id, c, t, FALSE)
    <3>1. AppendsTo(id, c, t, FALSE)
      BY <1>12 DEF AddUnknown, AddTo, CidOf, AppendsTo
    <3> QED BY <1>1, <2>1, <3>1, AppendStep
  <2>3. result = "stored" /\ StoredSeq(id) = Opened(c, t).nextSeq
    <3>1. call' = [call EXCEPT ![id].state = "stored"]
      BY <1>12 DEF AddUnknown, AddTo
    <3>2. call'[id].state = "stored"
      BY <1>2, <3>1
    <3> QED BY <1>4, <2>1, <3>2 DEF StoredSeq
  <2>4. new.id = id /\ new.inFlight = FALSE /\ new.seq = StoredSeq(id)
    BY <2>3 DEF NewEntry
  <2> HIDE DEF new
  <2>5. CASE Has(x) /\ f \in convs[x].ring
    <3>1. f.id # id
      BY <1>1, <2>1, <2>5, StoredBegun
    <3> QED BY <1>8, <2>5, <3>1
  <2>6. CASE f = new
    BY <1>9, <2>3, <2>4, <2>6 DEF SeqTold
  <2> QED BY <2>2, <2>5, <2>6 DEF KeepsRings, new
<1> QED BY <1>1, <1>10, <1>11, <1>12 DEF AddExchange

\* Every step keeps events and rings together.
LEMMA StepRestInv == PipeInv /\ EventInv /\ RestInv /\ [PipeNext]_vars => RestInv'
<1> SUFFICES ASSUME PipeInv, EventInv, RestInv, [PipeNext]_vars PROVE RestInv'
  OBVIOUS
<1>1. ASSUME NEW id \in ExId, NEW c \in ClientId, NEW t \in Tags, Handle(id, c, t) PROVE RestInv'
  BY <1>1, ForwardRest DEF Handle, At
<1>2. ASSUME NEW id \in ExId, Replay(id) PROVE RestInv'
  <2>1. pc[id] = "lookup"
    BY <1>2 DEF Replay, At
  <2>2. PICK c \in ClientId, t \in Tags : c = source[id].client /\ t = source[id].tag
    BY <2>1 DEF PipeInv, SourceHeld
  <2>3. Forward(id, c, t)
    BY <1>2, <2>2 DEF Replay
  <2> QED BY <2>1, <2>3, ForwardRest
<1>3. ASSUME NEW id \in ExId,
             UpstreamFails(id) \/ ClientGone(id) \/ Drained(id) \/ StreamCaptured(id)
      PROVE  RestInv'
  BY <1>3, CaptureRest DEF UpstreamFails, ClientGone, Drained, StreamCaptured
<1>4. ASSUME NEW id \in ExId, Chunk(id) PROVE RestInv'
  BY <1>4, ChunkRest
<1>5. ASSUME NEW id \in ExId,
             \/ \E cid \in ConvIds : ReplayLookup(id, cid)
             \/ UpstreamHead(id) \/ DrainedBadUsage(id) \/ StreamStarts(id)
             \/ StreamOver(id) \/ StreamLost(id)
      PROVE  RestInv'
  <2>1. UNCHANGED <<storeVars, events>>
    BY <1>5 DEF ReplayLookup, UpstreamHead, DrainedBadUsage, StreamStarts, StreamOver, StreamLost
  <2> QED BY <2>1, QuietRest DEF storeVars, Has
<1>6. CASE Environment
  BY <1>6, EnvironmentRest
<1>7. CASE UNCHANGED vars
  BY <1>7, QuietRest DEF vars, pipeVars, storeVars, Has
<1> QED BY <1>1, <1>2, <1>3, <1>4, <1>5, <1>6, <1>7 DEF PipeNext, Progress, Breaks

\* A card built from the events is the card built from the REST listing (memory.py:
\* 61-64, pipeline.py:775-780).
THEOREM PipelineRestMatchesEvents == PipeSpec => []RestMatchesEvents
<1>1. PipeInit => RestInv
  BY DEF PipeInit, StoreInit, RestInv, Has
<1>2. PipeInv /\ EventInv /\ RestInv => RestMatchesEvents
  <2> SUFFICES ASSUME PipeInv, EventInv, RestInv,
                      NEW cid \in ConvIds, Has(cid), NEW e \in convs[cid].ring
               PROVE  /\ events[e.id] # <<>>
                      /\ e.inFlight <=> ~Completed(e.id)
                      /\ e.seq = IF Completed(e.id) THEN events[e.id][Len(events[e.id])].seq
                                                   ELSE events[e.id][1].seq
    BY DEF RestMatchesEvents
  <2>1. e.id \in ExId /\ call[e.id] # None /\ (Open(e.id) <=> e.inFlight)
    BY StoredBegun DEF PipeInv
  <2>2. Story(e.id) /\ SeqTold(e)
    BY <2>1 DEF EventInv, RestInv
  <2>3. e.inFlight <=> ~Completed(e.id)
    BY <2>1, <2>2 DEF Story, SeqTold, Open
  <2>4. events[e.id] # <<>>
    BY <2>1, <2>2 DEF Story
  <2> QED BY <2>2, <2>3, <2>4 DEF SeqTold
<1> QED BY <1>1, <1>2, PipelineEventInv, StepRestInv, PTL DEF PipeSpec
=============================================================================
