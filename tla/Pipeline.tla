------------------------------ MODULE Pipeline ------------------------------
(***************************************************************************)
(* One exchange's way through the proxy (llm_proxy/proxy/pipeline.py), for *)
(* live requests and for replays asked for by the UI, over the store they  *)
(* share.                                                                  *)
(*                                                                         *)
(* A handler runs without interruption from one await to the next; pc says *)
(* at which await it is.  At an await the upstream may answer, fail or     *)
(* stay silent for ever (there is no read timeout), the client may go away *)
(* (the task is cancelled), and other handlers run.                        *)
(***************************************************************************)
EXTENDS MemoryStore

CONSTANT MaxDeltas      \* bound on the delta events of one exchange

ASSUME PipelineAssumption == MaxDeltas \in Nat

VARIABLES
    pc,         \* the await at which each exchange's handler is
    source,     \* the client and tag a replay read before it awaited its body
    events,     \* the events emitted for each exchange, in order
    announced,  \* the registered clients client_seen has been broadcast for
    reply       \* what the handler of each exchange has given its caller

pipeVars == <<pc, source, events, announced, reply>>
vars == <<storeVars, pipeVars>>

\* lookup: replay_exchange awaits request.json().  connecting: __aenter__.
\* draining: aiter_bytes and __aexit__ of a non-SSE answer.  responding: the
\* StreamingResponse was returned, its generator has not run.  streaming: inside
\* the generator's loop.  closing: __aexit__ in its finally.  failed: the handler
\* raised instead of storing.
Pc == {"idle", "lookup", "connecting", "draining", "responding", "streaming",
       "closing", "ended", "failed"}
\* The handlers that owe the store an add_exchange.
Running == {"connecting", "draining", "responding", "streaming", "closing"}

\* The status an exchange is captured with: the upstream's, or one of the proxy's own.
Status == {"upstream", "502", "499"}
Event == [type : {"started"}, seq : Nat] \cup [type : {"delta"}]
         \cup [type : {"completed"}, seq : Nat, status : Status]
\* Nobody is answered 499.  500 is the framework's, for a handler that raises.
Reply == {"none", "upstream", "502", "500"}

PipeTypeOK ==
    /\ pc \in [ExId -> Pc]
    /\ source \in [ExId -> [client : ClientId, tag : Tags] \cup {None}]
    /\ events \in [ExId -> Seq(Event)]
    /\ announced \in SUBSET ClientId
    /\ reply \in [ExId -> Reply]

PipeInit ==
    /\ StoreInit
    /\ pc = [id \in ExId |-> "idle"]
    /\ source = [id \in ExId |-> None]
    /\ events = [id \in ExId |-> <<>>]
    /\ announced = {}
    /\ reply = [id \in ExId |-> "none"]

At(id, places) == pc[id] \in places
Goto(id, place) == pc' = [pc EXCEPT ![id] = place]
Emit(id, event) == events' = [events EXCEPT ![id] = Append(@, event)]
Answer(id, what) == reply' = [reply EXCEPT ![id] = what]
-----------------------------------------------------------------------------
\* _forward up to the await of the upstream: register the placeholder, emit
\* exchange_started with the sequence append() gave it.
Forward(id, c, t) ==
    /\ Goto(id, "connecting")
    /\ BeginExchange(id, c, t)
    /\ Emit(id, [type |-> "started", seq |-> Opened(c, t).nextSeq])
    /\ UNCHANGED reply

\* Mutant: the client is registered before has_client is asked.
HandleAsksLate(id, c, t) ==
    /\ At(id, {"idle"})
    /\ Forward(id, c, t)
    /\ announced' = IF c \in clients' THEN announced ELSE announced \cup {c}
    /\ UNCHANGED source

\* handle: a client unknown to the store is announced.
Handle(id, c, t) ==
    /\ At(id, {"idle"})
    /\ announced' = IF c \in clients THEN announced ELSE announced \cup {c}
    /\ Forward(id, c, t)
    /\ UNCHANGED source

\* replay_exchange finds its conversation and exchange, then awaits the body.
ReplayLookup(id, cid) ==
    /\ At(id, {"idle"})
    /\ Has(cid) /\ convs[cid].ring # {}
    /\ Goto(id, "lookup")
    /\ source' = [source EXCEPT ![id] = [client |-> convs[cid].client, tag |-> convs[cid].tag]]
    /\ UNCHANGED <<storeVars, events, announced, reply>>

\* replay: it uses the Conversation it holds, stored or not, and announces nobody.
Replay(id) ==
    /\ At(id, {"lookup"})
    /\ Forward(id, source[id].client, source[id].tag)
    /\ UNCHANGED <<source, announced>>
-----------------------------------------------------------------------------
\* Mutant: the sequence of the freshly built Exchange.
StoredSeqDefault(id) == 0

\* The sequence of the exchange add_exchange returns: the placeholder's, or the
\* one an exchange without placeholder is appended with.
StoredSeq(id) ==
    IF id \in inflight THEN Head(events[id]).seq
    ELSE Opened(call[id].client, call[id].tag).nextSeq

\* Mutant: completed is emitted whatever add_exchange returned.
CaptureEmits(id, status) ==
    /\ AddExchange(id)
    /\ Emit(id, [type |-> "completed", seq |-> StoredSeq(id), status |-> status])
    /\ UNCHANGED <<source, announced>>

\* _capture stores the exchange, and completed is emitted unless it was dropped.
Capture(id, status) ==
    /\ AddExchange(id)
    /\ IF call'[id].state = "stored"
       THEN Emit(id, [type |-> "completed", seq |-> StoredSeq(id), status |-> status])
       ELSE UNCHANGED events
    /\ UNCHANGED <<source, announced>>

\* _upstream raised before the client received anything: a captured 502.
UpstreamFails(id) ==
    /\ At(id, {"connecting", "draining"})
    /\ Goto(id, "ended")
    /\ Capture(id, "502")
    /\ Answer(id, "502")

\* Mutant: it also captures for a stream whose own finally will.
ClientGoneTwice(id) ==
    /\ \/ At(id, {"connecting", "draining"}) /\ Goto(id, "ended")
       \/ At(id, {"streaming"}) /\ Goto(id, "closing")
    /\ Capture(id, "499")
    /\ UNCHANGED reply

\* The client went away during _upstream: captured as 499, and the cancellation is
\* raised again.
ClientGone(id) ==
    /\ At(id, {"connecting", "draining"})
    /\ Goto(id, "ended")
    /\ Capture(id, "499")
    /\ UNCHANGED reply

\* The head of the upstream's answer: drain it, or hand its stream on.
UpstreamHead(id) ==
    /\ At(id, {"connecting"})
    /\ \/ Goto(id, "draining") /\ UNCHANGED reply
       \/ Goto(id, "responding") /\ Answer(id, "upstream")
    /\ UNCHANGED <<storeVars, source, events, announced>>

\* The answer is drained, its connection released: capture it and pass it on.  The
\* Response may refuse a header of the upstream, when the capture is already out.
Drained(id) ==
    /\ At(id, {"draining"})
    /\ Goto(id, "ended")
    /\ Capture(id, "upstream")
    /\ \E what \in {"upstream", "500"} : Answer(id, what)

\* int() of a usage count that is no number: _capture raises before it stores.
DrainedBadUsage(id) ==
    /\ At(id, {"draining"})
    /\ Goto(id, "failed")
    /\ Answer(id, "500")
    /\ UNCHANGED <<storeVars, source, events, announced>>
-----------------------------------------------------------------------------
\* The response iterates its generator for the first time.
StreamStarts(id) ==
    /\ At(id, {"responding"})
    /\ Goto(id, "streaming")
    /\ UNCHANGED <<storeVars, source, events, announced, reply>>

\* Mutant: chunks read ahead are fanned out after the end as well.
ChunkLate(id) ==
    /\ At(id, {"streaming", "closing", "ended"})
    /\ Len(events[id]) <= MaxDeltas + 1
    /\ Emit(id, [type |-> "delta"])
    /\ UNCHANGED <<storeVars, pc, source, announced, reply>>

\* A chunk that decodes to text is fanned out before it is passed on.
Chunk(id) ==
    /\ At(id, {"streaming"})
    /\ Len(events[id]) <= MaxDeltas
    /\ Emit(id, [type |-> "delta"])
    /\ UNCHANGED <<storeVars, pc, source, announced, reply>>

\* Mutant: a stream only ends once it has carried text.
StreamOverAfterText(id) ==
    /\ At(id, {"streaming"})
    /\ Len(events[id]) > 1
    /\ Goto(id, "closing")
    /\ UNCHANGED <<storeVars, source, events, announced, reply>>

\* End of stream, death of the upstream or of the client: into the finally.
StreamOver(id) ==
    /\ At(id, {"streaming"})
    /\ Goto(id, "closing")
    /\ UNCHANGED <<storeVars, source, events, announced, reply>>

\* The finally, after its await.
StreamCaptured(id) ==
    /\ At(id, {"closing"})
    /\ Goto(id, "ended")
    /\ Capture(id, "upstream")
    /\ UNCHANGED reply

\* The generator was cancelled before it ran, its finally was cancelled or raised
\* in __aexit__, or _capture raised on the usage: nothing is stored.
StreamLost(id) ==
    /\ At(id, {"responding", "closing"})
    /\ Goto(id, "failed")
    /\ UNCHANGED <<storeVars, source, events, announced, reply>>
-----------------------------------------------------------------------------
\* The UI's other requests, and time. A client that is removed is announced again
\* when it next registers.
Environment ==
    /\ UiStep \/ Tick
    /\ announced' = announced \cap clients'
    /\ UNCHANGED <<pc, source, events, reply>>

\* The steps the upstream and the event loop owe a running handler: those by which it
\* does its work.
Progress(id) ==
    \/ UpstreamFails(id) \/ UpstreamHead(id) \/ Drained(id)
    \/ StreamStarts(id) \/ StreamOver(id) \/ StreamCaptured(id)

\* Those by which it is over without having stored its exchange: nothing owes them.
Breaks(id) == DrainedBadUsage(id) \/ StreamLost(id)

PipeNext ==
    \/ \E id \in ExId, c \in ClientId, t \in Tags : Handle(id, c, t)
    \/ \E id \in ExId, cid \in ConvIds : ReplayLookup(id, cid)
    \/ \E id \in ExId : Replay(id) \/ ClientGone(id) \/ Chunk(id) \/ Progress(id) \/ Breaks(id)
    \/ Environment

PipeSpec == PipeInit /\ [][PipeNext]_vars
-----------------------------------------------------------------------------
(***************************************************************************)
(* Properties.                                                             *)
(***************************************************************************)

Completed(id) == \E i \in DOMAIN events[id] : events[id][i].type = "completed"

\* The caller's side of the store: an exchange whose handler runs is one the store
\* still expects to be finalized, so add_exchange is never called twice or for an
\* exchange that has not begun.
CallerProtocol == \A id \in ExId : At(id, Running \cup {"failed"}) <=> Open(id)

\* What a connection focused on the conversation is told of an exchange: started,
\* then deltas, then completed, which is the last word (pipeline.py:314, 593, 650).
EventOrder ==
    \A id \in ExId : \A i \in DOMAIN events[id] :
        /\ events[id][i].type = "started" <=> i = 1
        /\ events[id][i].type = "completed" => i = Len(events[id]) /\ At(id, {"ended"})

\* The events and the REST listing agree, so a card built from either is the same:
\* a listed exchange was announced, it is pending until its completed event, and
\* the sequence last sent for it is the one it is stored under - not the default 0
\* of the freshly built Exchange (memory.py:61-64, pipeline.py:775-780).
RestMatchesEvents ==
    \A cid \in ConvIds : Has(cid) =>
        \A e \in convs[cid].ring :
            /\ events[e.id] # <<>>
            /\ e.inFlight <=> ~Completed(e.id)
            /\ e.seq = IF Completed(e.id) THEN events[e.id][Len(events[e.id])].seq
                                         ELSE events[e.id][1].seq

\* An exchange removed while in flight gets no completed event as long as its
\* conversation is not cleared (ui.py:86-87, pipeline.py:487, 523, 649).
RemovedSilent ==
    [][\A id \in removed \cap inflight : ~Completed(id)']_vars

NoDelta(id) == \A i \in DOMAIN events[id] : events[id][i].type # "delta"

\* The UI is shown the answer the caller got: an exchange is completed as a 502 just if
\* the caller was answered with one, as a 499 just if it was answered nothing, and with
\* the upstream's status if it was handed the upstream's answer - or a 500, which only a
\* drained answer with a header the Response refuses ends in.  The proxy speaks for the
\* upstream only of an exchange no text of which was streamed (pipeline.py:343-378,
\* 465-503, 523-540).
CompletedAsAnswered ==
    \A id \in ExId : \A i \in DOMAIN events[id] :
        events[id][i].type = "completed" =>
            /\ events[id][i].status = "502" <=> reply[id] = "502"
            /\ events[id][i].status = "499" <=> reply[id] = "none"
            /\ (events[id][i].status # "upstream" \/ reply[id] = "500") => NoDelta(id)

\* client_seen and registration go together (pipeline.py:244-255): a client enters the
\* dock without being announced only when it was removed under an exchange of its own,
\* live or replayed, that was running already.
AnnouncedUnlessRunning ==
    [][\A c \in clients' \ clients :
        \/ c \in announced'
        \/ \E id \in ExId :
            \/ Open(id) /\ call[id].client = c
            \/ At(id, {"lookup"}) /\ source[id].client = c]_vars

\* The upstream goes on answering, and the event loop goes on running handlers.
FairTo(id) == WF_vars(Progress(id))
Fairness == \A id \in ExId : FairTo(id)
FairPipeSpec == PipeSpec /\ Fairness

\* A handler that owes the store its exchange can always go on with its work.  Behind the
\* last await this is the capture: whatever was cleared, removed, evicted or begun anew
\* while the handler waited, add_exchange must take the exchange in one of its branches,
\* and the handler has not to raise (memory.py:69-88).
NeverStuck == \A id \in ExId : At(id, Running) => ENABLED <<Progress(id)>>_vars

\* With an upstream that goes on, every exchange that begins is finalized, unless
\* its handler raised before it could store.
SettlesFor(id) == Open(id) ~> (~Open(id) \/ At(id, {"failed"}))
Settles == \A id \in ExId : SettlesFor(id)
-----------------------------------------------------------------------------
(***************************************************************************)
(* What the documentation says and the code does not do.                   *)
(***************************************************************************)

\* "True while the upstream call is still in flight: the exchange is a placeholder
\* [...] finalized in place on completion" (conversation.py:33-34).
InFlightMeansRunning ==
    \A cid \in ConvIds : Has(cid) => \A e \in convs[cid].ring : e.inFlight => At(e.id, Running)
=============================================================================
