--------------------------------- MODULE Ui ---------------------------------
(***************************************************************************)
(* The web UI (ui/app.js): the cards it shows of one conversation, from    *)
(* two sources that are not ordered with each other.  Live events come     *)
(* over one WebSocket, which carries those of the conversation the UI has  *)
(* subscribed to; REST requests (open, remove, clear) go over connections  *)
(* of their own, and the UI runs on while they are under way.              *)
(*                                                                         *)
(* The server is written here anew, from the store and the pipeline: what  *)
(* is listed and under which number, without the rings.  Other UIs remove  *)
(* and clear, too, and the ring evicts: none of that is told to the UI.    *)
(***************************************************************************)
EXTENDS Integers, Sequences

CONSTANTS
    ExId,       \* exchange ids
    Conv,       \* conversation ids
    Slot,       \* bound on the openings of a conversation under way at once
    MaxMoves,   \* bound on the user's clicks and on what happens behind the page's back
    None        \* null

VARIABLES
    \* The server.
    shown,      \* each exchange: listed as pending or done, or out of the list and why
    calling,    \* exchanges whose upstream call runs
    home,       \* Exchange -> its conversation
    seqno,      \* Exchange.sequence
    nextSeq,    \* Conversation._seq, from 1 on; 1 if there is no such conversation
    spoke,      \* exchanges that streamed (one delta each)
    \* The socket.
    ws,         \* "up" or "down"
    subs,       \* subscribe messages on their way
    sub,        \* _Conn.focus
    events,     \* events on their way
    \* The page.
    focus,      \* state.focusCid
    cards,      \* the cards of the list: exchange -> [state, seq]
    live,       \* keys of state.live: exchanges with streamed text
    failed,     \* the list shows "failed to load"
    fills,      \* openings under way: the request, then what it will render
    removal,    \* removals under way, by the exchange of the card that was clicked
    clearing,   \* the clear under way
    \* Bound and history.
    moves,
    seen,       \* exchanges whose last change the page has been told of, or has fetched
    lost        \* exchanges that an answer to a clear has taken from the list alone

server == <<shown, calling, home, seqno, nextSeq, spoke>>
socket == <<ws, subs, sub, events>>
page == <<focus, cards, live, failed, fills, removal, clearing>>
uiVars == <<server, socket, page, moves, seen, lost>>

Stored == {"pending", "done"}
Card == [state : Stored, seq : Nat \ {0}]

ASSUME UiAssumption ==
    /\ None \notin Conv /\ None \notin ExId /\ None \notin Card
    /\ MaxMoves \in Nat

Cards == [ExId -> Card \cup {None}]
Event == [kind : {"started", "delta", "completed"}, id : ExId, seq : Nat \ {0}]
Idle == [phase |-> "none"]

UiTypeOK ==
    /\ shown \in [ExId -> {"never", "removed", "cleared", "evicted"} \cup Stored]
    /\ calling \subseteq ExId /\ spoke \subseteq ExId /\ live \subseteq ExId /\ seen \subseteq ExId
    /\ lost \subseteq ExId
    /\ home \in [ExId -> Conv \cup {None}]
    /\ seqno \in [ExId -> Nat]
    /\ nextSeq \in [Conv -> Nat \ {0}]
    /\ ws \in {"up", "down"}
    /\ subs \in Seq(Conv)
    /\ sub \in Conv \cup {None} /\ focus \in Conv \cup {None}
    /\ events \in Seq(Event)
    /\ cards \in Cards
    /\ failed \in BOOLEAN
    /\ fills \in [Slot -> {Idle} \cup [phase : {"asked"}, conv : Conv]
                                 \cup [phase : {"answered"}, render : Cards]]
    /\ removal \in [ExId -> {Idle} \cup [phase : {"asked", "ok", "refused"},
                                         conv : Conv, seq : Nat, replaced : BOOLEAN]]
    /\ clearing \in {Idle} \cup [phase : {"asked", "answered"}, conv : Conv]
    /\ moves \in 0 .. MaxMoves

Move == moves < MaxMoves /\ moves' = moves + 1

NoCards == [x \in ExId |-> None]

UiInit ==
    /\ shown = [x \in ExId |-> "never"]
    /\ calling = {} /\ spoke = {} /\ live = {} /\ seen = {} /\ lost = {}
    /\ home = [x \in ExId |-> None]
    /\ seqno = [x \in ExId |-> 0]
    /\ nextSeq = [v \in Conv |-> 1]
    /\ ws = "down" /\ subs = <<>> /\ sub = None /\ events = <<>>
    /\ focus = None
    /\ cards = NoCards
    /\ failed = FALSE
    /\ fills = [i \in Slot |-> Idle]
    /\ removal = [x \in ExId |-> Idle]
    /\ clearing = Idle
    /\ moves = 0
-----------------------------------------------------------------------------
(***************************************************************************)
(* The server.                                                             *)
(***************************************************************************)

\* Events go to a socket that is up and subscribed to their conversation.
Sent(kind, x, v, n) ==
    IF ws = "up" /\ sub = v
    THEN Append(events, [kind |-> kind, id |-> x, seq |-> n])
    ELSE events

\* The UI shows v, the server knows it, and no snapshot under way can overwrite what
\* the UI hears of v from now on.
Settled(v) ==
    /\ ws = "up" /\ focus = v /\ sub = v /\ subs = <<>>
    /\ \A i \in Slot : fills[i] = Idle

Seen(x, v) == IF Settled(v) THEN seen \cup {x} ELSE seen \ {x}

Begin(x, v) ==
    /\ shown[x] = "never"
    /\ shown' = [shown EXCEPT ![x] = "pending"]
    /\ calling' = calling \cup {x}
    /\ home' = [home EXCEPT ![x] = v]
    /\ seqno' = [seqno EXCEPT ![x] = nextSeq[v]]
    /\ nextSeq' = [nextSeq EXCEPT ![v] = @ + 1]
    /\ events' = Sent("started", x, v, nextSeq[v])
    /\ seen' = Seen(x, v)
    /\ UNCHANGED <<moves, spoke, ws, subs, sub, page, lost>>

\* Text streams, whatever has become of the exchange in the store.
Speak(x) ==
    /\ x \in calling \ spoke
    /\ spoke' = spoke \cup {x}
    /\ events' = Sent("delta", x, home[x], seqno[x])
    /\ UNCHANGED <<moves, shown, calling, home, seqno, nextSeq, ws, subs, sub, page, seen, lost>>

\* Mutant: the call is not forgotten and may end again.
FinishStillCalling(x) ==
    /\ x \in calling /\ shown[x] \in Stored
    /\ shown' = [shown EXCEPT ![x] = "done"]
    /\ events' = Sent("completed", x, home[x], seqno[x])
    /\ seen' = Seen(x, home[x])
    /\ UNCHANGED <<moves, calling, home, seqno, nextSeq, spoke, ws, subs, sub, page, lost>>

\* The call ends. A removed exchange stays removed, without an event; an evicted one is
\* announced all the same; one whose conversation was cleared is stored anew.
Finish(x) ==
    /\ x \in calling
    /\ calling' = calling \ {x}
    /\ \/ /\ shown[x] = "removed"
          /\ UNCHANGED <<shown, seqno, nextSeq, events, seen>>
       \/ /\ shown[x] \in {"pending", "evicted"}
          /\ shown' = [shown EXCEPT ![x] = IF @ = "pending" THEN "done" ELSE @]
          /\ events' = Sent("completed", x, home[x], seqno[x])
          /\ seen' = Seen(x, home[x])
          /\ UNCHANGED <<seqno, nextSeq>>
       \/ /\ shown[x] = "cleared"
          /\ shown' = [shown EXCEPT ![x] = "done"]
          /\ seqno' = [seqno EXCEPT ![x] = nextSeq[home[x]]]
          /\ nextSeq' = [nextSeq EXCEPT ![home[x]] = @ + 1]
          /\ events' = Sent("completed", x, home[x], nextSeq[home[x]])
          /\ seen' = Seen(x, home[x])
    /\ UNCHANGED <<moves, home, spoke, ws, subs, sub, page, lost>>

\* remove_exchange: the exchange of v that has this number, if any.
Hit(v, n) == {y \in ExId : shown[y] \in Stored /\ home[y] = v /\ seqno[y] = n}

Removed(ids, how) == shown' = [x \in ExId |-> IF x \in ids THEN how ELSE shown[x]]

\* clear_conversation: the conversation is gone with its numbering, running exchanges
\* are no longer known to be in flight.
Cleared(v) ==
    /\ Removed({x \in ExId : home[x] = v /\ (shown[x] \in Stored \/ x \in calling)}, "cleared")
    /\ nextSeq' = [nextSeq EXCEPT ![v] = 1]
    /\ UNCHANGED <<calling, home, seqno, spoke>>

\* Another UI, or the ring's limits.
OthersDrop ==
    /\ \/ \E v \in Conv : Cleared(v)
       \/ \E x \in ExId, how \in {"removed", "evicted"} :
            /\ shown[x] \in Stored
            /\ Removed({x}, how)
            /\ UNCHANGED <<calling, home, seqno, nextSeq, spoke>>
    /\ Move
    /\ UNCHANGED <<socket, page, seen, lost>>
-----------------------------------------------------------------------------
(***************************************************************************)
(* The socket.                                                             *)
(***************************************************************************)

\* onopen subscribes again; what was missed is not fetched.
WsOpens ==
    /\ ws = "down"
    /\ ws' = "up"
    /\ subs' = IF focus = None THEN <<>> ELSE <<focus>>
    /\ UNCHANGED <<moves, server, sub, events, page, seen, lost>>

\* Whatever is on its way is lost.
WsDrops ==
    /\ ws = "up"
    /\ ws' = "down" /\ subs' = <<>> /\ sub' = None /\ events' = <<>>
    /\ seen' = seen \ {events[i].id : i \in DOMAIN events}
    /\ Move
    /\ UNCHANGED <<server, page, lost>>

SubscribeArrives ==
    /\ subs # <<>>
    /\ sub' = Head(subs)
    /\ subs' = Tail(subs)
    /\ UNCHANGED <<moves, server, ws, events, page, seen, lost>>

\* Mutant: a finished exchange keeps its live buffer.
UpsertKeepsLive(new) ==
    /\ cards' = [x \in ExId |-> IF new[x] = None THEN cards[x] ELSE new[x]]
    /\ removal' = [x \in ExId |-> IF new[x] = None \/ removal[x] = Idle THEN removal[x]
                                  ELSE [removal[x] EXCEPT !.replaced = TRUE]]
    /\ lost' = {x \in lost : new[x] = None}
    /\ UNCHANGED live

\* upsertExchange, for every exchange of new: its card is replaced, or appended; a
\* finished exchange drops its live buffer.
Upsert(new) ==
    /\ cards' = [x \in ExId |-> IF new[x] = None THEN cards[x] ELSE new[x]]
    /\ live' = {x \in live : new[x] = None \/ new[x].state = "pending"}
    /\ removal' = [x \in ExId |-> IF new[x] = None \/ removal[x] = Idle THEN removal[x]
                                  ELSE [removal[x] EXCEPT !.replaced = TRUE]]
    /\ lost' = {x \in lost : new[x] = None}

\* The card an event renders.
CardOf(e) == [NoCards EXCEPT ![e.id] =
    [state |-> IF e.kind = "completed" THEN "done" ELSE "pending", seq |-> e.seq]]

\* Mutant: events of any conversation count.
HeardAnywhere(e) == IF e.kind = "delta" THEN live' = live \cup {e.id} /\ UNCHANGED <<cards, removal, lost>>
                    ELSE Upsert(CardOf(e))

\* onWsMessage.
Heard(e) ==
    IF home[e.id] # focus THEN UNCHANGED <<cards, live, removal, lost>>
    ELSE IF e.kind = "delta" THEN live' = live \cup {e.id} /\ UNCHANGED <<cards, removal, lost>>
    ELSE Upsert(CardOf(e))

EventArrives ==
    /\ events # <<>>
    /\ events' = Tail(events)
    /\ Heard(Head(events))
    /\ UNCHANGED <<moves, server, ws, subs, sub, focus, failed, fills, clearing, seen>>
-----------------------------------------------------------------------------
(***************************************************************************)
(* The page's requests.                                                    *)
(***************************************************************************)

\* The list is emptied: no card that was clicked is in it any more.
EmptyList ==
    /\ cards' = NoCards
    /\ removal' = [x \in ExId |-> IF removal[x] = Idle THEN Idle
                                  ELSE [removal[x] EXCEPT !.replaced = TRUE]]

\* selectConversation, until it awaits the REST snapshot.
Select(v, i) ==
    /\ fills[i] = Idle
    /\ focus' = v
    /\ EmptyList
    /\ live' = {}
    /\ failed' = FALSE
    /\ subs' = IF ws = "up" THEN Append(subs, v) ELSE subs
    /\ fills' = [fills EXCEPT ![i] = [phase |-> "asked", conv |-> v]]
    /\ lost' = {}
    /\ Move
    /\ UNCHANGED <<server, ws, sub, events, clearing, seen>>

\* The snapshot in slot i is of x, of which nothing older is shown or on its way.
Fetched(x, i) ==
    /\ shown[x] \in Stored /\ home[x] = fills[i].conv /\ cards[x] = None
    /\ \A j \in DOMAIN events : events[j].id # x
    /\ \A j \in Slot \ {i} : fills[j].phase # "answered"

\* get_conversation: what is stored now.
FillAnswered(i) ==
    /\ fills[i].phase = "asked" /\ nextSeq[fills[i].conv] > 1
    /\ fills' = [fills EXCEPT ![i] =
          [phase |-> "answered",
           render |-> [x \in ExId |-> IF shown[x] \in Stored /\ home[x] = fills[i].conv
                                      THEN [state |-> shown[x], seq |-> seqno[x]] ELSE None]]]
    /\ seen' = seen \cup {x \in ExId : Fetched(x, i)}
    /\ UNCHANGED <<moves, server, socket, focus, cards, live, failed, removal, clearing, lost>>

\* selectConversation, the rest: every exchange of the snapshot is rendered, whatever
\* was rendered since, and whatever the focus is by now.
FillArrives(i) ==
    /\ fills[i].phase = "answered"
    /\ Upsert(fills[i].render)
    /\ fills' = [fills EXCEPT ![i] = Idle]
    /\ UNCHANGED <<moves, server, socket, focus, failed, clearing, seen>>

\* The snapshot fails: there is no such conversation, or the request is lost.
FillFails(i) ==
    /\ \/ fills[i].phase = "asked" /\ nextSeq[fills[i].conv] = 1 /\ UNCHANGED moves
       \/ fills[i] # Idle /\ Move
    /\ EmptyList
    /\ failed' = TRUE
    /\ fills' = [fills EXCEPT ![i] = Idle]
    /\ UNCHANGED <<server, socket, focus, live, clearing, seen, lost>>

\* The remove button: the conversation in focus now, the number on the card.
RemoveClicked(x) ==
    /\ cards[x] # None /\ focus # None /\ removal[x] = Idle
    /\ removal' = [removal EXCEPT ![x] = [phase |-> "asked", conv |-> focus,
                                          seq |-> cards[x].seq, replaced |-> FALSE]]
    /\ Move
    /\ UNCHANGED <<server, socket, focus, cards, live, failed, fills, clearing, seen, lost>>

RemoveServed(x) ==
    /\ removal[x].phase = "asked"
    /\ LET hit == Hit(removal[x].conv, removal[x].seq) IN
        /\ Removed(hit, "removed")
        /\ removal' = [removal EXCEPT ![x].phase = IF hit = {} THEN "refused" ELSE "ok"]
    /\ UNCHANGED <<moves, calling, home, seqno, nextSeq, spoke, socket,
                   focus, cards, live, failed, fills, clearing, seen, lost>>

\* The card that was clicked is taken out, if it is still the one in the list.
RemoveArrives(x) ==
    /\ removal[x].phase \in {"ok", "refused"}
    /\ removal' = [removal EXCEPT ![x] = Idle]
    /\ cards' = IF removal[x].phase = "ok" /\ ~removal[x].replaced
                THEN [cards EXCEPT ![x] = None] ELSE cards
    /\ live' = IF removal[x].phase = "ok" THEN live \ {x} ELSE live
    /\ UNCHANGED <<moves, server, socket, focus, failed, fills, clearing, seen, lost>>

\* The clear button.
ClearClicked ==
    /\ focus # None /\ clearing = Idle
    /\ clearing' = [phase |-> "asked", conv |-> focus]
    /\ Move
    /\ UNCHANGED <<server, socket, focus, cards, live, failed, fills, removal, seen, lost>>

ClearServed ==
    /\ clearing.phase = "asked"
    /\ Cleared(clearing.conv)
    /\ clearing' = [clearing EXCEPT !.phase = "answered"]
    /\ UNCHANGED <<moves, socket, focus, cards, live, failed, fills, removal, seen, lost>>

\* The list is emptied, whatever conversation it shows and whatever came since.
ClearArrives ==
    /\ clearing.phase = "answered"
    /\ clearing' = Idle
    /\ EmptyList
    /\ live' = {}
    /\ failed' = FALSE
    /\ lost' = {x \in ExId : shown[x] \in Stored /\ home[x] = focus}
    /\ UNCHANGED <<moves, server, socket, focus, fills, seen>>

UiNext ==
    \/ \E x \in ExId :
        \/ \E v \in Conv : Begin(x, v)
        \/ Speak(x) \/ Finish(x)
        \/ RemoveClicked(x) \/ RemoveServed(x) \/ RemoveArrives(x)
    \/ OthersDrop
    \/ WsOpens \/ WsDrops \/ SubscribeArrives \/ EventArrives
    \/ \E i \in Slot :
        \/ \E v \in Conv : Select(v, i)
        \/ FillAnswered(i) \/ FillArrives(i) \/ FillFails(i)
    \/ ClearClicked \/ ClearServed \/ ClearArrives

UiSpec == UiInit /\ [][UiNext]_uiVars
-----------------------------------------------------------------------------
(***************************************************************************)
(* Properties.                                                             *)
(***************************************************************************)

\* Nothing is on its way to the page, and it shows no error.
Quiet ==
    /\ ws = "up" /\ events = <<>> /\ subs = <<>>
    /\ \A i \in Slot : fills[i] = Idle
    /\ \A x \in ExId : removal[x] = Idle
    /\ clearing = Idle
    /\ ~failed

\* However removals, clears, reconnects and openings mix with the events (app.js:165-195,
\* 686-699, 798-838, 941-951): once nothing is on its way, the page shows every stored
\* exchange of the conversation in focus as the store has it - if it was told of the
\* exchange's last change while it showed that conversation or has fetched it since, and
\* if the list was not emptied under it by the answer to a clear. So it may miss changes
\* between a snapshot and its rendering, while the socket is down, and after a late
\* answer to a clear, of whatever conversation - until they are fetched.
SettledInSync ==
    Quiet => \A x \in seen \ lost :
        home[x] = focus /\ shown[x] \in Stored =>
            /\ cards[x] = [state |-> shown[x], seq |-> seqno[x]]
            /\ shown[x] = "done" => x \notin live

\* Streamed text is only kept of the conversation in focus, even of events that were
\* sent for the one before (app.js:25-26, 165-169, 825-831).
LiveOfFocus == \A x \in live : home[x] = focus

\* What the server lists refines ExchangeLedger; the numbers are no part of that.
Ledger == INSTANCE ExchangeLedger
    WITH shown <- [x \in ExId |-> IF shown[x] \in {"removed", "cleared", "evicted"}
                                  THEN "gone" ELSE shown[x]]
ServerIsLedger == Ledger!LedgerSpec
-----------------------------------------------------------------------------
(***************************************************************************)
(* What the comments say and the code does not do.                         *)
(***************************************************************************)

\* "Pending card for a still-running exchange; WS deltas/completion (we are now
\* focused) update it in place." (app.js:183-184): once nothing is on its way, a
\* card that shows an exchange of the store as running is that of one that runs.
PendingCardsResolve ==
    Quiet => \A x \in ExId :
        cards[x] # None /\ home[x] = focus /\ shown[x] = "done" => cards[x].state # "pending"

\* "so the pending card - and any replay from it - targets the right exchange"
\* (pipeline.py:299-301): what the remove button of a card removes is its exchange.
RemovesItsOwn ==
    [][\A x, y \in ExId :
         RemoveServed(x) /\ shown[y] # "removed" /\ shown'[y] = "removed" => y = x]_uiVars
=============================================================================
