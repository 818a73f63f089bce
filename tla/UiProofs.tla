------------------------------ MODULE UiProofs ------------------------------
(***************************************************************************)
(* Proofs about the web UI, for every set of exchanges and conversations   *)
(* and any number of requests under way.                                   *)
(***************************************************************************)
EXTENDS Ui, TLAPS

\* The type invariant by the parts of the system.
ServerTypes ==
    /\ shown \in [ExId -> {"never", "removed", "cleared", "evicted"} \cup Stored]
    /\ calling \subseteq ExId /\ spoke \subseteq ExId /\ seen \subseteq ExId /\ lost \subseteq ExId
    /\ home \in [ExId -> Conv \cup {None}]
    /\ seqno \in [ExId -> Nat]
    /\ nextSeq \in [Conv -> Nat \ {0}]
    /\ moves \in 0 .. MaxMoves

SocketTypes ==
    /\ ws \in {"up", "down"}
    /\ subs \in Seq(Conv)
    /\ sub \in Conv \cup {None}
    /\ events \in Seq(Event)

CardTypes ==
    /\ focus \in Conv \cup {None}
    /\ cards \in Cards
    /\ live \subseteq ExId
    /\ failed \in BOOLEAN

Fill == {Idle} \cup [phase : {"asked"}, conv : Conv] \cup [phase : {"answered"}, render : Cards]
Removal == {Idle} \cup [phase : {"asked", "ok", "refused"}, conv : Conv, seq : Nat, replaced : BOOLEAN]

RequestTypes ==
    /\ fills \in [Slot -> Fill]
    /\ removal \in [ExId -> Removal]
    /\ clearing \in {Idle} \cup [phase : {"asked", "answered"}, conv : Conv]

\* The parts make up the whole.
LEMMA TypeParts == UiTypeOK <=> ServerTypes /\ SocketTypes /\ CardTypes /\ RequestTypes
BY DEF UiTypeOK, ServerTypes, SocketTypes, CardTypes, RequestTypes, Fill, Removal

Begun(x) == shown[x] # "never"

\* What has begun has a conversation and a number; only what has begun runs, is
\* told of, or has streamed.
BegunInv ==
    /\ \A x \in ExId : Begun(x) => home[x] \in Conv /\ seqno[x] \in Nat \ {0}
    /\ \A x \in calling \cup live : Begun(x)
    /\ \A i \in DOMAIN events : Begun(events[i].id)

\* The inductive invariant.
UiInv == ServerTypes /\ SocketTypes /\ CardTypes /\ RequestTypes /\ BegunInv /\ LiveOfFocus

\* The bound counts up to its limit.
LEMMA Moved == ASSUME moves \in 0 .. MaxMoves, Move PROVE moves' \in 0 .. MaxMoves
BY UiAssumption DEF Move

\* An event that is sent is one of an exchange, after those under way.
LEMMA SentType ==
    ASSUME events \in Seq(Event), NEW kind \in {"started", "delta", "completed"},
           NEW x \in ExId, NEW v, NEW n \in Nat \ {0}
    PROVE  /\ Sent(kind, x, v, n) \in Seq(Event)
           /\ \A i \in DOMAIN Sent(kind, x, v, n) :
                 \/ Sent(kind, x, v, n)[i].id = x
                 \/ i \in DOMAIN events /\ Sent(kind, x, v, n)[i].id = events[i].id
<1>1. PICK e : e = [kind |-> kind, id |-> x, seq |-> n]
  OBVIOUS
<1>2. e \in Event /\ e.id = x
  BY <1>1 DEF Event
<1>3. Sent(kind, x, v, n) = IF ws = "up" /\ sub = v THEN Append(events, e) ELSE events
  BY <1>1 DEF Sent
<1> QED BY <1>2, <1>3

\* Every event under way is of an exchange.
LEMMA EventIds ==
    ASSUME NEW s \in Seq(Event), NEW i \in DOMAIN s
    PROVE  s[i] \in Event /\ s[i].id \in ExId
<1>1. s[i] \in Event
  OBVIOUS
<1> QED BY <1>1 DEF Event

\* A card that was clicked may be replaced while its removal is under way.
LEMMA ReplacedType ==
    ASSUME NEW r \in Removal, r # Idle PROVE [r EXCEPT !.replaced = TRUE] \in Removal
BY DEF Removal

\* Rendering exchanges puts cards into the list, and takes live text away.
LEMMA UpsertTypes ==
    ASSUME CardTypes, RequestTypes, NEW new \in Cards, Upsert(new)
    PROVE  cards' \in Cards /\ live' \subseteq live /\ lost' \subseteq lost /\ removal' \in [ExId -> Removal]
<1>1. cards' \in Cards /\ live' \subseteq live /\ lost' \subseteq lost
  BY DEF Upsert, CardTypes, Cards
<1>2. removal' \in [ExId -> Removal]
  BY ReplacedType DEF Upsert, RequestTypes
<1> QED BY <1>1, <1>2

\* So does emptying the list.
LEMMA EmptyListTypes ==
    ASSUME RequestTypes, EmptyList
    PROVE  cards' \in Cards /\ removal' \in [ExId -> Removal]
<1>1. cards' \in Cards
  BY DEF EmptyList, NoCards, Cards
<1>2. removal' \in [ExId -> Removal]
  BY ReplacedType DEF EmptyList, RequestTypes, Removal
<1> QED BY <1>1, <1>2

\* Dropping exchanges that have begun unbegins none.
LEMMA RemovedTypes ==
    ASSUME ServerTypes, NEW ids, \A x \in ids \cap ExId : Begun(x),
           NEW how \in {"removed", "cleared", "evicted"}, Removed(ids, how)
    PROVE  /\ shown' \in [ExId -> {"never", "removed", "cleared", "evicted"} \cup Stored]
           /\ \A x \in ExId : Begun(x)' <=> Begun(x)
BY DEF ServerTypes, Removed, Begun

\* Clearing a conversation drops what it stores and what still runs of it.
LEMMA ClearedTypes ==
    ASSUME ServerTypes, BegunInv, NEW v \in Conv, Cleared(v)
    PROVE  /\ shown' \in [ExId -> {"never", "removed", "cleared", "evicted"} \cup Stored]
           /\ \A x \in ExId : Begun(x)' <=> Begun(x)
           /\ nextSeq' \in [Conv -> Nat \ {0}]
           /\ UNCHANGED <<calling, home, seqno, spoke>>
<1> DEFINE gone == {x \in ExId : home[x] = v /\ (shown[x] \in Stored \/ x \in calling)}
<1>1. \A x \in gone \cap ExId : Begun(x)
  BY DEF BegunInv, Begun, Stored
<1>2. Removed(gone, "cleared") /\ UNCHANGED <<calling, home, seqno, spoke>>
  BY DEF Cleared
<1>3. nextSeq' \in [Conv -> Nat \ {0}]
  BY DEF Cleared, ServerTypes
<1> HIDE DEF gone
<1> QED BY <1>1, <1>2, <1>3, RemovedTypes

\* Steps that drop exchanges, and touch no card, live text, event or focus.
LEMMA DropKeeps ==
    ASSUME UiInv, UNCHANGED <<calling, home, seqno, events, live, focus>>,
           \A x \in ExId : Begun(x)' <=> Begun(x)
    PROVE  BegunInv' /\ LiveOfFocus'
<1>1. \A i \in DOMAIN events : events[i].id \in ExId
  BY EventIds DEF UiInv, SocketTypes
<1>2. calling \cup live \subseteq ExId
  BY DEF UiInv, ServerTypes, CardTypes
<1> QED BY <1>1, <1>2 DEF UiInv, BegunInv, LiveOfFocus

\* A new exchange takes the next number of its conversation.
LEMMA BeginStep ==
    ASSUME UiInv, NEW x \in ExId, NEW v \in Conv, Begin(x, v)
    PROVE  UiInv'
<1> USE DEF Begin, server, socket, page, UiInv
<1>1. ServerTypes'
  <2>1. nextSeq[v] \in Nat \ {0} /\ nextSeq[v] + 1 \in Nat \ {0}
    BY DEF ServerTypes
  <2>2. seen' \subseteq ExId
    BY DEF Seen, ServerTypes
  <2> QED BY <2>1, <2>2 DEF ServerTypes, Stored
<1>2. SocketTypes'
  BY SentType DEF SocketTypes, ServerTypes
<1>3. CardTypes'
  BY DEF CardTypes, Cards, Card, Event, Stored
<1>4. RequestTypes'
  BY DEF RequestTypes, Removal, Fill, Idle
<1>5. BegunInv'
  <2>1. nextSeq[v] \in Nat \ {0} /\ events \in Seq(Event) /\ shown'[x] = "pending"
    BY DEF ServerTypes, SocketTypes
  <2>2. \A y \in ExId : y # x => home'[y] = home[y] /\ seqno'[y] = seqno[y] /\ shown'[y] = shown[y]
    BY DEF ServerTypes
  <2>3. \A y \in ExId : Begun(y)' => home'[y] \in Conv /\ seqno'[y] \in Nat \ {0}
    BY <2>1, <2>2 DEF ServerTypes, BegunInv, Begun
  <2>4. \A y \in calling' \cup live' : Begun(y)'
    BY <2>1, <2>2 DEF ServerTypes, CardTypes, BegunInv, Begun
  <2>5. \A y \in ExId : Begun(y) => Begun(y)'
    BY <2>1, <2>2 DEF Begun
  <2>6. \A i \in DOMAIN events : events[i].id \in ExId /\ Begun(events[i].id)
    BY <2>1, EventIds DEF BegunInv
  <2>7. \A i \in DOMAIN events' : shown'[events'[i].id] # "never"
    <3>1. \E n \in Nat \ {0} : events' = Sent("started", x, v, n)
      BY <2>1
    <3>2. \A i \in DOMAIN events' : events'[i].id = x \/ (i \in DOMAIN events /\ events'[i].id = events[i].id)
      BY <2>1, <3>1, SentType
    <3> QED BY <2>1, <2>5, <2>6, <3>2 DEF Begun
  <2> QED BY <2>3, <2>4, <2>7 DEF BegunInv, Begun
<1>6. LiveOfFocus'
  BY DEF ServerTypes, SocketTypes, CardTypes, BegunInv, Begun, LiveOfFocus
<1> QED BY <1>1, <1>2, <1>3, <1>4, <1>5, <1>6

\* Only a running exchange streams.
LEMMA SpeakStep ==
    ASSUME UiInv, NEW x \in ExId, Speak(x)
    PROVE  UiInv'
<1> USE DEF Speak, server, socket, page, UiInv
<1>1. ServerTypes'
  BY Moved DEF ServerTypes
<1>2. SocketTypes'
  <2>1. x \in calling /\ seqno[x] \in Nat \ {0}
    BY DEF BegunInv, ServerTypes
  <2> QED BY <2>1, SentType DEF SocketTypes
<1>3. CardTypes'
  BY DEF CardTypes, Cards, Card, Event, Stored
<1>4. RequestTypes'
  BY DEF RequestTypes, Removal, Fill, Idle
<1>5. BegunInv'
  <2>1. Begun(x) /\ seqno[x] \in Nat \ {0} /\ events \in Seq(Event)
    BY DEF BegunInv, ServerTypes, SocketTypes
  <2>2. \A i \in DOMAIN events' : Begun(events'[i].id)
    BY <2>1, SentType DEF BegunInv
  <2> QED BY <2>2 DEF BegunInv, Begun
<1>6. LiveOfFocus'
  BY DEF ServerTypes, SocketTypes, CardTypes, BegunInv, Begun, LiveOfFocus
<1> QED BY <1>1, <1>2, <1>3, <1>4, <1>5, <1>6

\* A call that ends is told, and numbered anew where its conversation was cleared.
LEMMA FinishStep ==
    ASSUME UiInv, NEW x \in ExId, Finish(x)
    PROVE  UiInv'
<1> USE DEF Finish, server, socket, page, UiInv
<1>1. ServerTypes'
  <2>1. home[x] \in Conv /\ nextSeq[home[x]] \in Nat \ {0} /\ nextSeq[home[x]] + 1 \in Nat \ {0}
    BY DEF ServerTypes, BegunInv
  <2>2. seen' \subseteq ExId
    BY DEF Seen, ServerTypes
  <2>3. shown' \in [ExId -> {"never", "removed", "cleared", "evicted"} \cup Stored]
    BY DEF ServerTypes, Stored
  <2> QED BY <2>1, <2>2, <2>3 DEF ServerTypes
<1>2. SocketTypes'
  <2>1. home[x] \in Conv /\ seqno[x] \in Nat \ {0} /\ nextSeq[home[x]] \in Nat \ {0}
    BY DEF ServerTypes, BegunInv
  <2>2. events' \in Seq(Event)
    BY <2>1, SentType DEF SocketTypes
  <2> QED BY <2>2 DEF SocketTypes
<1>3. CardTypes'
  BY DEF CardTypes, Cards, Card, Event, Stored
<1>4. RequestTypes'
  BY DEF RequestTypes, Removal, Fill, Idle
<1>5. BegunInv'
  <2>1. home[x] \in Conv /\ seqno[x] \in Nat \ {0} /\ nextSeq[home[x]] \in Nat \ {0}
    BY DEF ServerTypes, BegunInv
  <2>2. Begun(x) /\ Begun(x)' /\ seqno'[x] \in Nat \ {0} /\ events \in Seq(Event)
    BY <2>1 DEF ServerTypes, BegunInv, Begun, SocketTypes
  <2>3. \A y \in ExId : y # x => seqno'[y] = seqno[y] /\ shown'[y] = shown[y]
    BY DEF ServerTypes
  <2>4. \A y \in ExId : Begun(y)' <=> Begun(y)
    BY <2>2, <2>3 DEF Begun
  <2>5. \A y \in ExId : Begun(y)' => home'[y] \in Conv /\ seqno'[y] \in Nat \ {0}
    BY <2>1, <2>2, <2>3, <2>4 DEF BegunInv
  <2>6. \A y \in calling' \cup live' : Begun(y)'
    BY <2>4 DEF ServerTypes, CardTypes, BegunInv
  <2>7. \A i \in DOMAIN events : events[i].id \in ExId /\ Begun(events[i].id)
    BY <2>2, EventIds DEF BegunInv
  <2>8. \A i \in DOMAIN events' : events'[i].id \in ExId /\ Begun(events'[i].id)
    <3>1. events' = events \/ \E n \in Nat \ {0} : events' = Sent("completed", x, home[x], n)
      BY <2>1
    <3>2. \A i \in DOMAIN events' : events'[i].id = x \/ (i \in DOMAIN events /\ events'[i].id = events[i].id)
      BY <2>2, <3>1, SentType
    <3> QED BY <2>2, <2>7, <3>2
  <2> QED BY <2>4, <2>5, <2>6, <2>8 DEF BegunInv
<1>6. LiveOfFocus'
  BY DEF ServerTypes, SocketTypes, CardTypes, BegunInv, Begun, LiveOfFocus
<1> QED BY <1>1, <1>2, <1>3, <1>4, <1>5, <1>6

\* The request names the conversation in focus and the number on the card.
LEMMA RemoveClickedStep ==
    ASSUME UiInv, NEW x \in ExId, RemoveClicked(x)
    PROVE  UiInv'
<1> USE DEF RemoveClicked, server, socket, page, UiInv
<1>1. ServerTypes'
  BY Moved DEF ServerTypes
<1>2. SocketTypes'
  BY DEF SocketTypes, ServerTypes, CardTypes, Event
<1>3. CardTypes'
  BY DEF CardTypes, Cards, Card, Event, Stored
<1>4. RequestTypes'
  <2>1. focus \in Conv /\ cards[x].seq \in Nat
    BY DEF CardTypes, Cards, Card
  <2>2. [phase |-> "asked", conv |-> focus, seq |-> cards[x].seq, replaced |-> FALSE] \in Removal
    BY <2>1 DEF Removal
  <2> QED BY <2>2 DEF RequestTypes
<1>5. BegunInv'
  BY DEF ServerTypes, SocketTypes, CardTypes, BegunInv, Begun, Event, Stored
<1>6. LiveOfFocus'
  BY DEF ServerTypes, SocketTypes, CardTypes, BegunInv, Begun, LiveOfFocus
<1> QED BY <1>1, <1>2, <1>3, <1>4, <1>5, <1>6

\* Only what is stored is removed.
LEMMA RemoveServedStep ==
    ASSUME UiInv, NEW x \in ExId, RemoveServed(x)
    PROVE  UiInv'
<1> USE DEF RemoveServed, server, socket, page, UiInv
<1>0. /\ shown' \in [ExId -> {"never", "removed", "cleared", "evicted"} \cup Stored]
      /\ \A y \in ExId : Begun(y)' <=> Begun(y)
  <2> DEFINE hit == Hit(removal[x].conv, removal[x].seq)
  <2>1. \A y \in hit \cap ExId : Begun(y)
    BY DEF Hit, Begun, Stored
  <2>2. Removed(hit, "removed")
    OBVIOUS
  <2> HIDE DEF hit
  <2> QED BY <2>1, <2>2, RemovedTypes
<1>1. ServerTypes'
  BY <1>0 DEF ServerTypes
<1>2. SocketTypes'
  BY DEF SocketTypes, ServerTypes, CardTypes, Event
<1>3. CardTypes'
  BY DEF CardTypes, Cards, Card, Event, Stored
<1>4. RequestTypes'
  BY DEF RequestTypes, Removal, Fill, Idle
<1>5. BegunInv' /\ LiveOfFocus'
  <2>1. UNCHANGED <<calling, home, seqno, events, live, focus>>
    BY DEF Removed
  <2> QED BY <2>1, <1>0, DropKeeps DEF UiInv
<1> QED BY <1>1, <1>2, <1>3, <1>4, <1>5

\* The answer to a removal takes a card and live text away.
LEMMA RemoveArrivesStep ==
    ASSUME UiInv, NEW x \in ExId, RemoveArrives(x)
    PROVE  UiInv'
<1> USE DEF RemoveArrives, server, socket, page, UiInv
<1>1. ServerTypes'
  BY Moved DEF ServerTypes
<1>2. SocketTypes'
  BY DEF SocketTypes, ServerTypes, CardTypes, Event
<1>3. CardTypes'
  BY DEF CardTypes, Cards, Card, Event, Stored
<1>4. RequestTypes'
  BY DEF RequestTypes, Removal, Fill, Idle
<1>5. BegunInv'
  BY DEF ServerTypes, SocketTypes, CardTypes, BegunInv, Begun, Event, Stored
<1>6. LiveOfFocus'
  BY DEF ServerTypes, SocketTypes, CardTypes, BegunInv, Begun, LiveOfFocus
<1> QED BY <1>1, <1>2, <1>3, <1>4, <1>5, <1>6

\* So do other UIs, and eviction.
LEMMA OthersDropStep ==
    ASSUME UiInv, OthersDrop
    PROVE  UiInv'
<1> USE DEF OthersDrop, server, socket, page, UiInv
<1>0. /\ shown' \in [ExId -> {"never", "removed", "cleared", "evicted"} \cup Stored]
      /\ \A x \in ExId : Begun(x)' <=> Begun(x)
      /\ nextSeq' \in [Conv -> Nat \ {0}]
      /\ UNCHANGED <<calling, home, seqno, spoke>>
  <2>1. ASSUME NEW x \in ExId, NEW how \in {"removed", "evicted"}, shown[x] \in Stored, Removed({x}, how)
        PROVE  /\ shown' \in [ExId -> {"never", "removed", "cleared", "evicted"} \cup Stored]
               /\ \A y \in ExId : Begun(y)' <=> Begun(y)
    <3>1. \A y \in {x} \cap ExId : Begun(y)
      BY <2>1 DEF Begun, Stored
    <3> QED BY <2>1, <3>1, RemovedTypes
  <2>2. CASE \E v \in Conv : Cleared(v)
    BY <2>2, ClearedTypes
  <2>3. CASE \E x \in ExId, how \in {"removed", "evicted"} :
               /\ shown[x] \in Stored
               /\ Removed({x}, how)
               /\ UNCHANGED <<calling, home, seqno, nextSeq, spoke>>
    BY <2>1, <2>3 DEF ServerTypes
  <2> QED BY <2>2, <2>3
<1>1. ServerTypes'
  BY <1>0, Moved DEF ServerTypes
<1>2. SocketTypes'
  BY DEF SocketTypes, ServerTypes, CardTypes, Event
<1>3. CardTypes'
  BY DEF CardTypes, Cards, Card, Event, Stored
<1>4. RequestTypes'
  BY DEF RequestTypes, Removal, Fill, Idle
<1>5. BegunInv' /\ LiveOfFocus'
  <2>1. UNCHANGED <<calling, home, seqno, events, live, focus>>
    BY <1>0
  <2> QED BY <2>1, <1>0, DropKeeps DEF UiInv
<1> QED BY <1>1, <1>2, <1>3, <1>4, <1>5

\* A connection that opens subscribes to the focus.
LEMMA WsOpensStep ==
    ASSUME UiInv, WsOpens
    PROVE  UiInv'
<1> USE DEF WsOpens, server, socket, page, UiInv
<1>1. ServerTypes'
  BY Moved DEF ServerTypes
<1>2. SocketTypes'
  BY DEF SocketTypes, ServerTypes, CardTypes, Event
<1>3. CardTypes'
  BY DEF CardTypes, Cards, Card, Event, Stored
<1>4. RequestTypes'
  BY DEF RequestTypes, Removal, Fill, Idle
<1>5. BegunInv'
  BY DEF ServerTypes, SocketTypes, CardTypes, BegunInv, Begun, Event, Stored
<1>6. LiveOfFocus'
  BY DEF ServerTypes, SocketTypes, CardTypes, BegunInv, Begun, LiveOfFocus
<1> QED BY <1>1, <1>2, <1>3, <1>4, <1>5, <1>6

\* A connection that drops loses what is under way.
LEMMA WsDropsStep ==
    ASSUME UiInv, WsDrops
    PROVE  UiInv'
<1> USE DEF WsDrops, server, socket, page, UiInv
<1>1. ServerTypes'
  BY Moved DEF ServerTypes
<1>2. SocketTypes'
  BY DEF SocketTypes, ServerTypes, CardTypes, Event
<1>3. CardTypes'
  BY DEF CardTypes, Cards, Card, Event, Stored
<1>4. RequestTypes'
  BY DEF RequestTypes, Removal, Fill, Idle
<1>5. BegunInv'
  BY DEF ServerTypes, SocketTypes, CardTypes, BegunInv, Begun, Event, Stored
<1>6. LiveOfFocus'
  BY DEF ServerTypes, SocketTypes, CardTypes, BegunInv, Begun, LiveOfFocus
<1> QED BY <1>1, <1>2, <1>3, <1>4, <1>5, <1>6

\* The server takes over the focus.
LEMMA SubscribeArrivesStep ==
    ASSUME UiInv, SubscribeArrives
    PROVE  UiInv'
<1> USE DEF SubscribeArrives, server, socket, page, UiInv
<1>1. ServerTypes'
  BY Moved DEF ServerTypes
<1>2. SocketTypes'
  BY DEF SocketTypes, ServerTypes, CardTypes, Event
<1>3. CardTypes'
  BY DEF CardTypes, Cards, Card, Event, Stored
<1>4. RequestTypes'
  BY DEF RequestTypes, Removal, Fill, Idle
<1>5. BegunInv'
  BY DEF ServerTypes, SocketTypes, CardTypes, BegunInv, Begun, Event, Stored
<1>6. LiveOfFocus'
  BY DEF ServerTypes, SocketTypes, CardTypes, BegunInv, Begun, LiveOfFocus
<1> QED BY <1>1, <1>2, <1>3, <1>4, <1>5, <1>6

\* An event is of an exchange that has begun, and counts only in its own conversation.
LEMMA EventArrivesStep ==
    ASSUME UiInv, EventArrives
    PROVE  UiInv'
<1> USE DEF EventArrives, server, socket, page, UiInv
<1>0. /\ Head(events) \in Event /\ Begun(Head(events).id)
      /\ events' \in Seq(Event) /\ \A i \in DOMAIN events' : events'[i] = events[i + 1] /\ i + 1 \in DOMAIN events
  BY DEF SocketTypes, BegunInv
<1>000. lost' \subseteq lost
  BY DEF Heard, Upsert
<1>00. \/ cards' = cards /\ live' = live /\ removal' = removal
       \/ cards' = cards /\ live' = live \cup {Head(events).id} /\ removal' = removal
            /\ home[Head(events).id] = focus
       \/ cards' \in Cards /\ live' \subseteq live /\ removal' \in [ExId -> Removal]
  <2>1. CardOf(Head(events)) \in Cards
    BY <1>0 DEF CardOf, NoCards, Cards, Card, Event, Stored
  <2> QED BY <2>1, UpsertTypes DEF Heard
<1>1. ServerTypes'
  BY <1>000 DEF ServerTypes
<1>2. SocketTypes'
  BY <1>0 DEF SocketTypes
<1>3. CardTypes'
  BY <1>0, <1>00 DEF CardTypes, Event
<1>4. RequestTypes'
  BY <1>00 DEF RequestTypes
<1>5. BegunInv'
  BY <1>0, <1>00 DEF BegunInv, Begun
<1>6. LiveOfFocus'
  BY <1>0, <1>00 DEF LiveOfFocus
<1> QED BY <1>1, <1>2, <1>3, <1>4, <1>5, <1>6

\* Opening a conversation starts from an empty page.
LEMMA SelectStep ==
    ASSUME UiInv, NEW v \in Conv, NEW i \in Slot, Select(v, i)
    PROVE  UiInv'
<1> USE DEF Select, server, socket, page, UiInv
<1>1. ServerTypes'
  BY Moved DEF ServerTypes
<1>2. SocketTypes'
  BY DEF SocketTypes, ServerTypes, CardTypes, Event
<1>3. CardTypes'
  BY EmptyListTypes DEF CardTypes
<1>4. RequestTypes'
  <2>1. [phase |-> "asked", conv |-> v] \in Fill
    BY DEF Fill
  <2> QED BY <2>1, EmptyListTypes DEF RequestTypes
<1>5. BegunInv'
  BY DEF ServerTypes, SocketTypes, CardTypes, BegunInv, Begun, Event, Stored
<1>6. LiveOfFocus'
  BY DEF ServerTypes, SocketTypes, CardTypes, BegunInv, Begun, LiveOfFocus
<1> QED BY <1>1, <1>2, <1>3, <1>4, <1>5, <1>6

\* The snapshot holds cards.
LEMMA FillAnsweredStep ==
    ASSUME UiInv, NEW i \in Slot, FillAnswered(i)
    PROVE  UiInv'
<1> USE DEF FillAnswered, server, socket, page, UiInv
<1>1. ServerTypes'
  BY Moved DEF ServerTypes
<1>2. SocketTypes'
  BY DEF SocketTypes, ServerTypes, CardTypes, Event
<1>3. CardTypes'
  BY DEF CardTypes, Cards, Card, Event, Stored
<1>4. RequestTypes'
  <2> DEFINE snapshot == [x \in ExId |-> IF shown[x] \in Stored /\ home[x] = fills[i].conv
                                      THEN [state |-> shown[x], seq |-> seqno[x]] ELSE None]
  <2>1. snapshot \in Cards
    BY DEF Cards, Card, ServerTypes, BegunInv, Begun, Stored
  <2> HIDE DEF snapshot
  <2>2. [phase |-> "answered", render |-> snapshot] \in Fill
    BY <2>1 DEF Fill
  <2>3. fills' = [fills EXCEPT ![i] = [phase |-> "answered", render |-> snapshot]]
    BY DEF snapshot
  <2> QED BY <2>2, <2>3 DEF RequestTypes
<1>5. BegunInv'
  BY DEF ServerTypes, SocketTypes, CardTypes, BegunInv, Begun, Event, Stored
<1>6. LiveOfFocus'
  BY DEF ServerTypes, SocketTypes, CardTypes, BegunInv, Begun, LiveOfFocus
<1> QED BY <1>1, <1>2, <1>3, <1>4, <1>5, <1>6

\* And they are rendered.
LEMMA FillArrivesStep ==
    ASSUME UiInv, NEW i \in Slot, FillArrives(i)
    PROVE  UiInv'
<1> USE DEF FillArrives, server, socket, page, UiInv
<1>0. fills[i].render \in Cards
  BY DEF RequestTypes, Fill, Idle
<1>1. ServerTypes'
  BY <1>0, UpsertTypes DEF ServerTypes
<1>2. SocketTypes'
  BY DEF SocketTypes, ServerTypes, CardTypes, Event
<1>3. CardTypes'
  BY <1>0, UpsertTypes DEF CardTypes
<1>4. RequestTypes'
  BY <1>0, UpsertTypes DEF RequestTypes, Fill
<1>5. BegunInv'
  BY <1>0, UpsertTypes DEF BegunInv, Begun
<1>6. LiveOfFocus'
  BY <1>0, UpsertTypes DEF LiveOfFocus
<1> QED BY <1>1, <1>2, <1>3, <1>4, <1>5, <1>6

\* A failed snapshot empties the list.
LEMMA FillFailsStep ==
    ASSUME UiInv, NEW i \in Slot, FillFails(i)
    PROVE  UiInv'
<1> USE DEF FillFails, server, socket, page, UiInv
<1>1. ServerTypes'
  BY Moved DEF ServerTypes
<1>2. SocketTypes'
  BY DEF SocketTypes, ServerTypes, CardTypes, Event
<1>3. CardTypes'
  BY EmptyListTypes DEF CardTypes
<1>4. RequestTypes'
  BY EmptyListTypes DEF RequestTypes, Fill
<1>5. BegunInv'
  BY DEF ServerTypes, SocketTypes, CardTypes, BegunInv, Begun, Event, Stored
<1>6. LiveOfFocus'
  BY DEF ServerTypes, SocketTypes, CardTypes, BegunInv, Begun, LiveOfFocus
<1> QED BY <1>1, <1>2, <1>3, <1>4, <1>5, <1>6

\* The clear button names the focus.
LEMMA ClearClickedStep ==
    ASSUME UiInv, ClearClicked
    PROVE  UiInv'
<1> USE DEF ClearClicked, server, socket, page, UiInv
<1>1. ServerTypes'
  BY Moved DEF ServerTypes
<1>2. SocketTypes'
  BY DEF SocketTypes, ServerTypes, CardTypes, Event
<1>3. CardTypes'
  BY DEF CardTypes, Cards, Card, Event, Stored
<1>4. RequestTypes'
  BY DEF RequestTypes, CardTypes
<1>5. BegunInv'
  BY DEF ServerTypes, SocketTypes, CardTypes, BegunInv, Begun, Event, Stored
<1>6. LiveOfFocus'
  BY DEF ServerTypes, SocketTypes, CardTypes, BegunInv, Begun, LiveOfFocus
<1> QED BY <1>1, <1>2, <1>3, <1>4, <1>5, <1>6

\* Clearing drops exchanges.
LEMMA ClearServedStep ==
    ASSUME UiInv, ClearServed
    PROVE  UiInv'
<1> USE DEF ClearServed, server, socket, page, UiInv
<1>0. /\ shown' \in [ExId -> {"never", "removed", "cleared", "evicted"} \cup Stored]
      /\ \A x \in ExId : Begun(x)' <=> Begun(x)
      /\ nextSeq' \in [Conv -> Nat \ {0}]
      /\ UNCHANGED <<calling, home, seqno, spoke>>
  <2>1. clearing.conv \in Conv
    BY DEF RequestTypes, Idle
  <2> QED BY <2>1, ClearedTypes
<1>1. ServerTypes'
  BY <1>0 DEF ServerTypes
<1>2. SocketTypes'
  BY DEF SocketTypes, ServerTypes, CardTypes, Event
<1>3. CardTypes'
  BY DEF CardTypes, Cards, Card, Event, Stored
<1>4. RequestTypes'
  BY DEF RequestTypes, Removal, Fill, Idle
<1>5. BegunInv' /\ LiveOfFocus'
  <2>1. UNCHANGED <<calling, home, seqno, events, live, focus>>
    BY <1>0
  <2> QED BY <2>1, <1>0, DropKeeps DEF UiInv
<1> QED BY <1>1, <1>2, <1>3, <1>4, <1>5

\* And empties the page.
LEMMA ClearArrivesStep ==
    ASSUME UiInv, ClearArrives
    PROVE  UiInv'
<1> USE DEF ClearArrives, server, socket, page, UiInv
<1>1. ServerTypes'
  BY DEF ServerTypes
<1>2. SocketTypes'
  BY DEF SocketTypes, ServerTypes, CardTypes, Event
<1>3. CardTypes'
  BY EmptyListTypes DEF CardTypes
<1>4. RequestTypes'
  BY EmptyListTypes DEF RequestTypes
<1>5. BegunInv'
  BY DEF ServerTypes, SocketTypes, CardTypes, BegunInv, Begun, Event, Stored
<1>6. LiveOfFocus'
  BY DEF ServerTypes, SocketTypes, CardTypes, BegunInv, Begun, LiveOfFocus
<1> QED BY <1>1, <1>2, <1>3, <1>4, <1>5, <1>6

-----------------------------------------------------------------------------
\* Nothing has begun when the page is loaded.
LEMMA InitUiInv == UiInit => UiInv
<1> SUFFICES ASSUME UiInit PROVE UiInv
  OBVIOUS
<1>1. ServerTypes /\ SocketTypes
  BY UiAssumption DEF UiInit, ServerTypes, SocketTypes
<1>2. CardTypes /\ RequestTypes
  BY DEF UiInit, CardTypes, RequestTypes, NoCards, Cards, Fill, Removal
<1>3. BegunInv /\ LiveOfFocus
  BY DEF UiInit, BegunInv, Begun, LiveOfFocus
<1> QED BY <1>1, <1>2, <1>3 DEF UiInv

\* Every step keeps the invariant.
LEMMA StepUiInv == UiInv /\ [UiNext]_uiVars => UiInv'
<1> SUFFICES ASSUME UiInv, [UiNext]_uiVars PROVE UiInv'
  OBVIOUS
<1>1. ASSUME NEW x \in ExId, NEW v \in Conv, Begin(x, v) PROVE UiInv'
  BY <1>1, BeginStep
<1>2. ASSUME NEW x \in ExId,
             \/ Speak(x) \/ Finish(x)
             \/ RemoveClicked(x) \/ RemoveServed(x) \/ RemoveArrives(x)
      PROVE  UiInv'
  BY <1>2, SpeakStep, FinishStep, RemoveClickedStep, RemoveServedStep, RemoveArrivesStep
<1>3. CASE OthersDrop \/ WsOpens \/ WsDrops \/ SubscribeArrives \/ EventArrives
  BY <1>3, OthersDropStep, WsOpensStep, WsDropsStep, SubscribeArrivesStep, EventArrivesStep
<1>4. ASSUME NEW i \in Slot, NEW v \in Conv, Select(v, i) PROVE UiInv'
  BY <1>4, SelectStep
<1>5. ASSUME NEW i \in Slot, FillAnswered(i) \/ FillArrives(i) \/ FillFails(i) PROVE UiInv'
  BY <1>5, FillAnsweredStep, FillArrivesStep, FillFailsStep
<1>6. CASE ClearClicked \/ ClearServed \/ ClearArrives
  BY <1>6, ClearClickedStep, ClearServedStep, ClearArrivesStep
<1>7. CASE UNCHANGED uiVars
  BY <1>7 DEF uiVars, server, socket, page, UiInv, ServerTypes, SocketTypes, CardTypes,
              RequestTypes, BegunInv, Begun, LiveOfFocus
<1> QED BY <1>1, <1>2, <1>3, <1>4, <1>5, <1>6, <1>7 DEF UiNext

\* The invariant holds in every reachable state.
THEOREM UiInvariant == UiSpec => []UiInv
BY InitUiInv, StepUiInv, PTL DEF UiSpec

\* Type correctness.
THEOREM UiTypes == UiSpec => []UiTypeOK
<1>1. UiInv => UiTypeOK
  BY TypeParts DEF UiInv
<1> QED BY UiInvariant, <1>1, PTL

\* No streamed text of another conversation gets onto the page, however many openings,
\* reconnects and events are under way (app.js:25-26, 165-169, 825-831).
THEOREM UiLiveOfFocus == UiSpec => []LiveOfFocus
<1>1. UiInv => LiveOfFocus
  BY DEF UiInv
<1> QED BY UiInvariant, <1>1, PTL
-----------------------------------------------------------------------------
\* How the listing shows an exchange.
ListedAs(x) == IF shown[x] \in {"removed", "cleared", "evicted"} THEN "gone" ELSE shown[x]

\* Every exchange but those of ids is as it was, or was dropped after it had begun.
Drops(ids) ==
    \A x \in ExId \ ids :
        shown'[x] = shown[x] \/ (Begun(x) /\ shown'[x] \in {"removed", "cleared", "evicted"})

\* A step of the server that begins and ends no call drops exchanges.
LEMMA ServerDrops ==
    ASSUME UiInv, OthersDrop \/ ClearServed \/ \E x \in ExId : RemoveServed(x)
    PROVE  Drops({}) /\ calling' = calling
<1>1. ASSUME NEW v \in Conv, Cleared(v) PROVE Drops({})
  <2>1. \A x \in ExId : home[x] = v /\ (shown[x] \in Stored \/ x \in calling) => Begun(x)
    BY DEF UiInv, BegunInv, Begun, Stored
  <2> QED BY <1>1, <2>1 DEF Cleared, Removed, Drops
<1>2. ASSUME NEW ids, \A x \in ids \cap ExId : shown[x] \in Stored,
             NEW how \in {"removed", "evicted"}, Removed(ids, how)
      PROVE  Drops({})
  BY <1>2 DEF Removed, Drops, Begun, Stored
<1>3. CASE OthersDrop
  <2>1. calling' = calling
    BY <1>3 DEF OthersDrop, Cleared
  <2>2. CASE \E v \in Conv : Cleared(v)
    BY <1>1, <2>1, <2>2
  <2>3. ASSUME NEW x \in ExId, NEW how \in {"removed", "evicted"}, shown[x] \in Stored, Removed({x}, how)
        PROVE  Drops({})
    BY <1>2, <2>3
  <2> QED BY <1>3, <2>1, <2>2, <2>3 DEF OthersDrop
<1>4. CASE ClearServed
  <2>1. clearing.conv \in Conv
    BY <1>4 DEF ClearServed, UiInv, RequestTypes, Idle
  <2>2. PICK v \in Conv : v = clearing.conv
    BY <2>1
  <2>3. Cleared(v)
    BY <1>4, <2>2 DEF ClearServed
  <2> QED BY <1>1, <2>3 DEF Cleared
<1>5. ASSUME NEW x \in ExId, RemoveServed(x) PROVE Drops({}) /\ calling' = calling
  <2>1. PICK hit : hit = Hit(removal[x].conv, removal[x].seq)
    OBVIOUS
  <2>2. Removed(hit, "removed") /\ calling' = calling
    BY <1>5, <2>1 DEF RemoveServed
  <2>3. \A y \in hit \cap ExId : shown[y] \in Stored
    BY <2>1 DEF Hit
  <2> QED BY <1>2, <2>2, <2>3
<1> QED BY <1>3, <1>4, <1>5

\* What the server of the page lists refines ExchangeLedger (memory.py:48-117).
THEOREM UiServerIsLedger == UiSpec => ServerIsLedger
<1> DEFINE listing == [x \in ExId |-> IF shown[x] \in {"removed", "cleared", "evicted"}
                                      THEN "gone" ELSE shown[x]]
<1>1. UiInit => Ledger!LedgerInit
  BY DEF UiInit, Ledger!LedgerInit
<1>2. UiInv /\ UiInv' /\ [UiNext]_uiVars => [Ledger!LedgerNext]_<<listing, calling>>
  <2> SUFFICES ASSUME UiInv, UiInv', [UiNext]_uiVars
               PROVE  [Ledger!LedgerNext]_<<listing, calling>>
    OBVIOUS
  <2>1. \A x \in ExId : listing[x] = ListedAs(x) /\ listing'[x] = ListedAs(x)'
    BY DEF ListedAs
  <2>2. listing' \in [ExId -> Ledger!Shown]
    BY DEF UiInv, ServerTypes, Ledger!Shown, Stored
  <2>3. ASSUME NEW ids, Drops(ids) PROVE Ledger!MayDrop(ids)
    BY <2>3, <2>1 DEF Drops, Ledger!MayDrop, ListedAs, Begun
  <2>4. ASSUME UNCHANGED <<shown, calling>> PROVE UNCHANGED <<listing, calling>>
    BY <2>4
  <2> HIDE DEF listing
  <2>5. ASSUME NEW x \in ExId, NEW v \in Conv, Begin(x, v) PROVE Ledger!LedgerNext
    <3>1. /\ shown[x] = "never" /\ shown'[x] = "pending" /\ calling' = calling \cup {x}
          /\ \A y \in ExId \ {x} : shown'[y] = shown[y]
      BY <2>5 DEF Begin, UiInv, ServerTypes
    <3>2. listing[x] = "never" /\ listing'[x] = "pending" /\ Drops({x})
      BY <2>1, <3>1 DEF ListedAs, Drops
    <3> QED BY <2>2, <2>3, <3>1, <3>2 DEF Ledger!LedgerNext, Ledger!Begin, listing
  <2>6. ASSUME NEW x \in ExId, Finish(x) PROVE Ledger!LedgerNext
    <3>1. /\ x \in calling /\ calling' = calling \ {x}
          /\ \A y \in ExId \ {x} : shown'[y] = shown[y]
          /\ shown'[x] \in {"removed", "evicted", "done"}
          /\ shown[x] = "pending" => shown'[x] = "done"
      BY <2>6 DEF Finish, UiInv, ServerTypes
    <3>2. /\ listing'[x] \in {"done", "gone"} /\ Drops({x})
          /\ listing[x] = "pending" => listing'[x] = "done"
      BY <2>1, <3>1 DEF ListedAs, Drops
    <3> QED BY <2>2, <2>3, <3>1, <3>2 DEF Ledger!LedgerNext, Ledger!End, listing
  <2>7. CASE OthersDrop \/ ClearServed \/ \E x \in ExId : RemoveServed(x)
    <3>1. Drops({}) /\ calling' = calling
      BY <2>7, ServerDrops
    <3> QED BY <2>2, <2>3, <3>1 DEF Ledger!LedgerNext, Ledger!Drop, listing
  <2>8. ASSUME \/ UNCHANGED uiVars
               \/ \E x \in ExId : Speak(x) \/ RemoveClicked(x) \/ RemoveArrives(x)
               \/ WsOpens \/ WsDrops \/ SubscribeArrives \/ EventArrives
               \/ \E i \in Slot : \/ \E v \in Conv : Select(v, i)
                                  \/ FillAnswered(i) \/ FillArrives(i) \/ FillFails(i)
               \/ ClearClicked \/ ClearArrives
        PROVE  UNCHANGED <<listing, calling>>
    <3>1. UNCHANGED <<shown, calling>>
      BY <2>8 DEF uiVars, server, Speak, RemoveClicked, RemoveArrives, WsOpens, WsDrops,
                  SubscribeArrives, EventArrives, Select, FillAnswered, FillArrives,
                  FillFails, ClearClicked, ClearArrives
    <3> QED BY <3>1, <2>4
  <2> QED BY <2>5, <2>6, <2>7, <2>8 DEF UiNext
<1> QED BY <1>1, <1>2, UiInvariant, PTL DEF UiSpec, ServerIsLedger, Ledger!LedgerSpec, Ledger!ledgerVars
=============================================================================
