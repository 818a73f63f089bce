---------------------------- MODULE UiSyncProofs ----------------------------
(***************************************************************************)
(* The proof that the page ends in sync with the server (SettledInSync),   *)
(* for every set of exchanges and conversations and any number of events,  *)
(* snapshots and removals under way; and that a card in sync removes its   *)
(* own exchange.                                                           *)
(***************************************************************************)
EXTENDS UiProofs

\* The card that shows x as the server has it.
Current(x) == [state |-> shown[x], seq |-> seqno[x]]

\* The event that renders that card.
Telling(x) == [kind |-> IF shown[x] = "done" THEN "completed" ELSE "started",
               id |-> x, seq |-> seqno[x]]

\* What a card waits for whose exchange t tells of: events that render it, and streamed
\* text of an exchange that is done.
Concerns(e, t) == e.id = t.id /\ (e.kind # "delta" \/ t.kind = "completed")
AwaitedIn(s, t) == \E i \in DOMAIN s : Concerns(s[i], t)

\* The last of them is t.
TruthLast(s, t) ==
    \A i \in DOMAIN s : Concerns(s[i], t) => \E j \in DOMAIN s : i <= j /\ s[j] = t

Awaited(x) == AwaitedIn(events, Telling(x))
Told(x) == TruthLast(events, Telling(x))

\* Whatever the snapshots under way render of x is what the server has.
FillsAgree(x) ==
    \A i \in Slot : fills[i].phase = "answered" => fills[i].render[x] \in {None, Current(x)}

\* The snapshot under way in slot i will render x as the server has it.
Carries(i, x) ==
    \/ fills[i].phase = "asked" /\ fills[i].conv = focus
    \/ fills[i].phase = "answered" /\ fills[i].render[x] = Current(x)

\* When no event is awaited and no clear has taken its card: the card of x is right or on
\* its way, text of a finished exchange is gone, and no removal will take the card out.
Rendered(x) ==
    /\ cards[x] \in {None, Current(x)}
    /\ failed \/ cards[x] = Current(x) \/ \E i \in Slot : Carries(i, x)
    /\ cards[x] = Current(x) /\ shown[x] = "done" => x \notin live
    /\ removal[x].phase = "ok" => removal[x].replaced

InSync(x) ==
    /\ Told(x)
    /\ FillsAgree(x)
    /\ home[x] = focus /\ ~Awaited(x) /\ x \notin lost => Rendered(x)

\* The exchanges that SettledInSync is about.
Kept(x) == x \in seen /\ shown[x] \in Stored
KeptInSync == \A x \in ExId : Kept(x) => InSync(x)

\* A removal whose card is still in the list names what the card shows.
NamesCard(x) ==
    removal[x] # Idle /\ ~removal[x].replaced =>
        cards[x] # None /\ removal[x].conv = focus /\ removal[x].seq = cards[x].seq
ClickedInList == \A x \in ExId : NamesCard(x)

\* What an answer to a clear took away has no card until it is rendered anew.
LostHasNoCard == \A x \in lost : cards[x] = None

\* What is done does not run.
DoneEnded == \A x \in calling : shown[x] # "done"

\* The inductive invariant: UiInv, and
Sync == KeptInSync /\ ClickedInList /\ LostHasNoCard /\ DoneEnded
-----------------------------------------------------------------------------
(***************************************************************************)
(* Events on their way.                                                    *)
(***************************************************************************)

\* An event that is not waited for, behind those under way.
LEMMA AppendOther ==
    ASSUME NEW s \in Seq(Event), NEW e \in Event, NEW t \in Event, ~Concerns(e, t)
    PROVE  /\ TruthLast(s, t) => TruthLast(Append(s, e), t)
           /\ AwaitedIn(Append(s, e), t) <=> AwaitedIn(s, t)
<1> DEFINE a == Append(s, e)
<1>1. /\ Len(s) \in Nat /\ DOMAIN s = 1 .. Len(s) /\ DOMAIN a = 1 .. Len(s) + 1
      /\ \A i \in DOMAIN s : a[i] = s[i]
      /\ a[Len(s) + 1] = e
  OBVIOUS
<1> HIDE DEF a
<1>2. \A i \in DOMAIN a : Concerns(a[i], t) => i \in DOMAIN s /\ a[i] = s[i]
  BY <1>1
<1>3. \A i \in DOMAIN s : i \in DOMAIN a /\ a[i] = s[i]
  BY <1>1
<1>4. AwaitedIn(a, t) <=> AwaitedIn(s, t)
  BY <1>2, <1>3 DEF AwaitedIn
<1>5. TruthLast(s, t) => TruthLast(a, t)
  BY <1>2, <1>3 DEF TruthLast
<1> QED BY <1>4, <1>5 DEF a

\* The event that tells of an exchange, behind those under way.
LEMMA AppendTelling ==
    ASSUME NEW s \in Seq(Event), NEW t \in Event, t.kind # "delta"
    PROVE  TruthLast(Append(s, t), t) /\ AwaitedIn(Append(s, t), t)
<1> DEFINE a == Append(s, t)
<1>1. Len(s) \in Nat /\ DOMAIN a = 1 .. Len(s) + 1 /\ a[Len(s) + 1] = t
  OBVIOUS
<1> HIDE DEF a
<1>2. Len(s) + 1 \in DOMAIN a /\ \A i \in DOMAIN a : i <= Len(s) + 1
  BY <1>1
<1>3. TruthLast(a, t)
  BY <1>1, <1>2 DEF TruthLast
<1>4. Concerns(t, t)
  BY DEF Concerns
<1> QED BY <1>1, <1>2, <1>3, <1>4 DEF a, AwaitedIn

\* The oldest event arrives.
LEMMA TailTold ==
    ASSUME NEW s \in Seq(Event), s # <<>>, NEW t \in Event, t.kind # "delta", TruthLast(s, t)
    PROVE  /\ TruthLast(Tail(s), t)
           /\ AwaitedIn(Tail(s), t) => AwaitedIn(s, t)
           /\ AwaitedIn(s, t) /\ ~AwaitedIn(Tail(s), t) => Head(s) = t
           /\ Concerns(Head(s), t) => AwaitedIn(s, t)
<1> DEFINE r == Tail(s)
<1>1. /\ Len(s) \in Nat \ {0} /\ DOMAIN s = 1 .. Len(s) /\ DOMAIN r = 1 .. Len(s) - 1
      /\ \A i \in DOMAIN r : r[i] = s[i + 1]
      /\ Head(s) = s[1]
  OBVIOUS
<1> HIDE DEF r
<1>2. \A i \in DOMAIN r : i + 1 \in DOMAIN s /\ r[i] = s[i + 1]
  BY <1>1
<1>3. \A j \in DOMAIN s : j = 1 \/ (j - 1 \in DOMAIN r /\ r[j - 1] = s[j])
  BY <1>1
<1>4. TruthLast(r, t)
  <2> SUFFICES ASSUME NEW i \in DOMAIN r, Concerns(r[i], t)
               PROVE  \E j \in DOMAIN r : i <= j /\ r[j] = t
    BY DEF TruthLast
  <2>1. PICK j \in DOMAIN s : i + 1 <= j /\ s[j] = t
    BY <1>2 DEF TruthLast
  <2>2. j - 1 \in DOMAIN r /\ i <= j - 1 /\ r[j - 1] = t
    BY <2>1, <1>1, <1>3
  <2> QED BY <2>2
<1>5. AwaitedIn(r, t) => AwaitedIn(s, t)
  BY <1>2 DEF AwaitedIn
<1>6. ASSUME AwaitedIn(s, t), ~AwaitedIn(r, t) PROVE Head(s) = t
  <2>1. PICK j \in DOMAIN s : s[j] = t
    BY <1>6 DEF AwaitedIn, TruthLast
  <2>2. Concerns(s[j], t)
    BY <2>1 DEF Concerns
  <2>3. j = 1
    BY <1>3, <1>6, <2>2 DEF AwaitedIn
  <2> QED BY <1>1, <2>1, <2>3
<1>7. Concerns(Head(s), t) => AwaitedIn(s, t)
  BY <1>1 DEF AwaitedIn
<1> QED BY <1>4, <1>5, <1>6, <1>7 DEF r

\* What the invariant says of the next state, of the events on their way then.
LEMMA Primed ==
    ASSUME NEW x \in ExId
    PROVE  /\ Told(x)' <=> TruthLast(events', Telling(x)')
           /\ Awaited(x)' <=> AwaitedIn(events', Telling(x)')
BY DEF Told, Awaited, TruthLast, AwaitedIn, Concerns, Telling

-----------------------------------------------------------------------------
(***************************************************************************)
(* What keeps an exchange in sync.                                         *)
(***************************************************************************)

\* What the invariant says of an exchange depends on these, at the server and on the page.
SameServer(x) == UNCHANGED <<shown[x], seqno[x], home[x]>>
SamePage(x) ==
    /\ UNCHANGED <<cards[x], removal[x], failed, focus>>
    /\ x \in live' => x \in live
    /\ x \in lost => x \in lost'

\* The types the proof needs of an exchange that is kept.
LEMMA KeptTypes ==
    ASSUME UiInv, NEW x \in ExId, Kept(x)
    PROVE  /\ Current(x) \in Card /\ Current(x) # None
           /\ Telling(x) \in Event /\ Telling(x).kind # "delta" /\ Telling(x).id = x
           /\ Telling(x).kind = "completed" <=> shown[x] = "done"
           /\ removal[x] \in Removal
<1>1. shown[x] \in Stored /\ seqno[x] \in Nat \ {0}
  BY DEF UiInv, BegunInv, Begun, Kept, Stored
<1>2. Current(x) \in Card /\ Current(x) # None
  BY <1>1, UiAssumption DEF Current, Card
<1>3. Telling(x) \in Event /\ Telling(x).kind # "delta" /\ Telling(x).id = x
  BY <1>1 DEF Telling, Event
<1>4. Telling(x).kind = "completed" <=> shown[x] = "done"
  BY DEF Telling
<1>5. removal[x] \in Removal
  BY DEF UiInv, RequestTypes
<1> QED BY <1>2, <1>3, <1>4, <1>5

\* Steps that change nothing of this, and send no event that x waits for.
LEMMA FrameInSync ==
    ASSUME UiInv, NEW x \in ExId, Kept(x), InSync(x), SameServer(x), SamePage(x), UNCHANGED fills,
           \/ UNCHANGED events
           \/ \E e \in Event : events' = Append(events, e) /\ ~Concerns(e, Telling(x))
    PROVE  InSync(x)'
<1>1. Telling(x)' = Telling(x) /\ Current(x)' = Current(x)
  BY DEF Telling, Current, SameServer
<1>2. events \in Seq(Event) /\ Telling(x) \in Event
  BY KeptTypes DEF UiInv, SocketTypes
<1>3. Told(x)' /\ (Awaited(x)' <=> Awaited(x))
  <2> DEFINE t == Telling(x)
  <2>1. t' = t /\ TruthLast(events, t)
    BY <1>1 DEF InSync, Told
  <2>2. t \in Event
    BY <1>2
  <2>3. CASE UNCHANGED events
    BY <2>1, <2>3, Primed DEF Told, Awaited
  <2>4. CASE \E e \in Event : events' = Append(events, e) /\ ~Concerns(e, Telling(x))
    <3>1. PICK e \in Event : events' = Append(events, e) /\ ~Concerns(e, t)
      BY <2>4
    <3>2. TruthLast(events', t) /\ (AwaitedIn(events', t) <=> AwaitedIn(events, t))
      <4> HIDE DEF t
      <4> QED BY <1>2, <2>1, <2>2, <3>1, AppendOther
    <3> QED BY <2>1, <3>2, Primed DEF Awaited
  <2> QED BY <2>3, <2>4
<1>4. FillsAgree(x)'
  BY <1>1 DEF InSync, FillsAgree
<1>5. Rendered(x) => Rendered(x)'
  BY <1>1 DEF Rendered, Carries, SameServer, SamePage
<1> QED BY <1>3, <1>4, <1>5 DEF InSync, SameServer, SamePage

\* An exchange whose change is sent to a page that is settled on its conversation.
LEMMA ToldInSync ==
    ASSUME NEW x \in ExId, events \in Seq(Event), Telling(x)' \in Event, Telling(x)'.kind # "delta",
           events' = Append(events, Telling(x)'),
           \A i \in Slot : fills'[i] = Idle
    PROVE  InSync(x)'
<1>1. Told(x)' /\ Awaited(x)'
  BY AppendTelling, Primed
<1>2. FillsAgree(x)'
  BY DEF FillsAgree, Idle
<1> QED BY <1>1, <1>2 DEF InSync

\* A step in which exchanges at most disappear from the store.
LEMMA DropSync ==
    ASSUME UiInv, Sync,
           \A x \in ExId : shown'[x] \in Stored => shown'[x] = shown[x],
           UNCHANGED <<home, seqno, calling, events, fills, cards, removal, failed, focus, live, seen, lost>>
    PROVE  Sync'
<1>1. KeptInSync'
  <2> SUFFICES ASSUME NEW x \in ExId, Kept(x)' PROVE InSync(x)'
    BY DEF KeptInSync
  <2>1. SameServer(x) /\ Kept(x)
    BY DEF SameServer, Kept
  <2>2. SamePage(x) /\ InSync(x)
    BY <2>1 DEF SamePage, Sync, KeptInSync
  <2> QED BY <2>1, <2>2, FrameInSync
<1>2. ClickedInList'
  BY DEF Sync, ClickedInList, NamesCard
<1>3. DoneEnded' /\ LostHasNoCard'
  BY DEF Sync, DoneEnded, LostHasNoCard, Stored, UiInv, ServerTypes
<1> QED BY <1>1, <1>2, <1>3 DEF Sync

\* Rendering exchanges.
LEMMA UpsertOne ==
    ASSUME UiInv, NEW x \in ExId, Kept(x), NEW new \in Cards, Upsert(new)
    PROVE  /\ new[x] = None => /\ cards'[x] = cards[x] /\ removal'[x] = removal[x]
                               /\ x \in live' => x \in live
           /\ new[x] = Current(x) =>
                 /\ cards'[x] = Current(x)
                 /\ shown[x] = "done" => x \notin live'
                 /\ removal'[x].phase = "ok" => removal'[x].replaced
<1>1. new[x] = None => cards'[x] = cards[x] /\ removal'[x] = removal[x] /\ (x \in live' => x \in live)
  BY DEF Upsert
<1>2. ASSUME new[x] = Current(x)
      PROVE  /\ cards'[x] = Current(x)
             /\ shown[x] = "done" => x \notin live'
  BY <1>2, KeptTypes DEF Upsert, Current
<1>3. ASSUME new[x] = Current(x), removal'[x].phase = "ok" PROVE removal'[x].replaced
  <2>1. removal'[x] = IF removal[x] = Idle THEN removal[x] ELSE [removal[x] EXCEPT !.replaced = TRUE]
    BY <1>3, KeptTypes DEF Upsert
  <2> QED BY <1>3, <2>1, KeptTypes DEF Removal, Idle
<1> QED BY <1>1, <1>2, <1>3

\* A card that is clicked and rendered anew is replaced.
LEMMA UpsertNames ==
    ASSUME UiInv, ClickedInList, NEW new \in Cards, Upsert(new), UNCHANGED focus
    PROVE  ClickedInList' /\ (LostHasNoCard => LostHasNoCard')
<1>0. LostHasNoCard => LostHasNoCard'
  BY DEF Upsert, LostHasNoCard, UiInv, ServerTypes
<1> SUFFICES ASSUME NEW x \in ExId PROVE NamesCard(x)'
  BY <1>0 DEF ClickedInList
<1>1. removal[x] \in Removal
  BY DEF UiInv, RequestTypes
<1>2. CASE new[x] = None
  BY <1>2 DEF Upsert, ClickedInList, NamesCard
<1>3. CASE new[x] # None
  BY <1>1, <1>3 DEF Upsert, NamesCard, Removal
<1> QED BY <1>2, <1>3

\* So is one of a list that is emptied.
LEMMA EmptyNames ==
    ASSUME UiInv, EmptyList, lost' \subseteq ExId
    PROVE  /\ ClickedInList' /\ LostHasNoCard'
           /\ \A x \in ExId : cards'[x] = None /\ (removal'[x].phase = "ok" => removal'[x].replaced)
<1>0. LostHasNoCard'
  BY DEF EmptyList, NoCards, LostHasNoCard
<1> SUFFICES ASSUME NEW x \in ExId
             PROVE  NamesCard(x)' /\ cards'[x] = None /\ (removal'[x].phase = "ok" => removal'[x].replaced)
  BY <1>0 DEF ClickedInList
<1>1. removal[x] \in Removal
  BY DEF UiInv, RequestTypes
<1>2. removal'[x] = Idle \/ removal'[x].replaced
  BY <1>1 DEF EmptyList, Removal
<1>3. cards'[x] = None
  BY DEF EmptyList, NoCards
<1> QED BY <1>2, <1>3 DEF NamesCard, Idle
-----------------------------------------------------------------------------
(***************************************************************************)
(* Every step keeps it.                                                    *)
(***************************************************************************)

\* The server changes an exchange and says so.
LEMMA SaidInSync ==
    ASSUME UiInv, Sync, NEW x \in ExId, NEW v, seen' = Seen(x, v), UNCHANGED fills,
           NEW kind \in {"started", "completed"}, NEW n \in Nat \ {0}, events' = Sent(kind, x, v, n),
           Kept(x)' => Telling(x)' = [kind |-> kind, id |-> x, seq |-> n],
           \A y \in ExId : y # x => SameServer(y),
           UNCHANGED <<ws, sub, page, lost>>
    PROVE  KeptInSync'
<1> SUFFICES ASSUME NEW y \in ExId, Kept(y)' PROVE InSync(y)'
  BY DEF KeptInSync
<1>0. events \in Seq(Event)
  BY DEF UiInv, SocketTypes
<1>1. CASE y = x
  <2>1. Settled(v)
    BY <1>1 DEF Kept, Seen
  <2>2. events' = Append(events, Telling(x)') /\ \A i \in Slot : fills'[i] = Idle
    BY <1>1, <2>1 DEF Settled, Sent
  <2>3. PICK t : t = Telling(x)'
    OBVIOUS
  <2>4. t \in Event /\ t.kind # "delta"
    BY <1>1, <2>3 DEF Event
  <2> QED BY <1>0, <1>1, <2>2, <2>3, <2>4, ToldInSync
<1>2. CASE y # x
  <2>1. SameServer(y) /\ Kept(y)
    BY <1>2 DEF SameServer, Kept, Seen
  <2>2. SamePage(y) /\ InSync(y)
    BY <2>1 DEF SamePage, page, Sync, KeptInSync
  <2>3. PICK e : e = [kind |-> kind, id |-> x, seq |-> n]
    OBVIOUS
  <2>4. e \in Event /\ ~Concerns(e, Telling(y))
    BY <1>2, <2>3 DEF Event, Concerns, Telling
  <2>5. UNCHANGED events \/ events' = Append(events, e)
    BY <2>3 DEF Sent
  <2> QED BY <2>1, <2>2, <2>4, <2>5, FrameInSync
<1> QED BY <1>1, <1>2

\* A new exchange.
LEMMA BeginSync ==
    ASSUME UiInv, Sync, NEW x \in ExId, NEW v \in Conv, Begin(x, v)
    PROVE  Sync'
<1>1. nextSeq[v] \in Nat \ {0} /\ shown'[x] = "pending" /\ seqno'[x] = nextSeq[v]
  BY DEF Begin, UiInv, ServerTypes
<1>2. Telling(x)' = [kind |-> "started", id |-> x, seq |-> nextSeq[v]]
  BY <1>1 DEF Telling
<1>3. \A y \in ExId : y # x => SameServer(y)
  BY DEF Begin, SameServer, UiInv, ServerTypes
<1>4. PICK n \in Nat \ {0} : n = nextSeq[v]
  BY <1>1
<1>5. KeptInSync'
  BY <1>2, <1>3, <1>4, SaidInSync DEF Begin, page
<1>6. ClickedInList' /\ LostHasNoCard'
  BY DEF Begin, page, Sync, ClickedInList, NamesCard, LostHasNoCard
<1>7. DoneEnded'
  BY DEF Begin, Sync, DoneEnded, UiInv, ServerTypes
<1> QED BY <1>5, <1>6, <1>7 DEF Sync

\* A call that ends.
LEMMA FinishSync ==
    ASSUME UiInv, Sync, NEW x \in ExId, Finish(x)
    PROVE  Sync'
<1>1. home[x] \in Conv /\ seqno[x] \in Nat \ {0} /\ nextSeq[home[x]] \in Nat \ {0}
  BY DEF Finish, UiInv, ServerTypes, BegunInv
<1>2. \A y \in ExId : y # x => SameServer(y)
  BY DEF Finish, SameServer, UiInv, ServerTypes
<1>3. KeptInSync'
  <2>1. ASSUME NEW n \in Nat \ {0}, seqno'[x] = n, shown'[x] = "done" \/ shown'[x] \notin Stored,
               events' = Sent("completed", x, home[x], n), seen' = Seen(x, home[x])
        PROVE  KeptInSync'
    <3>1. PICK v : v = home[x]
      OBVIOUS
    <3>2. Kept(x)' => Telling(x)' = [kind |-> "completed", id |-> x, seq |-> n]
      BY <2>1 DEF Telling, Kept
    <3> QED BY <1>2, <2>1, <3>1, <3>2, SaidInSync DEF Finish, page
  <2>2. CASE shown[x] = "removed" /\ UNCHANGED <<shown, seqno, nextSeq, events, seen>>
    <3> SUFFICES ASSUME NEW y \in ExId, Kept(y)' PROVE InSync(y)'
      BY DEF KeptInSync
    <3>1. SameServer(y) /\ Kept(y)
      BY <2>2 DEF SameServer, Kept, Finish
    <3>2. SamePage(y) /\ InSync(y)
      BY <3>1 DEF SamePage, Finish, page, Sync, KeptInSync
    <3> QED BY <2>2, <3>1, <3>2, FrameInSync DEF Finish, page
  <2>3. CASE /\ shown[x] \in {"pending", "evicted"}
             /\ shown' = [shown EXCEPT ![x] = IF @ = "pending" THEN "done" ELSE @]
             /\ events' = Sent("completed", x, home[x], seqno[x])
             /\ seen' = Seen(x, home[x])
             /\ UNCHANGED <<seqno, nextSeq>>
    BY <1>1, <2>1, <2>3 DEF UiInv, ServerTypes, Stored
  <2>4. CASE /\ shown[x] = "cleared"
             /\ shown' = [shown EXCEPT ![x] = "done"]
             /\ seqno' = [seqno EXCEPT ![x] = nextSeq[home[x]]]
             /\ nextSeq' = [nextSeq EXCEPT ![home[x]] = @ + 1]
             /\ events' = Sent("completed", x, home[x], nextSeq[home[x]])
             /\ seen' = Seen(x, home[x])
    BY <1>1, <2>1, <2>4 DEF UiInv, ServerTypes
  <2> QED BY <2>2, <2>3, <2>4 DEF Finish
<1>4. ClickedInList' /\ LostHasNoCard'
  BY DEF Finish, page, Sync, ClickedInList, NamesCard, LostHasNoCard
<1>5. DoneEnded'
  BY DEF Finish, Sync, DoneEnded, UiInv, ServerTypes
<1> QED BY <1>3, <1>4, <1>5 DEF Sync

\* Streamed text.
LEMMA SpeakSync ==
    ASSUME UiInv, Sync, NEW x \in ExId, Speak(x)
    PROVE  Sync'
<1>1. KeptInSync'
  <2> SUFFICES ASSUME NEW y \in ExId, Kept(y)' PROVE InSync(y)'
    BY DEF KeptInSync
  <2>1. SameServer(y) /\ SamePage(y) /\ Kept(y)
    BY DEF SameServer, SamePage, Kept, Speak, page
  <2>2. InSync(y)
    BY <2>1 DEF Sync, KeptInSync
  <2>3. PICK e : e = [kind |-> "delta", id |-> x, seq |-> seqno[x]]
    OBVIOUS
  <2>4. e \in Event
    BY <2>3 DEF Event, Speak, UiInv, ServerTypes, BegunInv
  <2>5. ~Concerns(e, Telling(y))
    BY <2>3 DEF Concerns, Telling, Speak, Sync, DoneEnded
  <2>6. UNCHANGED events \/ events' = Append(events, e)
    BY <2>3 DEF Speak, Sent
  <2> QED BY <2>1, <2>2, <2>4, <2>5, <2>6, FrameInSync DEF Speak, page
<1>2. ClickedInList' /\ LostHasNoCard'
  BY DEF Speak, page, Sync, ClickedInList, NamesCard, LostHasNoCard
<1>3. DoneEnded'
  BY DEF Speak, Sync, DoneEnded
<1> QED BY <1>1, <1>2, <1>3 DEF Sync

\* Another UI, or eviction.
LEMMA OthersDropSync ==
    ASSUME UiInv, Sync, OthersDrop
    PROVE  Sync'
<1>1. \A x \in ExId : shown'[x] \in Stored => shown'[x] = shown[x]
  BY DEF OthersDrop, Cleared, Removed, Stored
<1>2. UNCHANGED <<home, seqno, calling>>
  BY DEF OthersDrop, Cleared
<1> QED BY <1>1, <1>2, DropSync DEF OthersDrop, socket, page

\* A clear that is served.
LEMMA ClearServedSync ==
    ASSUME UiInv, Sync, ClearServed
    PROVE  Sync'
<1>1. \A x \in ExId : shown'[x] \in Stored => shown'[x] = shown[x]
  BY DEF ClearServed, Cleared, Removed, Stored
<1> QED BY <1>1, DropSync DEF ClearServed, Cleared, socket

\* Steps that touch nothing of this: a connection opens, a subscription arrives, the clear
\* button is clicked.
LEMMA IdleSync ==
    ASSUME UiInv, Sync, WsOpens \/ SubscribeArrives \/ ClearClicked \/ UNCHANGED uiVars
    PROVE  Sync'
<1>1. UNCHANGED <<shown, home, seqno, calling, events, fills, cards, removal, failed, focus, live, seen, lost>>
  BY DEF WsOpens, SubscribeArrives, ClearClicked, uiVars, server, socket, page
<1> QED BY <1>1, DropSync

\* A connection that drops: what was on its way is lost, and with it the exchanges that
\* waited for it.
LEMMA WsDropsSync ==
    ASSUME UiInv, Sync, WsDrops
    PROVE  Sync'
<1>1. KeptInSync'
  <2> SUFFICES ASSUME NEW x \in ExId, Kept(x)' PROVE InSync(x)'
    BY DEF KeptInSync
  <2>1. Kept(x) /\ \A i \in DOMAIN events : events[i].id # x
    BY DEF Kept, WsDrops, server
  <2>2. InSync(x) /\ ~Awaited(x)
    BY <2>1, KeptTypes DEF Sync, KeptInSync, Awaited, AwaitedIn, Concerns
  <2>3. Told(x)'
    BY Primed DEF TruthLast, WsDrops
  <2>4. UNCHANGED <<shown, seqno, home, focus, cards, live, failed, fills, removal, lost>>
    BY DEF WsDrops, server, page
  <2>5. FillsAgree(x)' /\ (Rendered(x) => Rendered(x)')
    BY <2>2, <2>4 DEF InSync, FillsAgree, Rendered, Carries, Current
  <2> QED BY <2>2, <2>3, <2>4, <2>5 DEF InSync
<1>2. ClickedInList' /\ LostHasNoCard'
  BY DEF WsDrops, page, Sync, ClickedInList, NamesCard, LostHasNoCard
<1>3. DoneEnded'
  BY DEF WsDrops, server, Sync, DoneEnded
<1> QED BY <1>1, <1>2, <1>3 DEF Sync

\* The page renders an event of the conversation in focus.
LEMMA EventArrivesSync ==
    ASSUME UiInv, Sync, EventArrives
    PROVE  Sync'
<1> DEFINE e == Head(events)
<1>0. /\ events \in Seq(Event) /\ events # <<>> /\ events' = Tail(events)
      /\ UNCHANGED <<shown, seqno, home, calling, focus, failed, fills, seen>>
      /\ Heard(e)
  BY DEF EventArrives, server, UiInv, SocketTypes
<1>1. e \in Event /\ e.id \in ExId /\ seqno[e.id] \in Nat
  <2>1. e \in Event
    BY <1>0
  <2> QED BY <2>1 DEF Event, UiInv, ServerTypes
<1> HIDE DEF e
<1>2. CardOf(e) \in Cards
  BY <1>1 DEF CardOf, NoCards, Cards, Card, Event, Stored
<1>3. KeptInSync'
  <2> SUFFICES ASSUME NEW x \in ExId, Kept(x)' PROVE InSync(x)'
    BY DEF KeptInSync
  <2>1. Kept(x) /\ InSync(x)
    BY <1>0 DEF Kept, Sync, KeptInSync
  <2>2. Telling(x)' = Telling(x) /\ Current(x)' = Current(x)
    BY <1>0 DEF Telling, Current
  <2>3. Telling(x) \in Event /\ Telling(x).kind # "delta" /\ Telling(x).id = x /\ Current(x) # None
    BY <2>1, KeptTypes
  <2>4. TruthLast(events, Telling(x))
    BY <2>1 DEF InSync, Told
  <2>5. /\ Told(x)'
        /\ Awaited(x) /\ ~Awaited(x)' => e = Telling(x)
        /\ Concerns(e, Telling(x)) => Awaited(x)
    BY <1>0, <2>2, <2>3, <2>4, TailTold, Primed DEF Awaited, e
  <2>6. FillsAgree(x)'
    BY <1>0, <2>1, <2>2 DEF InSync, FillsAgree
  <2>7. ASSUME home[x] = focus, ~Awaited(x)', x \notin lost' PROVE Rendered(x)'
    <3>1. CASE Awaited(x)
      <4>1. e = Telling(x)
        BY <2>5, <2>7, <3>1
      <4>2. Upsert(CardOf(e)) /\ CardOf(e)[x] = Current(x)
        BY <1>0, <2>3, <2>7, <4>1 DEF Heard, CardOf, NoCards, Current, Telling, Kept, Stored
      <4>3. /\ cards'[x] = Current(x)
            /\ shown[x] = "done" => x \notin live'
            /\ removal'[x].phase = "ok" => removal'[x].replaced
        BY <1>2, <2>1, <4>2, UpsertOne
      <4> QED BY <1>0, <2>2, <4>3 DEF Rendered
    <3>2. CASE ~Awaited(x)
      <4>0. ~Concerns(e, Telling(x))
        BY <2>5, <3>2
      <4>00. x \notin lost
        <5>1. CASE Upsert(CardOf(e)) /\ e.kind # "delta"
          <6>1. CardOf(e)[x] = None
            BY <2>3, <4>0, <5>1 DEF Concerns, CardOf, NoCards
          <6> QED BY <2>7, <5>1, <6>1 DEF Upsert
        <5>2. CASE UNCHANGED lost
          BY <2>7, <5>2
        <5> QED BY <1>0, <5>1, <5>2 DEF Heard
      <4>1. Rendered(x) /\ ~Concerns(e, Telling(x))
        BY <2>1, <2>7, <3>2, <4>0, <4>00 DEF InSync
      <4>2. cards'[x] = cards[x] /\ removal'[x] = removal[x]
        <5>1. CASE Upsert(CardOf(e)) /\ e.kind # "delta"
          <6>1. CardOf(e)[x] = None
            BY <2>3, <4>1, <5>1 DEF Concerns, CardOf, NoCards
          <6> QED BY <1>2, <2>1, <5>1, <6>1, UpsertOne
        <5>2. CASE UNCHANGED <<cards, removal>>
          BY <5>2
        <5> QED BY <1>0, <5>1, <5>2 DEF Heard
      <4>3. shown[x] = "done" /\ x \in live' => x \in live
        <5>1. CASE Upsert(CardOf(e))
          BY <5>1 DEF Upsert
        <5>2. CASE live' = live \cup {e.id} /\ e.kind = "delta"
          BY <2>3, <4>1, <5>2, KeptTypes, <2>1 DEF Concerns
        <5>3. CASE UNCHANGED live
          BY <5>3
        <5> QED BY <1>0, <5>1, <5>2, <5>3 DEF Heard
      <4>4. \A i \in Slot : Carries(i, x) => Carries(i, x)'
        BY <1>0, <2>2 DEF Carries
      <4> QED BY <1>0, <2>2, <4>1, <4>2, <4>3, <4>4 DEF Rendered
    <3> QED BY <3>1, <3>2
  <2> QED BY <1>0, <2>5, <2>6, <2>7 DEF InSync
<1>4. ClickedInList' /\ LostHasNoCard'
  <2>1. CASE Upsert(CardOf(e))
    BY <1>0, <1>2, <2>1, UpsertNames DEF Sync
  <2>2. CASE UNCHANGED <<cards, removal, lost>>
    BY <1>0, <2>2 DEF Sync, ClickedInList, NamesCard, LostHasNoCard
  <2> QED BY <1>0, <2>1, <2>2 DEF Heard
<1>5. DoneEnded'
  BY <1>0 DEF Sync, DoneEnded
<1> QED BY <1>3, <1>4, <1>5 DEF Sync

\* Opening a conversation: the snapshot asked for will carry what the events do not.
LEMMA SelectSync ==
    ASSUME UiInv, Sync, NEW v \in Conv, NEW k \in Slot, Select(v, k)
    PROVE  Sync'
<1>0. /\ UNCHANGED <<shown, seqno, home, calling, events, seen>>
      /\ focus' = v /\ live' = {} /\ lost' = {} /\ EmptyList
      /\ fills[k] = Idle /\ fills' = [fills EXCEPT ![k] = [phase |-> "asked", conv |-> v]]
  BY DEF Select, server
<1>1. /\ fills'[k] = [phase |-> "asked", conv |-> v]
      /\ \A i \in Slot : i # k => fills'[i] = fills[i]
  BY <1>0 DEF UiInv, RequestTypes
<1>2. KeptInSync'
  <2> SUFFICES ASSUME NEW x \in ExId, Kept(x)' PROVE InSync(x)'
    BY DEF KeptInSync
  <2>1. Kept(x) /\ InSync(x)
    BY <1>0 DEF Kept, Sync, KeptInSync
  <2>2. Telling(x)' = Telling(x) /\ Current(x)' = Current(x)
    BY <1>0 DEF Telling, Current
  <2>3. Told(x)'
    BY <1>0, <2>1, <2>2, Primed DEF InSync, Told
  <2>4. FillsAgree(x)'
    BY <1>1, <2>1, <2>2 DEF InSync, FillsAgree
  <2>5. Carries(k, x)'
    BY <1>0, <1>1 DEF Carries
  <2>6. Rendered(x)'
    BY <1>0, <2>5, EmptyNames DEF Rendered
  <2> QED BY <2>3, <2>4, <2>6 DEF InSync
<1>3. ClickedInList' /\ LostHasNoCard'
  BY <1>0, EmptyNames
<1>4. DoneEnded'
  BY <1>0 DEF Sync, DoneEnded
<1> QED BY <1>2, <1>3, <1>4 DEF Sync

\* The snapshot is what is stored now.
LEMMA FillAnsweredSync ==
    ASSUME UiInv, Sync, NEW k \in Slot, FillAnswered(k)
    PROVE  Sync'
<1>0. /\ seen' = seen \cup {x \in ExId : Fetched(x, k)}
      /\ UNCHANGED <<shown, seqno, home, calling, events, focus, cards, live, failed, removal, lost>>
  BY DEF FillAnswered, server, socket
<1>1. /\ fills[k].phase = "asked"
      /\ fills'[k].phase = "answered"
      /\ \A x \in ExId : fills'[k].render[x] = IF shown[x] \in Stored /\ home[x] = fills[k].conv
                                               THEN Current(x) ELSE None
      /\ \A i \in Slot : i # k => fills'[i] = fills[i]
  BY DEF FillAnswered, UiInv, RequestTypes, Current
<1>2. KeptInSync'
  <2> SUFFICES ASSUME NEW x \in ExId, Kept(x)' PROVE InSync(x)'
    BY DEF KeptInSync
  <2>0. CASE ~Kept(x)
    <3>1. /\ Fetched(x, k) /\ shown[x] \in Stored /\ home[x] = fills[k].conv /\ cards[x] = None
          /\ \A j \in DOMAIN events : events[j].id # x
          /\ \A j \in Slot \ {k} : fills[j].phase # "answered"
      BY <1>0, <2>0 DEF Kept, Fetched
    <3>2. \A j \in DOMAIN events' : ~Concerns(events'[j], Telling(x)')
      BY <1>0, <3>1 DEF Concerns, Telling
    <3>3. Told(x)'
      BY <3>2, Primed DEF TruthLast
    <3>4. FillsAgree(x)' /\ Carries(k, x)'
      BY <1>0, <1>1, <3>1 DEF FillsAgree, Carries, Current
    <3>5. removal[x].phase = "ok" => removal[x].replaced
      BY <3>1 DEF Sync, ClickedInList, NamesCard, Idle
    <3>6. Current(x)' = Current(x) /\ Current(x) # None
      <4>1. Current(x) \in Card
        BY <3>1 DEF Current, Card, UiInv, BegunInv, Begun, ServerTypes, Stored
      <4> QED BY <1>0, <4>1, UiAssumption DEF Current
    <3>7. Rendered(x)'
      BY <1>0, <3>1, <3>4, <3>5, <3>6 DEF Rendered
    <3> QED BY <3>3, <3>4, <3>7 DEF InSync
  <2> SUFFICES ASSUME Kept(x) PROVE InSync(x)'
    BY <2>0
  <2>1. InSync(x)
    BY DEF Sync, KeptInSync
  <2>2. Telling(x)' = Telling(x) /\ Current(x)' = Current(x)
    BY <1>0 DEF Telling, Current
  <2>3. Told(x)' /\ (Awaited(x)' <=> Awaited(x))
    BY <1>0, <2>1, <2>2, Primed DEF InSync, Told, Awaited
  <2>4. FillsAgree(x)'
    BY <1>1, <2>1, <2>2 DEF InSync, FillsAgree
  <2>5. ASSUME home[x] = focus, NEW i \in Slot, Carries(i, x) PROVE Carries(i, x)'
    BY <1>0, <1>1, <2>1, <2>2, <2>5 DEF Carries, Kept
  <2>6. home[x] = focus /\ Rendered(x) => Rendered(x)'
    BY <1>0, <2>2, <2>5 DEF Rendered
  <2> QED BY <1>0, <2>1, <2>3, <2>4, <2>6 DEF InSync
<1>3. ClickedInList' /\ LostHasNoCard'
  BY <1>0 DEF Sync, ClickedInList, NamesCard, LostHasNoCard
<1>4. DoneEnded'
  BY <1>0 DEF Sync, DoneEnded
<1> QED BY <1>2, <1>3, <1>4 DEF Sync

\* A snapshot renders what agrees with the server, or nothing.
LEMMA FillArrivesSync ==
    ASSUME UiInv, Sync, NEW k \in Slot, FillArrives(k)
    PROVE  Sync'
<1>0. /\ UNCHANGED <<shown, seqno, home, calling, events, seen, focus, failed>>
      /\ fills[k].phase = "answered" /\ Upsert(fills[k].render)
  BY DEF FillArrives, server, socket
<1>1. fills'[k] = Idle /\ \A i \in Slot : i # k => fills'[i] = fills[i]
  BY DEF FillArrives, UiInv, RequestTypes
<1>2. fills[k].render \in Cards
  BY <1>0 DEF UiInv, RequestTypes, Fill, Idle
<1>3. KeptInSync'
  <2> SUFFICES ASSUME NEW x \in ExId, Kept(x)' PROVE InSync(x)'
    BY DEF KeptInSync
  <2>1. Kept(x) /\ InSync(x)
    BY <1>0 DEF Kept, Sync, KeptInSync
  <2>2. Telling(x)' = Telling(x) /\ Current(x)' = Current(x)
    BY <1>0 DEF Telling, Current
  <2>3. Told(x)' /\ (Awaited(x)' <=> Awaited(x))
    BY <1>0, <2>1, <2>2, Primed DEF InSync, Told, Awaited
  <2>4. FillsAgree(x)'
    BY <1>1, <2>1, <2>2 DEF InSync, FillsAgree, Idle
  <2>5. fills[k].render[x] \in {None, Current(x)}
    BY <1>0, <2>1 DEF InSync, FillsAgree
  <2>6. ASSUME Rendered(x) \/ x \in lost, x \notin lost' PROVE Rendered(x)'
    <3>1. CASE fills[k].render[x] = Current(x)
      BY <1>0, <1>2, <2>1, <2>2, <3>1, UpsertOne DEF Rendered
    <3>2. CASE fills[k].render[x] = None
      <4>1. cards'[x] = cards[x] /\ removal'[x] = removal[x] /\ (x \in live' => x \in live)
        BY <1>0, <1>2, <2>1, <3>2, UpsertOne
      <4>0. Rendered(x)
        BY <1>0, <2>6, <3>2 DEF Upsert
      <4>2. \A i \in Slot : Carries(i, x) => Carries(i, x)'
        BY <1>0, <1>1, <2>1, <2>2, <3>2, KeptTypes DEF Carries
      <4> QED BY <1>0, <2>2, <4>0, <4>1, <4>2 DEF Rendered
    <3> QED BY <2>5, <3>1, <3>2
  <2> QED BY <1>0, <2>1, <2>3, <2>4, <2>6 DEF InSync
<1>4. ClickedInList' /\ LostHasNoCard'
  BY <1>0, <1>2, UpsertNames DEF Sync
<1>5. DoneEnded'
  BY <1>0 DEF Sync, DoneEnded
<1> QED BY <1>3, <1>4, <1>5 DEF Sync

\* A snapshot that fails empties the list, and says so.
LEMMA FillFailsSync ==
    ASSUME UiInv, Sync, NEW k \in Slot, FillFails(k)
    PROVE  Sync'
<1>0. /\ UNCHANGED <<shown, seqno, home, calling, events, seen, lost, focus, live>>
      /\ failed' = TRUE /\ EmptyList
  BY DEF FillFails, server, socket
<1>1. fills'[k] = Idle /\ \A i \in Slot : i # k => fills'[i] = fills[i]
  BY DEF FillFails, UiInv, RequestTypes
<1>2. KeptInSync'
  <2> SUFFICES ASSUME NEW x \in ExId, Kept(x)' PROVE InSync(x)'
    BY DEF KeptInSync
  <2>1. Kept(x) /\ InSync(x)
    BY <1>0 DEF Kept, Sync, KeptInSync
  <2>2. Telling(x)' = Telling(x) /\ Current(x)' = Current(x) /\ Current(x) # None
    BY <1>0, <2>1, KeptTypes DEF Telling, Current
  <2>3. Told(x)'
    BY <1>0, <2>1, <2>2, Primed DEF InSync, Told
  <2>4. FillsAgree(x)'
    BY <1>1, <2>1, <2>2 DEF InSync, FillsAgree, Idle
  <2>5. Rendered(x)'
    BY <1>0, <2>2, EmptyNames DEF Rendered, UiInv, ServerTypes
  <2> QED BY <2>3, <2>4, <2>5 DEF InSync
<1>3. ClickedInList' /\ LostHasNoCard'
  BY <1>0, EmptyNames DEF UiInv, ServerTypes
<1>4. DoneEnded'
  BY <1>0 DEF Sync, DoneEnded
<1> QED BY <1>2, <1>3, <1>4 DEF Sync

\* A click names what the card shows.
LEMMA RemoveClickedSync ==
    ASSUME UiInv, Sync, NEW k \in ExId, RemoveClicked(k)
    PROVE  Sync'
<1>0. /\ UNCHANGED <<shown, seqno, home, calling, events, seen, lost, focus, cards, live, failed, fills>>
      /\ cards[k] # None
      /\ removal'[k] = [phase |-> "asked", conv |-> focus, seq |-> cards[k].seq, replaced |-> FALSE]
      /\ \A x \in ExId : x # k => removal'[x] = removal[x]
  BY DEF RemoveClicked, server, socket, UiInv, RequestTypes
<1>1. KeptInSync'
  <2> SUFFICES ASSUME NEW x \in ExId, Kept(x)' PROVE InSync(x)'
    BY DEF KeptInSync
  <2>1. Kept(x) /\ InSync(x)
    BY <1>0 DEF Kept, Sync, KeptInSync
  <2>2. Telling(x)' = Telling(x) /\ Current(x)' = Current(x)
    BY <1>0 DEF Telling, Current
  <2>3. Told(x)' /\ (Awaited(x)' <=> Awaited(x))
    BY <1>0, <2>1, <2>2, Primed DEF InSync, Told, Awaited
  <2>4. FillsAgree(x)'
    BY <1>0, <2>1, <2>2 DEF InSync, FillsAgree
  <2>5. removal'[x] = removal[x] \/ removal'[x].phase = "asked"
    BY <1>0
  <2>6. Rendered(x) => Rendered(x)'
    BY <1>0, <2>2, <2>5 DEF Rendered, Carries
  <2> QED BY <1>0, <2>1, <2>3, <2>4, <2>6 DEF InSync
<1>2. ClickedInList' /\ LostHasNoCard'
  BY <1>0 DEF Sync, ClickedInList, NamesCard, LostHasNoCard
<1>3. DoneEnded'
  BY <1>0 DEF Sync, DoneEnded
<1> QED BY <1>1, <1>2, <1>3 DEF Sync

\* A removal that is served takes the exchange with the card's number: the one that the
\* card shows, if the card is right.
LEMMA RemoveServedSync ==
    ASSUME UiInv, Sync, NEW k \in ExId, RemoveServed(k)
    PROVE  Sync'
<1> DEFINE hit == Hit(removal[k].conv, removal[k].seq)
<1>0. /\ UNCHANGED <<seqno, home, calling, events, seen, lost, focus, cards, live, failed, fills>>
      /\ removal[k].phase = "asked"
      /\ Removed(hit, "removed")
      /\ removal' = [removal EXCEPT ![k].phase = IF hit = {} THEN "refused" ELSE "ok"]
  BY DEF RemoveServed, socket
<1>1. removal[k] \in [phase : {"asked", "ok", "refused"}, conv : Conv, seq : Nat, replaced : BOOLEAN]
  BY <1>0 DEF UiInv, RequestTypes, Removal, Idle
<1>2. /\ \A x \in ExId : x # k => removal'[x] = removal[x]
      /\ removal[k] # Idle
      /\ removal'[k].conv = removal[k].conv /\ removal'[k].seq = removal[k].seq
      /\ removal'[k].replaced = removal[k].replaced
  BY <1>0, <1>1 DEF UiInv, RequestTypes, Idle
<1>3. \A x \in ExId : shown'[x] \in Stored => shown'[x] = shown[x] /\ x \notin hit
  BY <1>0 DEF Removed, Stored
<1>4. KeptInSync'
  <2> SUFFICES ASSUME NEW x \in ExId, Kept(x)' PROVE InSync(x)'
    BY DEF KeptInSync
  <2>1. Kept(x) /\ InSync(x) /\ shown'[x] = shown[x] /\ x \notin hit
    BY <1>0, <1>3 DEF Kept, Sync, KeptInSync
  <2>2. Telling(x)' = Telling(x) /\ Current(x)' = Current(x)
    BY <1>0, <2>1 DEF Telling, Current
  <2>3. Told(x)' /\ (Awaited(x)' <=> Awaited(x))
    BY <1>0, <2>1, <2>2, Primed DEF InSync, Told, Awaited
  <2>4. FillsAgree(x)'
    BY <1>0, <2>1, <2>2 DEF InSync, FillsAgree
  <2>5. ASSUME home[x] = focus, Rendered(x) PROVE Rendered(x)'
    <3>1. ASSUME removal'[x].phase = "ok" PROVE removal'[x].replaced
      <4>1. CASE x # k
        BY <1>2, <2>5, <3>1, <4>1 DEF Rendered
      <4>2. CASE x = k
        <5> SUFFICES ASSUME ~removal[k].replaced PROVE FALSE
          BY <1>2, <4>2
        <5>1. cards[k] # None /\ removal[k].conv = focus /\ removal[k].seq = cards[k].seq
          BY <1>2 DEF Sync, ClickedInList, NamesCard
        <5>2. removal[k].seq = seqno[k]
          BY <2>5, <4>2, <5>1 DEF Rendered, Current
        <5>3. k \in hit
          BY <2>1, <2>5, <4>2, <5>1, <5>2 DEF Hit, Kept
        <5> QED BY <2>1, <4>2, <5>3
      <4> QED BY <4>1, <4>2
    <3> QED BY <1>0, <2>1, <2>2, <2>5, <3>1 DEF Rendered, Carries
  <2> QED BY <1>0, <2>1, <2>3, <2>4, <2>5 DEF InSync
<1>5. ClickedInList'
  <2> SUFFICES ASSUME NEW x \in ExId PROVE NamesCard(x)'
    BY DEF ClickedInList
  <2> QED BY <1>0, <1>2 DEF Sync, ClickedInList, NamesCard
<1>6. DoneEnded' /\ LostHasNoCard'
  BY <1>0, <1>3 DEF Sync, DoneEnded, LostHasNoCard, Stored, UiInv, ServerTypes
<1> QED BY <1>4, <1>5, <1>6 DEF Sync

\* The answer takes no card out that is right.
LEMMA RemoveArrivesSync ==
    ASSUME UiInv, Sync, NEW k \in ExId, RemoveArrives(k)
    PROVE  Sync'
<1>0. /\ UNCHANGED <<shown, seqno, home, calling, events, seen, lost, focus, failed, fills>>
      /\ live' \subseteq live
      /\ removal'[k] = Idle
      /\ \A x \in ExId : x # k => removal'[x] = removal[x] /\ cards'[x] = cards[x]
      /\ (removal[k].phase = "ok" /\ ~removal[k].replaced) \/ cards' = cards
      /\ cards'[k] \in {None, cards[k]}
  BY DEF RemoveArrives, server, socket, UiInv, RequestTypes, CardTypes, Cards
<1>1. KeptInSync'
  <2> SUFFICES ASSUME NEW x \in ExId, Kept(x)' PROVE InSync(x)'
    BY DEF KeptInSync
  <2>1. Kept(x) /\ InSync(x)
    BY <1>0 DEF Kept, Sync, KeptInSync
  <2>2. Telling(x)' = Telling(x) /\ Current(x)' = Current(x)
    BY <1>0 DEF Telling, Current
  <2>3. Told(x)' /\ (Awaited(x)' <=> Awaited(x))
    BY <1>0, <2>1, <2>2, Primed DEF InSync, Told, Awaited
  <2>4. FillsAgree(x)'
    BY <1>0, <2>1, <2>2 DEF InSync, FillsAgree
  <2>5. ASSUME Rendered(x) PROVE Rendered(x)'
    <3>1. cards'[x] = cards[x]
      BY <1>0, <2>5 DEF Rendered
    <3>2. removal'[x] = Idle \/ removal'[x] = removal[x]
      BY <1>0
    <3> QED BY <1>0, <2>2, <2>5, <3>1, <3>2 DEF Rendered, Carries, Idle
  <2> QED BY <1>0, <2>1, <2>3, <2>4, <2>5 DEF InSync
<1>2. ClickedInList' /\ LostHasNoCard'
  BY <1>0 DEF Sync, ClickedInList, NamesCard, LostHasNoCard, UiInv, ServerTypes
<1>3. DoneEnded'
  BY <1>0 DEF Sync, DoneEnded
<1> QED BY <1>1, <1>2, <1>3 DEF Sync

\* The answer to a clear empties the list: what is stored of the conversation in focus is
\* lost until it is rendered anew.
LEMMA ClearArrivesSync ==
    ASSUME UiInv, Sync, ClearArrives
    PROVE  Sync'
<1>0. /\ UNCHANGED <<shown, seqno, home, calling, events, seen, focus, fills>>
      /\ EmptyList /\ lost' = {x \in ExId : shown[x] \in Stored /\ home[x] = focus}
  BY DEF ClearArrives, server, socket
<1>1. KeptInSync'
  <2> SUFFICES ASSUME NEW x \in ExId, Kept(x)' PROVE InSync(x)'
    BY DEF KeptInSync
  <2>1. Kept(x) /\ InSync(x) /\ (home[x] = focus => x \in lost')
    BY <1>0 DEF Kept, Sync, KeptInSync
  <2>2. Telling(x)' = Telling(x) /\ Current(x)' = Current(x)
    BY <1>0 DEF Telling, Current
  <2>3. Told(x)' /\ FillsAgree(x)'
    BY <1>0, <2>1, <2>2, Primed DEF InSync, Told, FillsAgree
  <2> QED BY <1>0, <2>1, <2>3 DEF InSync
<1>2. ClickedInList' /\ LostHasNoCard'
  BY <1>0, EmptyNames
<1>3. DoneEnded'
  BY <1>0 DEF Sync, DoneEnded
<1> QED BY <1>1, <1>2, <1>3 DEF Sync
-----------------------------------------------------------------------------
\* Nothing is seen, clicked or done before the start.
LEMMA InitSync == UiInit => Sync
<1> SUFFICES ASSUME UiInit PROVE Sync
  OBVIOUS
<1> QED BY DEF UiInit, Sync, KeptInSync, Kept, ClickedInList, NamesCard, LostHasNoCard, DoneEnded

\* Every step keeps the exchanges in sync.
LEMMA StepSync == ASSUME UiInv, Sync, [UiNext]_uiVars PROVE Sync'
<1>1. CASE \E x \in ExId, v \in Conv : Begin(x, v)
  BY <1>1, BeginSync
<1>2. CASE \E x \in ExId : Speak(x) \/ Finish(x)
  BY <1>2, SpeakSync, FinishSync
<1>3. CASE \E x \in ExId : RemoveClicked(x) \/ RemoveServed(x) \/ RemoveArrives(x)
  BY <1>3, RemoveClickedSync, RemoveServedSync, RemoveArrivesSync
<1>4. CASE OthersDrop \/ ClearServed \/ ClearArrives
  BY <1>4, OthersDropSync, ClearServedSync, ClearArrivesSync
<1>5. CASE WsOpens \/ SubscribeArrives \/ ClearClicked \/ UNCHANGED uiVars
  BY <1>5, IdleSync
<1>6. CASE WsDrops \/ EventArrives
  BY <1>6, WsDropsSync, EventArrivesSync
<1>7. CASE \E i \in Slot : \E v \in Conv : Select(v, i)
  BY <1>7, SelectSync
<1>8. CASE \E i \in Slot : FillAnswered(i) \/ FillArrives(i) \/ FillFails(i)
  BY <1>8, FillAnsweredSync, FillArrivesSync, FillFailsSync
<1> QED BY <1>1, <1>2, <1>3, <1>4, <1>5, <1>6, <1>7, <1>8 DEF UiNext

\* What is in sync, and waits for nothing, is shown as the store has it.
LEMMA SyncSettles == UiInv /\ Sync => SettledInSync
<1> SUFFICES ASSUME UiInv, Sync, Quiet, NEW x \in seen \ lost, home[x] = focus, shown[x] \in Stored
             PROVE  /\ cards[x] = Current(x)
                    /\ shown[x] = "done" => x \notin live
  BY DEF SettledInSync, Current
<1>1. x \in ExId /\ InSync(x)
  BY DEF UiInv, ServerTypes, Sync, KeptInSync, Kept
<1>2. ~Awaited(x)
  BY DEF Quiet, Awaited, AwaitedIn
<1>3. ~\E i \in Slot : Carries(i, x)
  BY DEF Quiet, Carries, Idle
<1> QED BY <1>1, <1>2, <1>3 DEF InSync, Rendered, Quiet

\* The page shows the stored exchanges of the conversation in focus as the store has them,
\* once nothing is on its way, except for those whose last change it neither was told of
\* nor has fetched and those that an answer to a clear has taken from the list since
\* (app.js:165-195, 686-699, 798-838, 941-951): SettledInSync, for any number of
\* exchanges, conversations, openings and events under way.
THEOREM UiSettledInSync == UiSpec => []SettledInSync
<1>1. UiInit => Sync
  BY InitSync
<1>2. UiInv /\ Sync /\ [UiNext]_uiVars => Sync'
  BY StepSync
<1>3. UiInv /\ Sync => SettledInSync
  BY SyncSettles
<1>4. UiSpec => []UiInv
  BY UiInvariant
<1> QED BY <1>1, <1>2, <1>3, <1>4, PTL DEF UiSpec
-----------------------------------------------------------------------------
(***************************************************************************)
(* What the remove button does.                                            *)
(***************************************************************************)

\* Of what is stored, no two exchanges of a conversation have one number, and the next
\* number is beyond them.
Numbered ==
    \A x \in ExId : shown[x] \in Stored =>
        /\ home[x] \in Conv /\ seqno[x] < nextSeq[home[x]]
        /\ \A y \in ExId : shown[y] \in Stored /\ home[y] = home[x] /\ seqno[y] = seqno[x] => y = x

\* Exchanges that at most disappear from the store stay numbered.
LEMMA DropNumbered ==
    ASSUME Numbered, \A x \in ExId : shown'[x] \in Stored => shown'[x] = shown[x],
           UNCHANGED <<home, seqno, nextSeq>>
    PROVE  Numbered'
BY DEF Numbered, Stored

\* A conversation that is cleared is numbered anew, with nothing stored.
LEMMA ClearedNumbered ==
    ASSUME UiInv, Numbered, NEW v \in Conv, Cleared(v) PROVE Numbered'
<1>1. \A x \in ExId : shown'[x] \in Stored => shown'[x] = shown[x] /\ home[x] # v
  BY DEF Cleared, Removed, Stored
<1>2. UNCHANGED <<home, seqno>> /\ \A u \in Conv : u # v => nextSeq'[u] = nextSeq[u]
  BY DEF Cleared, UiInv, ServerTypes
<1> QED BY <1>1, <1>2 DEF Numbered

\* An exchange that is stored with the next number.
LEMMA NextNumbered ==
    ASSUME UiInv, Numbered, NEW x \in ExId, NEW v \in Conv, shown[x] \notin Stored,
           home'[x] = v, seqno'[x] = nextSeq[v], nextSeq' = [nextSeq EXCEPT ![v] = @ + 1],
           \A y \in ExId : y # x => SameServer(y)
    PROVE  Numbered'
<1>1. /\ \A u \in Conv : nextSeq[u] \in Nat \ {0}
      /\ nextSeq'[v] = nextSeq[v] + 1
      /\ \A u \in Conv : u # v => nextSeq'[u] = nextSeq[u]
      /\ \A y \in ExId : seqno[y] \in Nat
  BY DEF UiInv, ServerTypes
<1>2. ASSUME NEW y \in ExId, y # x, shown'[y] \in Stored
      PROVE  /\ home'[y] = home[y] /\ seqno'[y] = seqno[y] /\ home[y] \in Conv
             /\ seqno[y] < nextSeq[home[y]]
             /\ \A z \in ExId : shown[z] \in Stored /\ home[z] = home[y] /\ seqno[z] = seqno[y] => z = y
  BY <1>2 DEF Numbered, SameServer
<1>3. ASSUME NEW y \in ExId, shown'[y] \in Stored
      PROVE  /\ home'[y] \in Conv /\ seqno'[y] < nextSeq'[home'[y]]
             /\ y # x /\ home'[y] = v => seqno'[y] < nextSeq[v]
  BY <1>1, <1>2, <1>3
<1>4. ASSUME NEW y \in ExId, NEW z \in ExId, shown'[y] \in Stored, shown'[z] \in Stored,
             home'[z] = home'[y], seqno'[z] = seqno'[y]
      PROVE  z = y
  <2>1. CASE y = x /\ z # x
    BY <1>1, <1>3, <1>4, <2>1
  <2>2. CASE z = x /\ y # x
    BY <1>1, <1>3, <1>4, <2>2
  <2>3. CASE y # x /\ z # x
    BY <1>2, <1>4, <2>3 DEF SameServer
  <2> QED BY <2>1, <2>2, <2>3
<1> QED BY <1>3, <1>4 DEF Numbered

\* Every step keeps the numbers apart.
LEMMA StepNumbered == ASSUME UiInv, Numbered, [UiNext]_uiVars PROVE Numbered'
<1>1. CASE \E x \in ExId, v \in Conv : Begin(x, v)
  <2>1. PICK x \in ExId, v \in Conv : Begin(x, v)
    BY <1>1
  <2>2. /\ shown[x] \notin Stored /\ home'[x] = v /\ seqno'[x] = nextSeq[v]
        /\ nextSeq' = [nextSeq EXCEPT ![v] = @ + 1]
        /\ \A y \in ExId : y # x => SameServer(y)
    BY <2>1 DEF Begin, Stored, SameServer, UiInv, ServerTypes
  <2> QED BY <2>2, NextNumbered
<1>2. CASE \E x \in ExId : Finish(x)
  <2>1. PICK x \in ExId : Finish(x)
    BY <1>2
  <2>2. CASE shown[x] = "cleared" /\ seqno'[x] = nextSeq[home[x]]
             /\ nextSeq' = [nextSeq EXCEPT ![home[x]] = @ + 1]
    <3>1. home[x] \in Conv /\ home'[x] = home[x] /\ shown[x] \notin Stored
      BY <2>1, <2>2 DEF Finish, UiInv, BegunInv, ServerTypes, Stored
    <3>2. \A y \in ExId : y # x => SameServer(y)
      BY <2>1 DEF Finish, SameServer, UiInv, ServerTypes
    <3>3. PICK v \in Conv : v = home[x]
      BY <3>1
    <3> QED BY <2>2, <3>1, <3>2, <3>3, NextNumbered
  <2>3. CASE UNCHANGED <<seqno, nextSeq>>
             /\ \A y \in ExId : shown'[y] \in Stored => shown[y] \in Stored
    BY <2>1, <2>3 DEF Finish, Numbered
  <2>4. CASE shown[x] = "removed" /\ UNCHANGED <<shown, seqno, nextSeq>>
    BY <2>3, <2>4
  <2>5. CASE /\ shown[x] \in {"pending", "evicted"}
             /\ shown' = [shown EXCEPT ![x] = IF @ = "pending" THEN "done" ELSE @]
             /\ UNCHANGED <<seqno, nextSeq>>
    <3>1. shown'[x] \in Stored => shown[x] \in Stored
      BY <2>5 DEF Stored, UiInv, ServerTypes
    <3>2. \A y \in ExId : y # x => shown'[y] = shown[y]
      BY <2>5 DEF UiInv, ServerTypes
    <3>3. \A y \in ExId : shown'[y] \in Stored => shown[y] \in Stored
      BY <3>1, <3>2
    <3> QED BY <2>3, <2>5, <3>3
  <2>6. CASE /\ shown[x] = "cleared"
             /\ seqno' = [seqno EXCEPT ![x] = nextSeq[home[x]]]
             /\ nextSeq' = [nextSeq EXCEPT ![home[x]] = @ + 1]
    <3>1. seqno'[x] = nextSeq[home[x]]
      BY <2>6 DEF UiInv, ServerTypes
    <3> QED BY <2>2, <2>6, <3>1
  <2> QED BY <2>1, <2>4, <2>5, <2>6 DEF Finish
<1>3. CASE OthersDrop
  <2>1. CASE \E v \in Conv : Cleared(v)
    BY <2>1, ClearedNumbered
  <2>2. CASE \E x \in ExId, how \in {"removed", "evicted"} :
               /\ Removed({x}, how)
               /\ UNCHANGED <<calling, home, seqno, nextSeq, spoke>>
    <3>1. \A x \in ExId : shown'[x] \in Stored => shown'[x] = shown[x]
      BY <2>2 DEF Removed, Stored
    <3> QED BY <2>2, <3>1, DropNumbered
  <2> QED BY <1>3, <2>1, <2>2 DEF OthersDrop
<1>4. CASE \E x \in ExId : RemoveServed(x)
  <2>1. \A x \in ExId : shown'[x] \in Stored => shown'[x] = shown[x]
    BY <1>4 DEF RemoveServed, Removed, Stored
  <2> QED BY <1>4, <2>1, DropNumbered DEF RemoveServed
<1>5. CASE ClearServed
  <2>1. clearing.conv \in Conv
    BY <1>5 DEF ClearServed, UiInv, RequestTypes, Idle
  <2>2. PICK v \in Conv : v = clearing.conv
    BY <2>1
  <2> QED BY <1>5, <2>2, ClearedNumbered DEF ClearServed
<1>6. CASE UNCHANGED <<shown, home, seqno, nextSeq>>
  BY <1>6 DEF Numbered
<1> QED BY <1>1, <1>2, <1>3, <1>4, <1>5, <1>6 DEF UiNext, Speak, RemoveClicked, RemoveArrives,
        WsOpens, WsDrops, SubscribeArrives, EventArrives, Select, FillAnswered, FillArrives,
        FillFails, ClearClicked, ClearArrives, uiVars, server

\* What the remove button of a card removes is the exchange of the card, and that alone,
\* as long as the page is in sync with that exchange and the card is still in the list:
\* the sound half of pipeline.py:299-301 and app.js:686-699, beside RemovesItsOwn.
InSyncRemovesItsOwn ==
    \A x \in ExId :
        /\ RemoveServed(x)
        /\ Kept(x) /\ home[x] = focus /\ ~Awaited(x) /\ ~removal[x].replaced
        => \A y \in ExId : shown'[y] # shown[y] <=> y = x

\* The removal carries the focus and the number on the card, both of which are right; of
\* what is stored, no other exchange has them.
LEMMA ServedRemovesItsOwn == ASSUME UiInv, Sync, Numbered PROVE InSyncRemovesItsOwn
<1> SUFFICES ASSUME NEW x \in ExId, RemoveServed(x), Kept(x), home[x] = focus, ~Awaited(x),
                    ~removal[x].replaced, NEW y \in ExId
             PROVE  shown'[y] # shown[y] <=> y = x
  BY DEF InSyncRemovesItsOwn
<1> DEFINE hit == Hit(removal[x].conv, removal[x].seq)
<1>1. removal[x] # Idle /\ Removed(hit, "removed")
  BY DEF RemoveServed, Idle
<1>2. cards[x] # None /\ removal[x].conv = focus /\ removal[x].seq = cards[x].seq
  BY <1>1 DEF Sync, ClickedInList, NamesCard
<1>3. cards[x] = Current(x)
  BY <1>2 DEF Sync, KeptInSync, LostHasNoCard, InSync, Rendered
<1>4. removal[x].conv = home[x] /\ removal[x].seq = seqno[x]
  BY <1>2, <1>3 DEF Current
<1>5. y \in hit <=> y = x
  BY <1>4 DEF Hit, Numbered, Kept
<1> HIDE DEF hit
<1> QED BY <1>1, <1>5 DEF Removed, Kept, Stored

\* A card in sync removes its own exchange.
THEOREM UiRemovesItsOwn == UiSpec => [][InSyncRemovesItsOwn]_uiVars
<1>1. UiInit => Sync /\ Numbered
  BY InitSync DEF UiInit, Numbered, Stored
<1>2. UiInv /\ Sync /\ Numbered /\ [UiNext]_uiVars => Sync' /\ Numbered'
  BY StepSync, StepNumbered
<1>3. UiInv /\ Sync /\ Numbered => InSyncRemovesItsOwn
  BY ServedRemovesItsOwn
<1>4. UiSpec => []UiInv
  BY UiInvariant
<1> QED BY <1>1, <1>2, <1>3, <1>4, PTL DEF UiSpec
=============================================================================
