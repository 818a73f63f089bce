----------------------------- MODULE HubProofs -----------------------------
(***************************************************************************)
(* Proofs about the hub, for any number of connections, conversations and  *)
(* events and any size of the queues.                                      *)
(***************************************************************************)
EXTENDS Hub, SequenceTheorems, TLAPS

\* q holds the last Len(q) items of a.
Suffix(q, a) ==
    /\ Len(q) <= Len(a)
    /\ \A i \in 1 .. Len(q) : q[i] = a[Len(a) - Len(q) + i]

\* Without its oldest item, a queue still holds the last ones.
LEMMA TailSuffix ==
    ASSUME NEW q \in Seq(Message), NEW a \in Seq(Message), q # <<>>, Suffix(q, a)
    PROVE  Suffix(Tail(q), a)
<1> DEFINE r == Tail(q)
<1>1. /\ Len(r) = Len(q) - 1
      /\ \A i \in 1 .. Len(r) : r[i] = q[i + 1]
  OBVIOUS
<1> HIDE DEF r
<1>2. /\ Len(q) \in Nat /\ Len(a) \in Nat /\ Len(q) <= Len(a)
      /\ \A i \in 1 .. Len(q) : q[i] = a[Len(a) - Len(q) + i]
  BY DEF Suffix
<1>3. ASSUME NEW i \in 1 .. Len(r)
      PROVE  r[i] = a[Len(a) - Len(r) + i]
  <2>1. i + 1 \in 1 .. Len(q) /\ r[i] = q[i + 1]
    BY <1>1, <1>2
  <2>2. Len(a) - Len(q) + (i + 1) = Len(a) - Len(r) + i
    BY <1>1, <1>2
  <2> QED BY <2>1, <2>2, <1>2
<1>4. Suffix(r, a)
  BY <1>1, <1>2, <1>3 DEF Suffix
<1> QED BY <1>4 DEF r

\* Dropping the oldest on overflow keeps a queue within its size, and what is left
\* of it the last of what was addressed.
LEMMA EnqueuedFreshest ==
    ASSUME NEW q \in Seq(Message), NEW a \in Seq(Message), NEW m \in Message,
           Len(q) <= QueueSize, Suffix(q, a)
    PROVE  /\ Enqueued(q, m) \in Seq(Message)
           /\ Len(Enqueued(q, m)) <= QueueSize
           /\ a \o <<m>> \in Seq(Message)
           /\ Suffix(Enqueued(q, m), a \o <<m>>)
<1> DEFINE r == IF Len(q) = QueueSize THEN Tail(q) ELSE q
<1>1. QueueSize \in Nat /\ QueueSize # 0
  BY HubAssumption
<1>2. Len(q) = QueueSize => q # <<>>
  BY <1>1
<1>3. r \in Seq(Message) /\ Len(r) < QueueSize
  <2>1. CASE Len(q) = QueueSize
    BY <2>1, <1>1, <1>2
  <2>2. CASE Len(q) # QueueSize
    BY <2>2, <1>1
  <2> QED BY <2>1, <2>2
<1>4. Suffix(r, a)
  <2>1. CASE Len(q) = QueueSize
    <3>1. Suffix(Tail(q), a)
      BY <2>1, <1>2, TailSuffix
    <3> QED BY <3>1, <2>1
  <2>2. CASE Len(q) # QueueSize
    BY <2>2
  <2> QED BY <2>1, <2>2
<1>5. Enqueued(q, m) = Append(r, m)
  BY DEF Enqueued
<1> HIDE DEF r
<1>6. /\ Append(r, m) \in Seq(Message)
      /\ Len(Append(r, m)) = Len(r) + 1
      /\ \A i \in 1 .. Len(r) : Append(r, m)[i] = r[i]
      /\ Append(r, m)[Len(r) + 1] = m
  BY <1>3
<1>7. /\ a \o <<m>> \in Seq(Message)
      /\ Len(a \o <<m>>) = Len(a) + 1
      /\ \A i \in 1 .. Len(a) : (a \o <<m>>)[i] = a[i]
      /\ (a \o <<m>>)[Len(a) + 1] = m
  OBVIOUS
<1>8. Suffix(Append(r, m), a \o <<m>>)
  BY <1>3, <1>4, <1>6, <1>7 DEF Suffix
<1> QED BY <1>1, <1>3, <1>5, <1>6, <1>7, <1>8
-----------------------------------------------------------------------------
\* The inductive invariant.
HubInv ==
    /\ HubTypeOK
    /\ FreshestWins
    /\ TasksMatchRegistry

\* FreshestWins in terms of Suffix.
LEMMA FreshestIsSuffix ==
    FreshestWins <=> \A c \in Conn : Suffix(queue[c], addressed[c])
BY DEF FreshestWins, Suffix

\* The invariant holds when the hub is created.
LEMMA InitHubInv == HubInit => HubInv
<1> SUFFICES ASSUME HubInit PROVE HubInv
  OBVIOUS
<1> USE HubAssumption DEF HubInit
<1>1. HubTypeOK
  <2>1. <<>> \in Seq(Message) /\ Len(<<>>) = 0 /\ 0 <= QueueSize
    OBVIOUS
  <2>2. /\ queue \in [Conn -> Seq(Message)] /\ \A c \in Conn : Len(queue[c]) <= QueueSize
        /\ hand \in [Conn -> Seq(Message)]
        /\ addressed \in [Conn -> Seq(Message)] /\ received \in [Conn -> Seq(Message)]
    BY <2>1
  <2> QED BY <2>2 DEF HubTypeOK
<1>2. FreshestWins
  <2>1. Suffix(<<>>, <<>>)
    BY DEF Suffix
  <2>2. \A c \in Conn : Suffix(queue[c], addressed[c])
    BY <2>1
  <2> QED BY <2>2, FreshestIsSuffix
<1>3. TasksMatchRegistry
  BY DEF TasksMatchRegistry
<1> QED BY <1>1, <1>2, <1>3 DEF HubInv

\* emit() keeps it: the only step that puts messages into queues.
LEMMA EmitStep ==
    ASSUME HubInv, NEW kind \in Kind, NEW v \in Conv, Emit(kind, v)
    PROVE  HubInv'
<1> USE DEF HubInv
<1>1. \A c \in Conn : \/ Told(c, kind, v) = <<>>
                      \/ \E m \in Message : Told(c, kind, v) = <<m>>
  <2> SUFFICES ASSUME NEW c \in Conn, Told(c, kind, v) # <<>>
               PROVE  \E m \in Message : Told(c, kind, v) = <<m>>
    OBVIOUS
  <2> DEFINE m == [n |-> emitted + 1, full |-> kind = "client_seen" \/ focus[c] = v]
  <2>1. Told(c, kind, v) = <<m>>
    BY DEF Told
  <2>2. m \in Message
    <3>1. emitted + 1 \in Nat
      BY DEF HubTypeOK
    <3>2. (kind = "client_seen" \/ focus[c] = v) \in BOOLEAN
      OBVIOUS
    <3> QED BY <3>1, <3>2 DEF Message
  <2> QED BY <2>1, <2>2
<1>2. \A c \in Conn : Suffix(queue[c], addressed[c])
  BY FreshestIsSuffix
<1>3. ASSUME NEW c \in Conn
      PROVE  /\ queue'[c] \in Seq(Message)
             /\ Len(queue'[c]) <= QueueSize
             /\ addressed'[c] \in Seq(Message)
             /\ Suffix(queue'[c], addressed'[c])
  <2>1. queue'[c] = (IF Told(c, kind, v) = <<>> THEN queue[c]
                     ELSE Enqueued(queue[c], Head(Told(c, kind, v))))
        /\ addressed'[c] = addressed[c] \o Told(c, kind, v)
    BY DEF Emit
  <2>2. /\ queue[c] \in Seq(Message) /\ Len(queue[c]) <= QueueSize
        /\ addressed[c] \in Seq(Message)
    BY DEF HubTypeOK
  <2>3. CASE Told(c, kind, v) = <<>>
    <3>1. queue'[c] = queue[c] /\ addressed'[c] = addressed[c]
      BY <2>1, <2>2, <2>3
    <3> QED BY <3>1, <2>2, <1>2
  <2>4. CASE \E m \in Message : Told(c, kind, v) = <<m>>
    <3>1. PICK m \in Message : Told(c, kind, v) = <<m>>
      BY <2>4
    <3>2. queue'[c] = Enqueued(queue[c], m) /\ addressed'[c] = addressed[c] \o <<m>>
      BY <2>1, <3>1
    <3>3. PICK q \in Seq(Message) : q = queue[c]
      BY <2>2
    <3>4. PICK a \in Seq(Message) : a = addressed[c]
      BY <2>2
    <3>5. Len(q) <= QueueSize /\ Suffix(q, a)
      BY <3>3, <3>4, <2>2, <1>2
    <3>6. /\ Enqueued(q, m) \in Seq(Message)
          /\ Len(Enqueued(q, m)) <= QueueSize
          /\ a \o <<m>> \in Seq(Message)
          /\ Suffix(Enqueued(q, m), a \o <<m>>)
      BY <3>5, EnqueuedFreshest
    <3> QED BY <3>2, <3>3, <3>4, <3>6
  <2> QED BY <2>3, <2>4, <1>1
<1>4. HubTypeOK'
  <2>1. /\ queue' \in [Conn -> Seq(Message)]
        /\ addressed' \in [Conn -> Seq(Message)]
    <3>1. DOMAIN queue' = Conn /\ DOMAIN addressed' = Conn
          /\ queue' = [c \in Conn |-> queue'[c]] /\ addressed' = [c \in Conn |-> addressed'[c]]
      BY DEF Emit
    <3> QED BY <3>1, <1>3
  <2>2. emitted' \in Nat
    BY DEF Emit, HubTypeOK
  <2> QED BY <2>1, <2>2, <1>3 DEF HubTypeOK, Emit, tasks
<1>5. FreshestWins'
  <2>1. \A c \in Conn : Suffix(queue'[c], addressed'[c])
    BY <1>3
  <2> QED BY <2>1 DEF FreshestWins, Suffix
<1>6. TasksMatchRegistry'
  BY DEF TasksMatchRegistry, Emit, tasks
<1> QED BY <1>4, <1>5, <1>6

\* A message the reader takes leaves the freshest behind.
LEMMA ReaderTakesStep ==
    ASSUME HubInv, NEW c \in Conn, ReaderTakes(c)
    PROVE  HubInv'
<1> USE DEF HubInv
<1>1. PICK q \in Seq(Message) : q = queue[c]
  BY DEF HubTypeOK
<1>2. PICK a \in Seq(Message) : a = addressed[c]
  BY DEF HubTypeOK
<1>3. q # <<>> /\ Len(q) <= QueueSize /\ Suffix(q, a)
  BY <1>1, <1>2, FreshestIsSuffix DEF ReaderTakes, HubTypeOK
<1>4. /\ Tail(q) \in Seq(Message) /\ Len(Tail(q)) <= QueueSize
      /\ <<Head(q)>> \in Seq(Message)
  BY <1>3, HubAssumption
<1>5. Suffix(Tail(q), a)
  BY <1>3, TailSuffix
<1>6. /\ queue' = [queue EXCEPT ![c] = Tail(q)]
      /\ hand' = [hand EXCEPT ![c] = <<Head(q)>>]
      /\ reader' = [reader EXCEPT ![c] = "sending"]
      /\ UNCHANGED <<endpoint, link, conns, focus, pinger, emitted, addressed, received>>
  BY <1>1 DEF ReaderTakes
<1>7. HubTypeOK'
  BY <1>4, <1>6 DEF HubTypeOK
<1>8. FreshestWins'
  <2>1. ASSUME NEW x \in Conn
        PROVE  Suffix(queue'[x], addressed'[x])
    <3>1. CASE x = c
      BY <3>1, <1>2, <1>5, <1>6 DEF HubTypeOK
    <3>2. CASE x # c
      <4>1. queue'[x] = queue[x] /\ addressed'[x] = addressed[x]
        BY <3>2, <1>6 DEF HubTypeOK
      <4> QED BY <4>1, FreshestIsSuffix
    <3> QED BY <3>1, <3>2
  <2> QED BY <2>1 DEF FreshestWins, Suffix
<1>9. TasksMatchRegistry'
  BY <1>6 DEF TasksMatchRegistry, HubTypeOK, ReaderTakes
<1> QED BY <1>7, <1>8, <1>9

\* Steps that leave the queues alone keep the freshest.
LEMMA QueuesUnchanged ==
    ASSUME HubInv, UNCHANGED <<queue, addressed>>
    PROVE  FreshestWins'
BY DEF HubInv, FreshestWins

\* The steps that touch no queue keep it.
LEMMA OtherSteps ==
    ASSUME HubInv, NEW c \in Conn,
           \/ Connect(c) \/ EndpointEnds(c) \/ LinkChanges(c)
           \/ \E v \in Conv \cup {None} : SetFocus(c, v)
           \/ ReaderSent(c) \/ ReaderFails(c)
           \/ PingerCloses(c) \/ PingerFails(c)
    PROVE  HubInv'
<1> USE DEF HubInv, tasks, feeds
<1>1. <<>> \in Seq(Message)
  OBVIOUS
<1>2. CASE Connect(c)
  <2>1. HubTypeOK' BY <1>2 DEF Connect, HubTypeOK
  <2>2. TasksMatchRegistry' BY <1>2 DEF Connect, HubTypeOK, TasksMatchRegistry
  <2>3. UNCHANGED <<queue, addressed>> BY <1>2 DEF Connect
  <2> QED BY <2>1, <2>2, <2>3, QueuesUnchanged
<1>3. CASE EndpointEnds(c)
  <2>1. HubTypeOK' BY <1>1, <1>3 DEF EndpointEnds, Disconnect, HubTypeOK
  <2>2. TasksMatchRegistry' BY <1>3 DEF EndpointEnds, Disconnect, HubTypeOK, TasksMatchRegistry
  <2>3. UNCHANGED <<queue, addressed>> BY <1>3 DEF EndpointEnds
  <2> QED BY <2>1, <2>2, <2>3, QueuesUnchanged
<1>4. CASE LinkChanges(c)
  <2>1. HubTypeOK' BY <1>4 DEF LinkChanges, HubTypeOK
  <2>2. TasksMatchRegistry' BY <1>4 DEF LinkChanges, TasksMatchRegistry
  <2>3. UNCHANGED <<queue, addressed>> BY <1>4 DEF LinkChanges
  <2> QED BY <2>1, <2>2, <2>3, QueuesUnchanged
<1>5. CASE \E v \in Conv \cup {None} : SetFocus(c, v)
  <2>1. HubTypeOK' BY <1>5 DEF SetFocus, HubTypeOK
  <2>2. TasksMatchRegistry' BY <1>5 DEF SetFocus, TasksMatchRegistry
  <2>3. UNCHANGED <<queue, addressed>> BY <1>5 DEF SetFocus
  <2> QED BY <2>1, <2>2, <2>3, QueuesUnchanged
<1>6. CASE ReaderSent(c)
  <2>1. HubTypeOK'
    <3>1. /\ received' \in [Conn -> Seq(Message)]
          /\ hand' \in [Conn -> Seq(Message)]
      BY <1>1, <1>6 DEF ReaderSent, HubTypeOK
    <3> QED BY <3>1, <1>6 DEF ReaderSent, HubTypeOK
  <2>2. TasksMatchRegistry' BY <1>6 DEF ReaderSent, HubTypeOK, TasksMatchRegistry
  <2>3. UNCHANGED <<queue, addressed>> BY <1>6 DEF ReaderSent
  <2> QED BY <2>1, <2>2, <2>3, QueuesUnchanged
<1>7. CASE ReaderFails(c)
  <2>1. HubTypeOK'
    <3>1. received[c] \o hand[c] \in Seq(Message)
      BY DEF HubTypeOK
    <3>2. received' \in [Conn -> Seq(Message)]
      BY <1>7, <3>1 DEF ReaderFails, HubTypeOK
    <3>3. hand' \in [Conn -> Seq(Message)]
      BY <1>1, <1>7 DEF ReaderFails, HubTypeOK
    <3>4. /\ reader' = [reader EXCEPT ![c] = "over"] /\ pinger' = [pinger EXCEPT ![c] = "over"]
          /\ conns' = conns \ {c}
          /\ UNCHANGED <<endpoint, link, focus, queue, emitted, addressed>>
      BY <1>7 DEF ReaderFails
    <3> QED BY <3>2, <3>3, <3>4 DEF HubTypeOK
  <2>2. TasksMatchRegistry' BY <1>7 DEF ReaderFails, HubTypeOK, TasksMatchRegistry
  <2>3. UNCHANGED <<queue, addressed>> BY <1>7 DEF ReaderFails
  <2> QED BY <2>1, <2>2, <2>3, QueuesUnchanged
<1>8. CASE PingerCloses(c)
  <2>1. HubTypeOK' BY <1>8 DEF PingerCloses, HubTypeOK
  <2>2. TasksMatchRegistry' BY <1>8 DEF PingerCloses, HubTypeOK, TasksMatchRegistry
  <2>3. UNCHANGED <<queue, addressed>> BY <1>8 DEF PingerCloses
  <2> QED BY <2>1, <2>2, <2>3, QueuesUnchanged
<1>9. CASE PingerFails(c)
  <2>1. HubTypeOK' BY <1>9 DEF PingerFails, HubTypeOK
  <2>2. TasksMatchRegistry' BY <1>9 DEF PingerFails, HubTypeOK, TasksMatchRegistry
  <2>3. UNCHANGED <<queue, addressed>> BY <1>9 DEF PingerFails
  <2> QED BY <2>1, <2>2, <2>3, QueuesUnchanged
<1> QED BY <1>2, <1>3, <1>4, <1>5, <1>6, <1>7, <1>8, <1>9
-----------------------------------------------------------------------------
\* Every step of the hub keeps it.
LEMMA StepHubInv == HubInv /\ [HubNext]_hubVars => HubInv'
<1> SUFFICES ASSUME HubInv, [HubNext]_hubVars PROVE HubInv'
  OBVIOUS
<1>1. CASE UNCHANGED hubVars
  <2>1. HubTypeOK' BY <1>1 DEF HubInv, HubTypeOK, hubVars
  <2>2. TasksMatchRegistry' BY <1>1 DEF HubInv, TasksMatchRegistry, hubVars
  <2>3. UNCHANGED <<queue, addressed>> BY <1>1 DEF hubVars
  <2> QED BY <2>1, <2>2, <2>3, QueuesUnchanged DEF HubInv
<1>2. CASE \E kind \in Kind, v \in Conv : Emit(kind, v)
  BY <1>2, EmitStep
<1>3. CASE \E c \in Conn : ReaderTakes(c)
  BY <1>3, ReaderTakesStep
<1>4. ASSUME NEW c \in Conn,
             \/ Connect(c) \/ EndpointEnds(c) \/ LinkChanges(c)
             \/ \E v \in Conv \cup {None} : SetFocus(c, v)
             \/ ReaderSent(c) \/ ReaderFails(c)
             \/ PingerCloses(c) \/ PingerFails(c)
      PROVE  HubInv'
  BY <1>4, OtherSteps
<1> QED BY <1>1, <1>2, <1>3, <1>4 DEF HubNext

\* The invariant holds in every reachable state of the hub.
THEOREM HubInvariant == HubSpec => []HubInv
BY InitHubInv, StepHubInv, PTL DEF HubSpec

\* Type correctness: every queue stays within queue_size (hub.py:39, 45-52).
THEOREM HubTypes == HubSpec => []HubTypeOK
<1>1. HubInv => HubTypeOK
  BY DEF HubInv
<1> QED BY <1>1, HubInvariant, PTL

\* A slow subscriber loses its oldest messages and no other (hub.py:7-8, 45-52).
THEOREM HubFreshestWins == HubSpec => []FreshestWins
<1>1. HubInv => FreshestWins
  BY DEF HubInv
<1> QED BY <1>1, HubInvariant, PTL

\* The registry agrees with the tasks of the connections (hub.py:63-96, 131-139).
THEOREM HubTasksMatch == HubSpec => []TasksMatchRegistry
<1>1. HubInv => TasksMatchRegistry
  BY DEF HubInv
<1> QED BY <1>1, HubInvariant, PTL

\* What OpenMeansServed becomes with what the code does: a connection is served if and only
\* if its endpoint receives and its reader has not failed (hub.py:76-96, api.py:303-333).
\* Pings, floods of events and changes of focus unregister nobody.
ServedUnlessReaderFailed ==
    \A c \in Conn : c \in conns <=> endpoint[c] = "receiving" /\ reader[c] # "over"

\* The part of it that is not in the invariant: who receives has a reader, and a reader
\* that is not over is one of a registered connection.
Served == \A c \in Conn : endpoint[c] = "receiving" /\ reader[c] # "over" => c \in conns

\* Only a failed reader leaves an open socket that is received from without events.
THEOREM HubServed == HubSpec => []ServedUnlessReaderFailed
<1>1. HubInit => Served
  BY DEF HubInit, Served
<1>2. HubInv /\ Served /\ [HubNext]_hubVars => Served'
  <2> SUFFICES ASSUME HubInv, Served, [HubNext]_hubVars, NEW c \in Conn,
                      endpoint'[c] = "receiving", reader'[c] # "over"
               PROVE  c \in conns'
    BY DEF Served
  <2> USE DEF HubInv, HubTypeOK, Served
  <2>1. ASSUME NEW d \in Conn, Connect(d) PROVE c \in conns'
    BY <2>1 DEF Connect
  <2>2. ASSUME NEW d \in Conn, EndpointEnds(d) PROVE c \in conns'
    BY <2>2 DEF EndpointEnds, Disconnect
  <2>3. ASSUME NEW d \in Conn, ReaderFails(d) PROVE c \in conns'
    BY <2>3 DEF ReaderFails
  <2>4. ASSUME NEW d \in Conn, ReaderTakes(d) \/ ReaderSent(d) PROVE c \in conns'
    BY <2>4 DEF ReaderTakes, ReaderSent
  <2>5. CASE UNCHANGED <<endpoint, conns, reader>>
    BY <2>5
  <2>6. ASSUME NEW d \in Conn, \/ LinkChanges(d) \/ PingerCloses(d) \/ PingerFails(d)
                              \/ \E v \in Conv \cup {None} : SetFocus(d, v)
        PROVE  UNCHANGED <<endpoint, conns, reader>>
    BY <2>6 DEF LinkChanges, PingerCloses, PingerFails, SetFocus, tasks
  <2>7. ASSUME NEW kind \in Kind, NEW v \in Conv, Emit(kind, v)
        PROVE  UNCHANGED <<endpoint, conns, reader>>
    BY <2>7 DEF Emit, tasks
  <2>8. ASSUME UNCHANGED hubVars PROVE UNCHANGED <<endpoint, conns, reader>>
    BY <2>8 DEF hubVars
  <2> QED BY <2>1, <2>2, <2>3, <2>4, <2>5, <2>6, <2>7, <2>8 DEF HubNext
<1>3. HubInv /\ Served => ServedUnlessReaderFailed
  BY DEF HubInv, TasksMatchRegistry, Served, ServedUnlessReaderFailed
<1> QED BY <1>1, <1>2, <1>3, HubInvariant, PTL DEF HubSpec
-----------------------------------------------------------------------------
(***************************************************************************)
(* What a connection is fed: the messages its peer has received, the one   *)
(* in the hands of the reader and those in the queue.                      *)
(***************************************************************************)
\* s is in the order of emit(), and holds nothing that was emitted after k.
Ordered(s, k) ==
    /\ \A i, j \in 1 .. Len(s) : i < j => s[i].n < s[j].n
    /\ \A i \in 1 .. Len(s) : s[i].n <= k

\* An overflow or a lost send cuts messages out of a feed, which leaves it ordered.
LEMMA CutOrdered ==
    ASSUME NEW a \in Seq(Message), NEW b \in Seq(Message), NEW c \in Seq(Message), NEW k \in Nat,
           Ordered((a \o b) \o c, k)
    PROVE  Ordered(a \o c, k)
<1> DEFINE whole == (a \o b) \o c
           cut == a \o c
           at(i) == IF i <= Len(a) THEN i ELSE i + Len(b)
<1>1. /\ Len(a) \in Nat /\ Len(b) \in Nat /\ Len(c) \in Nat
      /\ a \o b \in Seq(Message) /\ Len(a \o b) = Len(a) + Len(b)
      /\ \A i \in 1 .. Len(a) + Len(b) : (a \o b)[i] = IF i <= Len(a) THEN a[i] ELSE b[i - Len(a)]
  BY ConcatProperties, LenProperties
<1>2. /\ Len(whole) = Len(a) + Len(b) + Len(c)
      /\ \A i \in 1 .. Len(whole) :
            whole[i] = IF i <= Len(a \o b) THEN (a \o b)[i] ELSE c[i - Len(a \o b)]
  BY <1>1, ConcatProperties
<1>3. /\ Len(cut) = Len(a) + Len(c)
      /\ \A i \in 1 .. Len(cut) : cut[i] = IF i <= Len(a) THEN a[i] ELSE c[i - Len(a)]
  BY <1>1, ConcatProperties
<1> HIDE DEF whole, cut
<1>4. ASSUME NEW i \in 1 .. Len(cut)
      PROVE  at(i) \in 1 .. Len(whole) /\ cut[i] = whole[at(i)]
  <2>1. CASE i <= Len(a)
    <3>1. at(i) = i /\ i \in 1 .. Len(whole) /\ i <= Len(a \o b) /\ i \in 1 .. Len(a) + Len(b)
      BY <2>1, <1>1, <1>2, <1>3
    <3> QED BY <3>1, <2>1, <1>1, <1>2, <1>3
  <2>2. CASE i > Len(a)
    <3>1. /\ at(i) = i + Len(b) /\ i + Len(b) \in 1 .. Len(whole) /\ ~(i + Len(b) <= Len(a \o b))
          /\ (i + Len(b)) - Len(a \o b) = i - Len(a)
      BY <2>2, <1>1, <1>2, <1>3
    <3> QED BY <3>1, <2>2, <1>1, <1>2, <1>3
  <2> QED BY <2>1, <2>2, <1>1, <1>3
<1>5. \A i, j \in 1 .. Len(cut) : i < j => at(i) < at(j)
  BY <1>1, <1>3
<1> HIDE DEF at
<1>6. Ordered(whole, k)
  BY DEF whole
<1>7. Ordered(cut, k)
  BY <1>4, <1>5, <1>6 DEF Ordered
<1> QED BY <1>7 DEF cut

\* The messages of a feed have numbers.
LEMMA Numbered ==
    ASSUME NEW s \in Seq(Message)
    PROVE  \A i \in 1 .. Len(s) : s[i].n \in Nat
<1>1. \A i \in 1 .. Len(s) : s[i] \in Message
  BY ElementOfSeq
<1>2. \A m \in Message : m.n \in Nat
  BY DEF Message
<1> QED BY <1>1, <1>2

\* A message that has just been emitted belongs behind all others.
LEMMA AddOrdered ==
    ASSUME NEW s \in Seq(Message), NEW m \in Message, NEW k \in Nat, Ordered(s, k), m.n = k + 1
    PROVE  Ordered(s \o <<m>>, k + 1)
<1> DEFINE t == s \o <<m>>
<1>1. /\ Len(s) \in Nat /\ Len(t) = Len(s) + 1
      /\ \A i \in 1 .. Len(s) : t[i] = s[i]
      /\ t[Len(s) + 1] = m
  OBVIOUS
<1> HIDE DEF t
<1>2. \A i \in 1 .. Len(s) : s[i].n \in Nat
  BY Numbered
<1>3. \A i \in 1 .. Len(t) : t[i].n <= k + 1
  BY <1>1, <1>2 DEF Ordered
<1>4. ASSUME NEW i \in 1 .. Len(t), NEW j \in 1 .. Len(t), i < j
      PROVE  t[i].n < t[j].n
  <2>1. CASE j <= Len(s)
    BY <2>1, <1>1, <1>4 DEF Ordered
  <2>2. CASE j = Len(s) + 1
    <3>1. i \in 1 .. Len(s) /\ t[i] = s[i] /\ t[j] = m
      BY <2>2, <1>1, <1>4
    <3> QED BY <3>1, <1>2 DEF Ordered
  <2> QED BY <2>1, <2>2, <1>1
<1>5. Ordered(t, k + 1)
  BY <1>3, <1>4 DEF Ordered
<1> QED BY <1>5 DEF t

\* What is ordered stays so when others are emitted.
LEMMA LaterOrdered ==
    ASSUME NEW s \in Seq(Message), NEW k \in Nat, Ordered(s, k)
    PROVE  Ordered(s, k + 1)
<1>1. \A i \in 1 .. Len(s) : s[i].n \in Nat
  BY Numbered
<1> QED BY <1>1 DEF Ordered

\* The message the reader takes only changes hands.
LEMMA TakenFeed ==
    ASSUME NEW r \in Seq(Message), NEW q \in Seq(Message), q # <<>>
    PROVE  (r \o <<Head(q)>>) \o Tail(q) = (r \o <<>>) \o q
<1>1. /\ Head(q) \in Message /\ Tail(q) \in Seq(Message) /\ Len(Tail(q)) = Len(q) - 1
      /\ \A i \in 1 .. Len(Tail(q)) : Tail(q)[i] = q[i + 1]
      /\ Head(q) = q[1] /\ Len(q) \in Nat \ {0}
  BY HeadTailProperties, LenProperties, EmptySeq
<1>2. <<Head(q)>> \in Seq(Message) /\ Len(<<Head(q)>>) = 1 /\ <<Head(q)>>[1] = Head(q)
  BY <1>1
<1>3. <<Head(q)>> \o Tail(q) = q
  <2> DEFINE h == <<Head(q)>>
             t == Tail(q)
             s == h \o t
  <2>1. /\ s \in Seq(Message) /\ Len(s) = 1 + Len(t)
        /\ \A i \in 1 .. 1 + Len(t) : s[i] = IF i <= 1 THEN h[1] ELSE t[i - 1]
    BY <1>1, <1>2, ConcatProperties
  <2>2. Len(t) = Len(q) - 1 /\ h[1] = q[1] /\ \A i \in 1 .. Len(t) : t[i] = q[i + 1]
    BY <1>1, <1>2
  <2> HIDE DEF h, t, s
  <2>3. Len(s) = Len(q) /\ \A i \in 1 .. Len(s) : s[i] = q[i]
    BY <2>1, <2>2, <1>1
  <2>4. s = q
    BY <2>1, <2>3, SeqEqual
  <2> QED BY <2>4 DEF s, h, t
<1>4. (r \o <<Head(q)>>) \o Tail(q) = r \o (<<Head(q)>> \o Tail(q))
  BY <1>1, <1>2, ConcatAssociative
<1> QED BY <1>3, <1>4, ConcatEmptySeq

\* emit() keeps a feed in order, overflow or not, and without overflow only adds to it.
LEMMA EnqueuedOrdered ==
    ASSUME NEW p \in Seq(Message), NEW q \in Seq(Message), NEW m \in Message, NEW k \in Nat,
           Len(q) <= QueueSize, Ordered(p \o q, k), m.n = k + 1
    PROVE  /\ Ordered(p \o Enqueued(q, m), k + 1)
           /\ Len(q) < QueueSize => p \o Enqueued(q, m) = (p \o q) \o <<m>>
<1>1. ASSUME NEW s \in Seq(Message)
      PROVE  p \o Append(s, m) = (p \o s) \o <<m>>
  <2>1. Append(s, m) = s \o <<m>> /\ <<m>> \in Seq(Message)
    OBVIOUS
  <2> QED BY <2>1, ConcatAssociative
<1>2. CASE Len(q) = QueueSize
  <2>1. q # <<>> /\ Tail(q) \in Seq(Message) /\ <<Head(q)>> \in Seq(Message)
    BY <1>2, HubAssumption
  <2>2. (p \o <<Head(q)>>) \o Tail(q) = p \o q
    BY <2>1, TakenFeed, ConcatEmptySeq
  <2>3. Ordered(p \o Tail(q), k)
    BY <2>1, <2>2, CutOrdered
  <2>4. p \o Tail(q) \in Seq(Message)
    BY <2>1, ConcatProperties
  <2>5. p \o Enqueued(q, m) = (p \o Tail(q)) \o <<m>>
    BY <1>1, <1>2, <2>1 DEF Enqueued
  <2>6. ~(Len(q) < QueueSize)
    BY <1>2, HubAssumption
  <2> QED BY <2>3, <2>4, <2>5, <2>6, AddOrdered
<1>3. CASE Len(q) # QueueSize
  <2>1. p \o q \in Seq(Message)
    BY ConcatProperties
  <2>2. p \o Enqueued(q, m) = (p \o q) \o <<m>>
    BY <1>1, <1>3 DEF Enqueued
  <2> QED BY <2>1, <2>2, AddOrdered
<1> QED BY <1>2, <1>3
-----------------------------------------------------------------------------
\* The strengthening: order together with what has been emitted so far, and where
\* messages cannot be.
FeedsOrdered == \A c \in Conn : Ordered(Feed(c), emitted)
IdleHandEmpty == \A c \in Conn : reader[c] = "waiting" => hand[c] = <<>>
UnusedEmpty ==
    \A c \in Conn : endpoint[c] = "none" =>
        /\ reader[c] = "none"
        /\ queue[c] = <<>> /\ hand[c] = <<>> /\ addressed[c] = <<>> /\ received[c] = <<>>
Feeds == FeedsOrdered /\ IdleHandEmpty /\ UnusedEmpty /\ LostByOverflow
FeedInv == HubInv /\ Feeds

\* All of it holds when the hub is created.
LEMMA InitFeedInv == HubInit => FeedInv
<1> SUFFICES ASSUME HubInit PROVE FeedInv
  OBVIOUS
<1>1. HubInv
  BY InitHubInv
<1>2. ASSUME NEW c \in Conn PROVE Ordered(Feed(c), emitted)
  <2>1. <<>> \in Seq(Message) /\ Len(<<>>) = 0
    OBVIOUS
  <2>2. Feed(c) = <<>>
    <3>1. received[c] = <<>> /\ hand[c] = <<>> /\ queue[c] = <<>>
      BY DEF HubInit
    <3>2. <<>> \o <<>> = <<>>
      BY <2>1, ConcatEmptySeq
    <3> QED BY <3>1, <3>2 DEF Feed
  <2> QED BY <2>1, <2>2 DEF Ordered
<1>3. IdleHandEmpty /\ UnusedEmpty /\ LostByOverflow
  BY DEF HubInit, IdleHandEmpty, UnusedEmpty, LostByOverflow
<1> QED BY <1>1, <1>2, <1>3 DEF FeedInv, Feeds, FeedsOrdered

\* emit() keeps it.
LEMMA EmitFeeds ==
    ASSUME FeedInv, NEW kind \in Kind, NEW v \in Conv, Emit(kind, v)
    PROVE  Feeds'
<1> USE DEF FeedInv, Feeds
<1>1. PICK k \in Nat : k = emitted
  BY DEF HubInv, HubTypeOK
<1>2. /\ emitted' = k + 1
      /\ UNCHANGED <<endpoint, link, conns, reader, hand, received>>
  BY <1>1 DEF Emit, tasks
<1>3. ASSUME NEW c \in Conn
      PROVE  \/ Told(c, kind, v) = <<>>
             \/ c \in conns /\ \E m \in Message : m.n = k + 1 /\ Told(c, kind, v) = <<m>>
  <2> SUFFICES ASSUME Told(c, kind, v) # <<>>
               PROVE  c \in conns /\ \E m \in Message : m.n = k + 1 /\ Told(c, kind, v) = <<m>>
    OBVIOUS
  <2> DEFINE m == [n |-> emitted + 1, full |-> kind = "client_seen" \/ focus[c] = v]
  <2>1. Told(c, kind, v) = <<m>> /\ c \in conns
    BY DEF Told
  <2>2. m.n = k + 1 /\ m \in Message
    <3>1. emitted + 1 \in Nat /\ emitted + 1 = k + 1
      BY <1>1
    <3>2. (kind = "client_seen" \/ focus[c] = v) \in BOOLEAN
      OBVIOUS
    <3> QED BY <3>1, <3>2 DEF Message
  <2> QED BY <2>1, <2>2
<1>4. ASSUME NEW c \in Conn
      PROVE  /\ Ordered(Feed(c)', k + 1)
             /\ endpoint[c] = "none" => addressed'[c] = <<>> /\ queue'[c] = <<>>
             /\ c \in conns /\ link[c] = "open" /\ Len(addressed'[c]) <= QueueSize
                   => Feed(c)' = addressed'[c]
  <2>1. PICK r \in Seq(Message) : r = received[c]
    BY DEF HubInv, HubTypeOK
  <2>2. PICK h \in Seq(Message) : h = hand[c]
    BY DEF HubInv, HubTypeOK
  <2>3. PICK q \in Seq(Message) : q = queue[c]
    BY DEF HubInv, HubTypeOK
  <2>4. PICK a \in Seq(Message) : a = addressed[c]
    BY DEF HubInv, HubTypeOK
  <2>5. /\ Feed(c) = (r \o h) \o q /\ Feed(c)' = (r \o h) \o queue'[c]
        /\ r \o h \in Seq(Message) /\ (r \o h) \o q \in Seq(Message)
    BY <1>2, <2>1, <2>2, <2>3 DEF Feed
  <2>6. /\ Ordered((r \o h) \o q, k)
        /\ c \in conns /\ link[c] = "open" /\ Len(a) <= QueueSize => (r \o h) \o q = a
        /\ endpoint[c] = "none" => q = <<>> /\ a = <<>>
    BY <1>1, <2>3, <2>4, <2>5 DEF FeedsOrdered, LostByOverflow, UnusedEmpty
  <2>7. /\ queue'[c] = (IF Told(c, kind, v) = <<>> THEN q
                        ELSE Enqueued(q, Head(Told(c, kind, v))))
        /\ addressed'[c] = a \o Told(c, kind, v)
    BY <2>3, <2>4 DEF Emit
  <2>8. CASE Told(c, kind, v) = <<>>
    <3>1. queue'[c] = q /\ addressed'[c] = a
      BY <2>7, <2>8, ConcatEmptySeq
    <3>2. Ordered((r \o h) \o q, k + 1)
      BY <2>5, <2>6, LaterOrdered
    <3> QED BY <3>1, <3>2, <2>5, <2>6
  <2>9. CASE c \in conns /\ \E m \in Message : m.n = k + 1 /\ Told(c, kind, v) = <<m>>
    <3>1. PICK m \in Message : m.n = k + 1 /\ Told(c, kind, v) = <<m>>
      BY <2>9
    <3>2. queue'[c] = Enqueued(q, m) /\ addressed'[c] = a \o <<m>>
      BY <2>7, <3>1
    <3>3. Len(q) <= QueueSize /\ Len(q) <= Len(a)
      BY <2>3, <2>4 DEF HubInv, HubTypeOK, FreshestWins
    <3>4. /\ Ordered((r \o h) \o Enqueued(q, m), k + 1)
          /\ Len(q) < QueueSize => (r \o h) \o Enqueued(q, m) = ((r \o h) \o q) \o <<m>>
      BY <2>5, <2>6, <3>1, <3>3, EnqueuedOrdered
    <3>5. Len(a \o <<m>>) <= QueueSize => Len(a) <= QueueSize /\ Len(q) < QueueSize
      <4>1. Len(a \o <<m>>) = Len(a) + 1 /\ Len(a) \in Nat /\ Len(q) \in Nat
        OBVIOUS
      <4> QED BY <4>1, <3>3, HubAssumption
    <3>6. endpoint[c] # "none"
      BY <2>9 DEF HubInv, TasksMatchRegistry
    <3> QED BY <2>5, <2>6, <3>2, <3>4, <3>5, <3>6
  <2> QED BY <2>8, <2>9, <1>3
<1>5. FeedsOrdered'
  BY <1>2, <1>4 DEF FeedsOrdered
<1>6. IdleHandEmpty'
  BY <1>2 DEF IdleHandEmpty
<1>7. UnusedEmpty'
  BY <1>2, <1>4 DEF UnusedEmpty
<1>8. LostByOverflow'
  <2> SUFFICES ASSUME NEW c \in Conn, c \in conns, link[c] = "open", Len(addressed'[c]) <= QueueSize
               PROVE  Feed(c)' = addressed'[c]
    <3>1. conns \subseteq Conn
      BY DEF HubInv, HubTypeOK
    <3> QED BY <1>2, <3>1 DEF LostByOverflow
  <2> QED BY <1>4
<1> QED BY <1>5, <1>6, <1>7, <1>8

\* A connection that is not concerned keeps its feed.
SameFeed(c) == UNCHANGED <<queue[c], hand[c], received[c], addressed[c]>>

\* A step that leaves the feeds of all connections but one alone, does not register
\* one anew, and only cuts messages out of that feed, keeps it.
LEMMA CutFeeds ==
    ASSUME FeedInv, NEW c \in Conn,
           UNCHANGED <<emitted, addressed>>,
           \A d \in Conn \ {c} : SameFeed(d) /\ UNCHANGED <<endpoint[d], link[d], reader[d]>>,
           conns' \subseteq conns,
           endpoint'[c] # "none",
           reader'[c] = "waiting" => hand'[c] = <<>>,
           Ordered(Feed(c), emitted)',
           c \in conns' /\ link'[c] = "open" => link[c] = "open" /\ Feed(c)' = Feed(c)
    PROVE  Feeds'
<1> USE DEF FeedInv, Feeds
<1>1. conns \subseteq Conn
  BY DEF HubInv, HubTypeOK
<1>2. ASSUME NEW d \in Conn, d # c PROVE Feed(d)' = Feed(d)
  BY <1>2 DEF SameFeed, Feed
<1>3. ASSUME NEW d \in Conn PROVE Ordered(Feed(d), emitted)'
  <2>1. CASE d = c
    BY <2>1
  <2>2. CASE d # c
    <3>1. Ordered(Feed(d), emitted) /\ Feed(d)' = Feed(d) /\ emitted' = emitted
      BY <2>2, <1>2 DEF FeedsOrdered
    <3> QED BY <3>1 DEF Ordered
  <2> QED BY <2>1, <2>2
<1>4. FeedsOrdered'
  BY <1>3 DEF FeedsOrdered
<1>5. IdleHandEmpty' /\ UnusedEmpty'
  BY DEF IdleHandEmpty, UnusedEmpty, SameFeed
<1>6. LostByOverflow'
  <2> SUFFICES ASSUME NEW d \in conns', link'[d] = "open", Len(addressed'[d]) <= QueueSize
               PROVE  Feed(d)' = addressed'[d]
    BY DEF LostByOverflow
  <2>1. d \in conns /\ d \in Conn /\ addressed'[d] = addressed[d]
    BY <1>1
  <2>2. link[d] = "open" /\ Feed(d)' = Feed(d)
    BY <2>1, <1>2
  <2> QED BY <2>1, <2>2 DEF LostByOverflow
<1> QED BY <1>4, <1>5, <1>6

\* The reader moves messages on, or drops the one in its hands.
LEMMA ReaderFeeds ==
    ASSUME FeedInv, NEW c \in Conn, ReaderTakes(c) \/ ReaderSent(c) \/ ReaderFails(c) \/ EndpointEnds(c)
    PROVE  Feeds'
<1> USE DEF FeedInv, Feeds
<1>1. PICK r \in Seq(Message) : r = received[c]
  BY DEF HubInv, HubTypeOK
<1>2. PICK h \in Seq(Message) : h = hand[c]
  BY DEF HubInv, HubTypeOK
<1>3. PICK q \in Seq(Message) : q = queue[c]
  BY DEF HubInv, HubTypeOK
<1>4. PICK k \in Nat : k = emitted
  BY DEF HubInv, HubTypeOK
<1>5. Feed(c) = (r \o h) \o q /\ Ordered((r \o h) \o q, k) /\ r \o h \in Seq(Message)
  BY <1>1, <1>2, <1>3, <1>4 DEF Feed, FeedsOrdered
<1>6. <<>> \in Seq(Message) /\ r \o <<>> = r /\ (r \o h) \o <<>> = r \o h
  BY <1>5, ConcatEmptySeq
<1>7. /\ UNCHANGED <<emitted, addressed>>
      /\ \A d \in Conn \ {c} : SameFeed(d) /\ UNCHANGED <<endpoint[d], link[d], reader[d]>>
      /\ conns' \subseteq conns
      /\ endpoint'[c] # "none"
      /\ reader'[c] = "waiting" => hand'[c] = <<>>
  <2>1. reader[c] # "none" => endpoint[c] # "none"
    BY DEF UnusedEmpty
  <2> QED BY <2>1 DEF HubInv, HubTypeOK, ReaderTakes, ReaderSent, ReaderFails, EndpointEnds,
           Disconnect, SameFeed, TasksMatchRegistry
<1>8. CASE ReaderTakes(c)
  <2>1. /\ h = <<>> /\ q # <<>> /\ received'[c] = r
        /\ hand'[c] = <<Head(q)>> /\ queue'[c] = Tail(q) /\ UNCHANGED <<link, conns>>
    BY <1>1, <1>2, <1>3, <1>8 DEF ReaderTakes, IdleHandEmpty, HubInv, HubTypeOK
  <2>2. Feed(c)' = Feed(c)
    BY <1>5, <2>1, TakenFeed DEF Feed
  <2>3. Ordered(Feed(c), emitted)'
    BY <1>4, <1>5, <1>7, <2>2 DEF Ordered
  <2> QED BY <1>7, <2>1, <2>2, <2>3, CutFeeds
<1>9. CASE ReaderSent(c) \/ ReaderFails(c) \/ EndpointEnds(c)
  <2>1. /\ hand'[c] = <<>> /\ queue'[c] = q
        /\ received'[c] = r \/ received'[c] = r \o h
        /\ c \in conns' /\ link'[c] = "open" => link[c] = "open" /\ received'[c] = r \o h
    BY <1>1, <1>2, <1>3, <1>9 DEF ReaderSent, ReaderFails, EndpointEnds, Disconnect, HubInv, HubTypeOK
  <2>2. Feed(c)' = received'[c] \o q
    BY <1>6, <2>1 DEF Feed
  <2>3. Ordered(r \o q, k)
    BY <1>5, CutOrdered
  <2>4. Ordered(received'[c] \o q, k)
    BY <1>5, <2>1, <2>3
  <2>5. Ordered(Feed(c), emitted)'
    BY <1>4, <1>7, <2>2, <2>4 DEF Ordered
  <2>6. c \in conns' /\ link'[c] = "open" => link[c] = "open" /\ Feed(c)' = Feed(c)
    BY <1>5, <2>1, <2>2
  <2> QED BY <1>7, <2>5, <2>6, CutFeeds
<1> QED BY <1>8, <1>9

\* Steps that move no message keep it; a new connection starts with nothing.
LEMMA StillFeeds ==
    ASSUME FeedInv, NEW c \in Conn,
           \/ Connect(c) \/ LinkChanges(c)
           \/ \E v \in Conv \cup {None} : SetFocus(c, v)
           \/ PingerCloses(c) \/ PingerFails(c)
    PROVE  Feeds'
<1> USE DEF FeedInv, Feeds
<1>1. UNCHANGED <<emitted, queue, hand, addressed, received>>
  BY DEF Connect, LinkChanges, SetFocus, PingerCloses, PingerFails, feeds
<1>2. \A d \in Conn : Feed(d)' = Feed(d)
  BY <1>1 DEF Feed
<1>3. FeedsOrdered'
  <2> SUFFICES ASSUME NEW d \in Conn PROVE Ordered(Feed(d), emitted)'
    BY DEF FeedsOrdered
  <2>1. Ordered(Feed(d), emitted)
    BY DEF FeedsOrdered
  <2> QED BY <2>1, <1>1, <1>2 DEF Ordered
<1>4. CASE Connect(c)
  <2>1. endpoint[c] = "none" /\ endpoint' = [endpoint EXCEPT ![c] = "receiving"]
        /\ reader' = [reader EXCEPT ![c] = "waiting"] /\ conns' = conns \cup {c}
        /\ link' = [link EXCEPT ![c] = "open"]
    BY <1>4 DEF Connect
  <2>2. hand[c] = <<>> /\ Feed(c) = <<>> /\ addressed[c] = <<>>
    <3>1. <<>> \in Seq(Message)
      OBVIOUS
    <3>2. <<>> \o <<>> = <<>>
      BY <3>1, ConcatEmptySeq
    <3>3. hand[c] = <<>> /\ queue[c] = <<>> /\ received[c] = <<>> /\ addressed[c] = <<>>
      BY <2>1 DEF UnusedEmpty
    <3> QED BY <3>2, <3>3 DEF Feed
  <2>3. IdleHandEmpty' /\ UnusedEmpty'
    BY <1>1, <2>1, <2>2 DEF IdleHandEmpty, UnusedEmpty, HubInv, HubTypeOK
  <2>4. LostByOverflow'
    <3> SUFFICES ASSUME NEW d \in conns', link'[d] = "open", Len(addressed'[d]) <= QueueSize
                 PROVE  Feed(d)' = addressed'[d]
      BY DEF LostByOverflow
    <3>1. CASE d = c
      BY <3>1, <1>1, <1>2, <2>2
    <3>2. CASE d # c
      BY <3>2, <1>1, <1>2, <2>1 DEF LostByOverflow, HubInv, HubTypeOK
    <3> QED BY <3>1, <3>2
  <2> QED BY <1>3, <2>3, <2>4
<1>5. CASE ~Connect(c)
  <2>1. UNCHANGED <<endpoint, reader, conns>> /\ \A d \in Conn : link'[d] = "open" => link[d] = "open"
    BY <1>5 DEF LinkChanges, SetFocus, PingerCloses, PingerFails, tasks, HubInv, HubTypeOK
  <2>2. IdleHandEmpty' /\ UnusedEmpty'
    BY <1>1, <2>1 DEF IdleHandEmpty, UnusedEmpty
  <2>3. LostByOverflow'
    BY <1>1, <1>2, <2>1 DEF LostByOverflow, HubInv, HubTypeOK
  <2> QED BY <1>3, <2>2, <2>3
<1> QED BY <1>4, <1>5

\* Every step of the hub keeps it.
LEMMA StepFeedInv == FeedInv /\ [HubNext]_hubVars => FeedInv'
<1> SUFFICES ASSUME FeedInv, [HubNext]_hubVars PROVE FeedInv'
  OBVIOUS
<1>1. HubInv'
  BY StepHubInv DEF FeedInv
<1>2. Feeds'
  <2>1. CASE UNCHANGED hubVars
    BY <2>1 DEF FeedInv, Feeds, FeedsOrdered, IdleHandEmpty, UnusedEmpty, LostByOverflow,
               Ordered, Feed, hubVars
  <2>2. CASE \E kind \in Kind, v \in Conv : Emit(kind, v)
    BY <2>2, EmitFeeds
  <2>3. ASSUME NEW c \in Conn, ReaderTakes(c) \/ ReaderSent(c) \/ ReaderFails(c) \/ EndpointEnds(c)
        PROVE  Feeds'
    BY <2>3, ReaderFeeds
  <2>4. ASSUME NEW c \in Conn,
               \/ Connect(c) \/ LinkChanges(c)
               \/ \E v \in Conv \cup {None} : SetFocus(c, v)
               \/ PingerCloses(c) \/ PingerFails(c)
        PROVE  Feeds'
    BY <2>4, StillFeeds
  <2> QED BY <2>1, <2>2, <2>3, <2>4 DEF HubNext
<1> QED BY <1>1, <1>2 DEF FeedInv

\* The feeds' invariant holds in every reachable state of the hub.
LEMMA FeedInvariant == HubSpec => []FeedInv
BY InitFeedInv, StepFeedInv, PTL DEF HubSpec

\* A peer gets its messages in the order of emit(), none of them twice, whatever an
\* overflow drops between them (hub.py:45-52, 124-139).
THEOREM HubInOrder == HubSpec => []InOrder
<1>1. FeedInv => InOrder
  <2> SUFFICES ASSUME FeedInv, NEW c \in Conn, NEW i \in DOMAIN Feed(c), NEW j \in DOMAIN Feed(c), i < j
               PROVE  Feed(c)[i].n < Feed(c)[j].n
    BY DEF InOrder
  <2>1. Feed(c) \in Seq(Message)
    BY DEF FeedInv, HubInv, HubTypeOK, Feed
  <2>2. DOMAIN Feed(c) = 1 .. Len(Feed(c))
    BY <2>1, LenProperties
  <2> QED BY <2>2 DEF FeedInv, Feeds, FeedsOrdered, Ordered
<1> QED BY <1>1, FeedInvariant, PTL

\* On a socket that works nothing is lost but by overflow (hub.py:45-52, 124-139).
THEOREM HubLostByOverflow == HubSpec => []LostByOverflow
<1>1. FeedInv => LostByOverflow
  BY DEF FeedInv, Feeds
<1> QED BY <1>1, FeedInvariant, PTL
=============================================================================
