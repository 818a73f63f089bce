--------------------------- MODULE HubPingProofs ---------------------------
(***************************************************************************)
(* Proofs about the hub with its clock, for every interval, timeout,       *)
(* delay of the event loop and answer time that PingAssumption allows.     *)
(***************************************************************************)
EXTENDS HubPing, HubProofs

\* Arithmetic: a connection that has just been made is early for every check.
LEMMA FreshIsEarly ==
  ASSUME NEW t \in Nat, NEW s \in Nat
  PROVE  /\ t <= t + Interval + Late
         /\ t + Interval <= t + 2 * Interval + Timeout + s
BY PingAssumption

\* Arithmetic: who answers in time is not behind when the pinger checks.
LEMMA AnswerFits ==
  ASSUME NEW n \in Nat, NEW h \in Nat, NEW p \in Nat,
         n <= h + Answer, h <= p + Interval + Late
  PROVE  ~(n > p + Interval + Timeout)
BY PingAssumption

\* The hub's part of the state changes as in one of the hub's own steps.
LEMMA StepIsHubStep == [PingNext]_timedVars => [HubNext]_hubVars
<1> SUFFICES ASSUME [PingNext]_timedVars PROVE [HubNext]_hubVars
  OBVIOUS
<1>1. CASE UNCHANGED timedVars
  BY <1>1 DEF timedVars
<1>2. ASSUME NEW c \in Conn,
             TimedConnect(c) \/ Pong(c) \/ PingerWakes(c) \/ PingSent(c) \/ PingFails(c)
      PROVE  [HubNext]_hubVars
  <2>1. CASE TimedConnect(c)
    BY <2>1 DEF TimedConnect, HubNext
  <2>2. CASE Pong(c)
    BY <2>2 DEF Pong
  <2>3. CASE PingerWakes(c)
    BY <2>3 DEF PingerWakes, HubNext
  <2>4. CASE PingSent(c)
    BY <2>4 DEF PingSent
  <2>5. CASE PingFails(c)
    BY <2>5 DEF PingFails, HubNext
  <2> QED BY <1>2, <2>1, <2>2, <2>3, <2>4, <2>5
<1>3. CASE Tick
  BY <1>3 DEF Tick
<1>4. CASE Untimed
  BY <1>4 DEF Untimed, HubNext
<1> QED BY <1>1, <1>2, <1>3, <1>4 DEF PingNext

\* The clocked hub is built from the hub's own actions, so that what holds of the hub
\* holds with the clock.
LEMMA PingIsHub == PingSpec => HubSpec
<1>1. PingInit => HubInit
  BY DEF PingInit
<1> QED BY <1>1, StepIsHubStep, PTL DEF PingSpec, HubSpec

\* What is proved of the hub without a clock holds with it: the pings change nothing of
\* what a connection is sent, in which order and what it may have lost.
THEOREM PingKeepsHub ==
    PingSpec => [](InOrder /\ FreshestWins /\ LostByOverflow /\ TasksMatchRegistry)
BY PingIsHub, HubInOrder, HubFreshestWins, HubLostByOverflow, HubTasksMatch, PTL
-----------------------------------------------------------------------------
\* The invariant holds when the hub is created.
LEMMA InitPingInv == PingInit => PingInv
<1> SUFFICES ASSUME PingInit PROVE PingInv
  OBVIOUS
<1> USE PingAssumption DEF PingInit, HubInit
<1>1. PingTypeOK
  BY DEF PingTypeOK
<1>2. Watched /\ CheckInTime /\ HeardInTime
  BY DEF Watched, CheckInTime, HeardInTime, Sleeping
<1>3. Past(<<>>, 0)
  BY DEF Past
<1>4. PingsPast
  BY <1>3 DEF PingsPast
<1> QED BY <1>1, <1>2, <1>4 DEF PingInv

\* What the hub's own steps may do to the connections that are watched.
Calm ==
    /\ conns' \subseteq conns
    /\ \A c \in Conn :
        /\ link[c] = "closed" => link'[c] = "closed"
        /\ pinger'[c] = pinger[c] \/ (pinger'[c] = "over" /\ c \notin conns')
        /\ endpoint'[c] = "none" <=> endpoint[c] = "none"

\* Every step of the endpoint, the socket, the reader and emit() does no more.
LEMMA UntimedCalm == HubTypeOK /\ Untimed => Calm
<1> SUFFICES ASSUME HubTypeOK, Untimed PROVE Calm
  OBVIOUS
<1> USE DEF HubTypeOK, Calm
<1>1. ASSUME NEW c \in Conn, EndpointEnds(c) PROVE Calm
  BY <1>1 DEF EndpointEnds, Disconnect
<1>2. ASSUME NEW c \in Conn, LinkChanges(c) PROVE Calm
  BY <1>2 DEF LinkChanges, tasks
<1>3. ASSUME NEW c \in Conn, NEW v \in Conv \cup {None}, SetFocus(c, v) PROVE Calm
  BY <1>3 DEF SetFocus, tasks
<1>4. ASSUME NEW c \in Conn, ReaderTakes(c) PROVE Calm
  BY <1>4 DEF ReaderTakes
<1>5. ASSUME NEW c \in Conn, ReaderSent(c) PROVE Calm
  BY <1>5 DEF ReaderSent
<1>6. ASSUME NEW c \in Conn, ReaderFails(c) PROVE Calm
  BY <1>6 DEF ReaderFails
<1>7. ASSUME NEW kind \in Kind, NEW v \in Conv, Emit(kind, v) PROVE Calm
  BY <1>7 DEF Emit, tasks
<1> QED BY <1>1, <1>2, <1>3, <1>4, <1>5, <1>6, <1>7 DEF Untimed

\* What the invariant says of one connection in the next state, when its clock is
\* the one it had.
LEMMA SameClock ==
    ASSUME PingInv, NEW c \in Conn,
           UNCHANGED <<now, lastPong[c], wake[c], asking[c], owed[c], prompt[c], stalled[c]>>,
           pinger'[c] = "sleeping" => pinger[c] = "sleeping"
    PROVE  /\ lastPong'[c] <= now'
           /\ Sleeping(c)' =>
                 /\ now' <= wake'[c] + Late /\ wake'[c] <= now' + Interval
                 /\ wake'[c] <= lastPong'[c] + 2 * Interval + Timeout + stalled'[c]
           /\ pinger'[c] = "sleeping" /\ asking'[c] =>
                 now' <= lastPong'[c] + Interval + Timeout + stalled'[c]
           /\ prompt'[c] =>
                 /\ owed'[c] # <<>> => /\ now' <= Head(owed'[c]) + Answer
                                       /\ Head(owed'[c]) <= lastPong'[c] + Interval + Late
                 /\ owed'[c] = <<>> /\ Sleeping(c)' => wake'[c] <= lastPong'[c] + Interval
                 /\ owed'[c] = <<>> /\ pinger'[c] = "sleeping" /\ asking'[c] =>
                       now' <= lastPong'[c] + Interval + Late
           /\ Past(owed'[c], now')
<1>1. Sleeping(c)' => Sleeping(c)
  BY DEF Sleeping
<1>2. Past(owed[c], now)
  BY DEF PingInv, PingsPast
<1>3. Past(owed'[c], now')
  BY <1>2
<1> QED BY <1>1, <1>3 DEF PingInv, CheckInTime, HeardInTime

\* A calm step that leaves the clock alone keeps the invariant.
LEMMA CalmStep == PingInv /\ Calm /\ UNCHANGED pingVars => PingInv'
<1> SUFFICES ASSUME PingInv, Calm, UNCHANGED pingVars PROVE PingInv'
  OBVIOUS
<1>1. PingTypeOK'
  BY DEF PingInv, PingTypeOK, pingVars
<1>2. ASSUME NEW c \in Conn
      PROVE  /\ UNCHANGED <<now, lastPong[c], wake[c], asking[c], owed[c], prompt[c], stalled[c]>>
             /\ pinger'[c] = "sleeping" => pinger[c] = "sleeping"
             /\ endpoint'[c] = "none" => endpoint[c] = "none"
  BY DEF pingVars, Calm
<1>3. Watched'
  BY DEF PingInv, Watched, Calm
<1>4. CheckInTime' /\ HeardInTime'
  BY <1>2, SameClock DEF CheckInTime, HeardInTime
<1>5. PingsPast'
  <2>1. ASSUME NEW c \in Conn, endpoint'[c] = "none"
        PROVE  pinger'[c] # "sleeping" /\ ~asking'[c] /\ owed'[c] = <<>>
    BY <1>2, <2>1 DEF PingInv, PingsPast, Calm
  <2> QED BY <1>2, <2>1, SameClock DEF PingsPast
<1> QED BY <1>1, <1>3, <1>4, <1>5 DEF PingInv

\* What is left of the times in s when the first is taken off, or a last one added.
LEMMA PastTail ==
    ASSUME NEW s \in Seq(Nat), s # <<>>, NEW t \in Nat, Past(s, t)
    PROVE  /\ Tail(s) \in Seq(Nat) /\ Past(Tail(s), t)
           /\ Head(s) \in Nat
           /\ Tail(s) # <<>> => /\ Head(Tail(s)) \in Nat
                                /\ Head(Tail(s)) <= t /\ Head(s) <= Head(Tail(s))
<1> DEFINE r == Tail(s)
<1>1. /\ r \in Seq(Nat) /\ Len(r) = Len(s) - 1 /\ Len(s) \in Nat
      /\ \A i \in 1 .. Len(r) : r[i] = s[i + 1] /\ i + 1 \in 1 .. Len(s)
      /\ Head(s) = s[1] /\ 1 \in 1 .. Len(s) /\ s[1] \in Nat
      /\ r # <<>> => Head(r) = r[1] /\ 1 \in 1 .. Len(r) /\ r[1] \in Nat
  OBVIOUS
<1> HIDE DEF r
<1>2. /\ \A i \in 1 .. Len(s) : s[i] <= t
      /\ \A i, j \in 1 .. Len(s) : i <= j => s[i] <= s[j]
  BY DEF Past
<1>3. \A i \in 1 .. Len(r) : r[i] <= t
  BY <1>1, <1>2
<1>4. ASSUME NEW i \in 1 .. Len(r), NEW j \in 1 .. Len(r), i <= j
      PROVE  r[i] <= r[j]
  <2>1. i + 1 <= j + 1
    BY <1>1, <1>4
  <2> QED BY <2>1, <1>1, <1>2
<1>5. Past(r, t)
  BY <1>3, <1>4 DEF Past
<1>6. r # <<>> => Head(r) <= t /\ Head(s) <= Head(r)
  <2> SUFFICES ASSUME r # <<>> PROVE Head(r) <= t /\ Head(s) <= Head(r)
    OBVIOUS
  <2>1. Head(r) = s[2] /\ 2 \in 1 .. Len(s)
    BY <1>1
  <2> QED BY <2>1, <1>1, <1>2
<1> QED BY <1>1, <1>5, <1>6 DEF r

\* A ping sent now is later than those that are owed already.
LEMMA PastAppend ==
    ASSUME NEW s \in Seq(Nat), NEW t \in Nat, Past(s, t)
    PROVE  /\ Append(s, t) \in Seq(Nat) /\ Past(Append(s, t), t)
           /\ Append(s, t) # <<>>
           /\ Head(Append(s, t)) = IF s = <<>> THEN t ELSE Head(s)
<1> DEFINE r == Append(s, t)
<1>0. /\ Len(s) \in Nat
      /\ s # <<>> => Head(s) = s[1] /\ Len(s) >= 1
      /\ s = <<>> => Len(s) = 0
  OBVIOUS
<1>1. /\ r \in Seq(Nat) /\ Len(r) = Len(s) + 1
      /\ \A i \in 1 .. Len(s) : r[i] = s[i]
      /\ r[Len(s) + 1] = t
  OBVIOUS
<1> HIDE DEF r
<1>6. r # <<>> /\ Head(r) = r[1]
  BY <1>0, <1>1
<1>2. /\ \A i \in 1 .. Len(s) : s[i] <= t
      /\ \A i, j \in 1 .. Len(s) : i <= j => s[i] <= s[j]
  BY DEF Past
<1>3. \A i \in 1 .. Len(r) : i \in 1 .. Len(s) \/ i = Len(s) + 1
  BY <1>0, <1>1
<1>4. Past(r, t)
  <2>1. \A i \in 1 .. Len(r) : r[i] <= t
    BY <1>1, <1>2, <1>3
  <2>2. ASSUME NEW i \in 1 .. Len(r), NEW j \in 1 .. Len(r), i <= j
        PROVE  r[i] <= r[j]
    <3>1. CASE j = Len(s) + 1
      BY <2>1, <3>1, <1>1
    <3>2. CASE j \in 1 .. Len(s)
      <4>1. i \in 1 .. Len(s)
        BY <2>2, <3>2, <1>0
      <4> QED BY <2>2, <3>2, <4>1, <1>1, <1>2
    <3> QED BY <3>1, <3>2, <1>3
  <2> QED BY <2>1, <2>2 DEF Past
<1>5. Head(r) = IF s = <<>> THEN t ELSE Head(s)
  <2>1. CASE s = <<>>
    BY <2>1, <1>0, <1>1, <1>6
  <2>2. CASE s # <<>>
    <3>1. 1 \in 1 .. Len(s)
      BY <2>2, <1>0
    <3> QED BY <2>2, <3>1, <1>0, <1>1, <1>6
  <2> QED BY <2>1, <2>2
<1> QED BY <1>1, <1>4, <1>5, <1>6 DEF r

\* A new connection counts as just heard, and its first check is an interval away.
LEMMA ConnectPings ==
    ASSUME HubTypeOK, PingInv, NEW c \in Conn, TimedConnect(c)
    PROVE  PingInv'
<1>1. PICK t \in Nat : t = now
  BY DEF PingInv, PingTypeOK
<1>2. /\ lastPong' = [lastPong EXCEPT ![c] = t] /\ wake' = [wake EXCEPT ![c] = t + Interval]
      /\ UNCHANGED <<now, asking, owed, prompt, stalled>>
      /\ pinger' = [pinger EXCEPT ![c] = "sleeping"] /\ conns' = conns \cup {c}
      /\ link' = [link EXCEPT ![c] = "open"] /\ endpoint' = [endpoint EXCEPT ![c] = "receiving"]
      /\ endpoint[c] = "none"
  BY <1>1 DEF TimedConnect, Connect
<1>3. PingTypeOK'
  BY <1>1, <1>2, PingAssumption DEF PingInv, PingTypeOK
<1>4. ASSUME NEW d \in Conn, d # c
      PROVE  /\ UNCHANGED <<now, lastPong[d], wake[d], asking[d], owed[d], prompt[d], stalled[d]>>
             /\ UNCHANGED <<pinger[d], link[d], endpoint[d]>>
  BY <1>2, <1>4 DEF HubTypeOK, PingInv, PingTypeOK
<1>5. /\ now' = t /\ lastPong'[c] = t /\ wake'[c] = t + Interval
      /\ ~asking'[c] /\ owed'[c] = <<>> /\ stalled'[c] \in Nat
      /\ pinger'[c] = "sleeping" /\ endpoint'[c] = "receiving"
  BY <1>1, <1>2, <1>3 DEF PingInv, PingTypeOK, PingsPast, HubTypeOK
<1>6. Watched'
  BY <1>2, <1>4, <1>5 DEF PingInv, Watched
<1>7. CheckInTime'
  <2>1. /\ t <= t + Interval + Late
        /\ t + Interval <= t + 2 * Interval + Timeout + stalled'[c]
    BY <1>5, FreshIsEarly
  <2>2. /\ lastPong'[c] <= now'
        /\ now' <= wake'[c] + Late /\ wake'[c] <= now' + Interval
        /\ wake'[c] <= lastPong'[c] + 2 * Interval + Timeout + stalled'[c]
    BY <1>5, <2>1, PingAssumption
  <2> QED BY <1>4, <1>5, <2>2, SameClock DEF CheckInTime
<1>8. HeardInTime'
  BY <1>4, <1>5, SameClock, PingAssumption DEF HeardInTime
<1>9. PingsPast'
  <2>1. Past(<<>>, t)
    BY DEF Past
  <2>2. \A d \in Conn : endpoint'[d] = "none" => d # c
    BY <1>5
  <2>3. \A d \in Conn : Past(owed'[d], now')
    BY <1>4, <1>5, <2>1, SameClock
  <2> QED BY <1>4, <2>2, <2>3 DEF PingInv, PingsPast
<1> QED BY <1>3, <1>6, <1>7, <1>8, <1>9 DEF PingInv

\* An answer makes the peer heard now; the pings it still owes are not later.
LEMMA PongPings ==
    ASSUME HubTypeOK, PingInv, NEW c \in Conn, Pong(c)
    PROVE  PingInv'
<1> USE PingAssumption DEF PingInv
<1>0. /\ owed' = [owed EXCEPT ![c] = Tail(@)] /\ lastPong' = [lastPong EXCEPT ![c] = now]
      /\ stalled' = [stalled EXCEPT ![c] = 0] /\ owed[c] # <<>>
      /\ UNCHANGED <<now, wake, asking, prompt, conns, link, pinger, endpoint>>
      /\ endpoint[c] = "receiving"
  BY DEF Pong, hubVars
<1>1. PICK q \in Seq(Nat) : q = owed[c]
  BY DEF PingTypeOK
<1>2. PICK t \in Nat : t = now
  BY DEF PingTypeOK
<1>3. /\ Tail(q) \in Seq(Nat) /\ Past(Tail(q), t)
      /\ Head(q) \in Nat
      /\ Tail(q) # <<>> => /\ Head(Tail(q)) \in Nat
                           /\ Head(Tail(q)) <= t /\ Head(q) <= Head(Tail(q))
  <2>1. Past(q, t) /\ q # <<>>
    BY <1>0, <1>1, <1>2 DEF PingsPast
  <2> QED BY <2>1, PastTail
<1>4. PingTypeOK'
  BY <1>0, <1>1, <1>3 DEF PingTypeOK
<1>5. Watched'
  BY <1>0 DEF Watched
<1>6. ASSUME NEW d \in Conn
      PROVE  /\ lastPong'[d] = IF d = c THEN t ELSE lastPong[d]
             /\ owed'[d] = IF d = c THEN Tail(q) ELSE owed[d]
             /\ stalled'[d] = IF d = c THEN 0 ELSE stalled[d]
             /\ now' = t /\ wake'[d] = wake[d] /\ asking'[d] = asking[d]
             /\ prompt'[d] = prompt[d] /\ pinger'[d] = pinger[d] /\ Sleeping(d)' = Sleeping(d)
             /\ lastPong[d] \in Nat /\ stalled[d] \in Nat /\ wake[d] \in Nat
  BY <1>0, <1>1, <1>2 DEF PingTypeOK, Sleeping
<1>7. CheckInTime'
  <2>1. ASSUME NEW d \in Conn
        PROVE  /\ lastPong'[d] <= now'
               /\ Sleeping(d)' =>
                     /\ now' <= wake'[d] + Late /\ wake'[d] <= now' + Interval
                     /\ wake'[d] <= lastPong'[d] + 2 * Interval + Timeout + stalled'[d]
               /\ pinger'[d] = "sleeping" /\ asking'[d] =>
                     now' <= lastPong'[d] + Interval + Timeout + stalled'[d]
    BY <1>2, <1>6 DEF CheckInTime
  <2> QED BY <2>1 DEF CheckInTime
<1>8. PingsPast'
  <2>1. ASSUME NEW d \in Conn
        PROVE  Past(owed'[d], now')
    BY <1>2, <1>3, <1>6 DEF PingsPast
  <2>2. \A d \in Conn : endpoint'[d] = "none" => endpoint[d] = "none" /\ d # c
    BY <1>0
  <2> QED BY <2>1, <2>2, <1>6 DEF PingsPast
<1>9. HeardInTime'
  <2>1. ASSUME NEW d \in Conn, prompt'[d]
        PROVE  /\ owed'[d] # <<>> => /\ now' <= Head(owed'[d]) + Answer
                                     /\ Head(owed'[d]) <= lastPong'[d] + Interval + Late
               /\ owed'[d] = <<>> /\ Sleeping(d)' => wake'[d] <= lastPong'[d] + Interval
               /\ owed'[d] = <<>> /\ pinger'[d] = "sleeping" /\ asking'[d] =>
                    now' <= lastPong'[d] + Interval + Late
    <3>1. CASE d # c
      BY <2>1, <3>1, <1>2, <1>6 DEF HeardInTime
    <3>2. CASE d = c
      <4>1. t <= Head(q) + Answer
        BY <2>1, <3>2, <1>0, <1>1, <1>2, <1>6 DEF HeardInTime
      <4>2. Sleeping(c) => wake[c] <= t + Interval
        BY <1>2 DEF CheckInTime
      <4>3. Tail(q) # <<>> => t <= Head(Tail(q)) + Answer /\ Head(Tail(q)) <= t + Interval + Late
        BY <4>1, <1>3
      <4>4. t <= t + Interval + Late
        OBVIOUS
      <4> QED BY <3>2, <4>2, <4>3, <4>4, <1>6
    <3> QED BY <3>1, <3>2
  <2> QED BY <2>1 DEF HeardInTime
<1> QED BY <1>4, <1>5, <1>7, <1>8, <1>9

\* The check: a silent peer's socket is closed, any other is asked within its patience.
LEMMA WakesPings ==
    ASSUME HubTypeOK, PingInv, NEW c \in Conn, PingerWakes(c)
    PROVE  PingInv'
<1>1. CASE PingerCloses(c) /\ UNCHANGED asking
  <2>1. /\ UNCHANGED pingVars
        /\ pinger' = [pinger EXCEPT ![c] = "over"] /\ link' = [link EXCEPT ![c] = "closed"]
        /\ UNCHANGED <<conns, endpoint>>
    BY <1>1 DEF PingerWakes, PingerCloses, pingVars
  <2>2. PingTypeOK'
    BY <2>1 DEF PingInv, PingTypeOK, pingVars
  <2>3. ASSUME NEW d \in Conn
        PROVE  /\ UNCHANGED <<now, lastPong[d], wake[d], asking[d], owed[d], prompt[d], stalled[d]>>
               /\ pinger'[d] = "sleeping" => pinger[d] = "sleeping"
               /\ UNCHANGED endpoint[d]
               /\ link'[d] # "closed" => d # c /\ UNCHANGED <<pinger[d], link[d]>>
    BY <2>1 DEF pingVars, HubTypeOK
  <2>4. Watched'
    BY <2>1, <2>3 DEF PingInv, Watched
  <2>5. CheckInTime' /\ HeardInTime'
    BY <2>3, SameClock DEF CheckInTime, HeardInTime
  <2>6. PingsPast'
    BY <2>3, SameClock DEF PingInv, PingsPast
  <2> QED BY <2>2, <2>4, <2>5, <2>6 DEF PingInv
<1>2. CASE ~Silent(c) /\ asking' = [asking EXCEPT ![c] = TRUE] /\ UNCHANGED hubVars
  <2>1. /\ UNCHANGED <<now, lastPong, wake, owed, prompt, stalled>>
        /\ UNCHANGED <<conns, endpoint, pinger, link>>
        /\ Sleeping(c) /\ now >= wake[c]
    BY <1>2 DEF PingerWakes, hubVars
  <2>2. PingTypeOK'
    BY <1>2, <2>1 DEF PingInv, PingTypeOK
  <2>3. Watched'
    BY <2>1 DEF PingInv, Watched
  <2>4. ASSUME NEW d \in Conn, d # c
        PROVE  /\ UNCHANGED <<now, lastPong[d], wake[d], asking[d], owed[d], prompt[d], stalled[d]>>
               /\ pinger'[d] = "sleeping" => pinger[d] = "sleeping"
    BY <1>2, <2>1, <2>4 DEF PingInv, PingTypeOK
  <2>5. /\ asking'[c] /\ UNCHANGED <<now, lastPong[c], wake[c], owed[c], prompt[c], stalled[c]>>
        /\ now \in Nat /\ lastPong[c] \in Nat /\ stalled[c] \in Nat /\ wake[c] \in Nat
    BY <1>2, <2>1 DEF PingInv, PingTypeOK
  <2>6. /\ lastPong[c] <= now
        /\ now <= lastPong[c] + Interval + Timeout + stalled[c]
    <3>1. now <= lastPong[c] + Interval + Timeout
      BY <1>2, <2>5, PingAssumption DEF Silent
    <3> QED BY <3>1, <2>5, PingAssumption DEF PingInv, CheckInTime
  <2>7. CheckInTime'
    BY <2>4, <2>5, <2>6, SameClock DEF CheckInTime, Sleeping
  <2>8. prompt[c] => /\ owed[c] # <<>> => /\ now <= Head(owed[c]) + Answer
                                          /\ Head(owed[c]) <= lastPong[c] + Interval + Late
                     /\ owed[c] = <<>> => now <= lastPong[c] + Interval + Late
    <3>1. prompt[c] /\ owed[c] = <<>> => wake[c] <= lastPong[c] + Interval
      BY <2>1 DEF PingInv, HeardInTime
    <3>2. now <= wake[c] + Late
      BY <2>1 DEF PingInv, CheckInTime
    <3> QED BY <3>1, <3>2, <2>5, PingAssumption DEF PingInv, HeardInTime
  <2>9. HeardInTime'
    BY <2>4, <2>5, <2>8, SameClock DEF HeardInTime, Sleeping
  <2>10. PingsPast'
    <3>1. Past(owed[c], now) /\ (endpoint[c] = "none" => FALSE)
      BY <2>1 DEF PingInv, PingsPast, Sleeping
    <3> QED BY <2>1, <2>4, <2>5, <3>1, SameClock DEF PingInv, PingsPast
  <2> QED BY <2>2, <2>3, <2>7, <2>9, <2>10 DEF PingInv
<1> QED BY <1>1, <1>2 DEF PingerWakes

\* A ping that is out is owed an answer, and the next check is an interval away.
LEMMA SentPings ==
    ASSUME HubTypeOK, PingInv, NEW c \in Conn, PingSent(c)
    PROVE  PingInv'
<1>1. PICK t \in Nat : t = now
  BY DEF PingInv, PingTypeOK
<1>2. PICK q \in Seq(Nat) : q = owed[c]
  BY DEF PingInv, PingTypeOK
<1>3. /\ asking' = [asking EXCEPT ![c] = FALSE] /\ wake' = [wake EXCEPT ![c] = t + Interval]
      /\ owed' = [owed EXCEPT ![c] = Append(q, t)]
      /\ UNCHANGED <<now, lastPong, prompt, stalled, conns, endpoint, pinger, link>>
      /\ pinger[c] = "sleeping" /\ asking[c]
  BY <1>1, <1>2 DEF PingSent, hubVars
<1>4. /\ Append(q, t) \in Seq(Nat) /\ Past(Append(q, t), t)
      /\ Append(q, t) # <<>>
      /\ Head(Append(q, t)) = IF q = <<>> THEN t ELSE Head(q)
  <2>1. Past(q, t)
    BY <1>1, <1>2 DEF PingInv, PingsPast
  <2> QED BY <2>1, PastAppend
<1>5. PingTypeOK'
  BY <1>1, <1>3, <1>4, PingAssumption DEF PingInv, PingTypeOK
<1>6. Watched'
  BY <1>3 DEF PingInv, Watched
<1>7. ASSUME NEW d \in Conn, d # c
      PROVE  /\ UNCHANGED <<now, lastPong[d], wake[d], asking[d], owed[d], prompt[d], stalled[d]>>
             /\ pinger'[d] = "sleeping" => pinger[d] = "sleeping"
  BY <1>3, <1>7 DEF PingInv, PingTypeOK
<1>8. /\ ~asking'[c] /\ now' = t /\ lastPong'[c] = lastPong[c] /\ wake'[c] = t + Interval
      /\ prompt'[c] = prompt[c] /\ stalled'[c] = stalled[c] /\ owed'[c] = Append(q, t)
      /\ lastPong[c] \in Nat /\ stalled[c] \in Nat
  BY <1>1, <1>3 DEF PingInv, PingTypeOK
<1>9. CheckInTime'
  <2>1. lastPong[c] <= t /\ t <= lastPong[c] + Interval + Timeout + stalled[c]
    BY <1>1, <1>3 DEF PingInv, CheckInTime
  <2>2. /\ t <= t + Interval + Late
        /\ t + Interval <= lastPong[c] + 2 * Interval + Timeout + stalled[c]
    <3>1. PICK l \in Nat, s \in Nat : l = lastPong[c] /\ s = stalled[c]
      BY <1>8
    <3>2. t <= l + Interval + Timeout + s
      BY <2>1, <3>1
    <3>3. t + Interval <= l + 2 * Interval + Timeout + s
      BY <3>2, PingAssumption
    <3> QED BY <3>1, <3>3, PingAssumption
  <2>3. /\ lastPong'[c] <= now' /\ now' <= wake'[c] + Late /\ wake'[c] <= now' + Interval
        /\ wake'[c] <= lastPong'[c] + 2 * Interval + Timeout + stalled'[c]
    BY <1>8, <2>1, <2>2, PingAssumption
  <2> QED BY <1>7, <1>8, <2>3, SameClock DEF CheckInTime
<1>10. HeardInTime'
  <2>1. prompt[c] => /\ q # <<>> => /\ t <= Head(q) + Answer
                                    /\ Head(q) <= lastPong[c] + Interval + Late
                     /\ q = <<>> => t <= lastPong[c] + Interval + Late
    BY <1>1, <1>2, <1>3 DEF PingInv, HeardInTime
  <2>2. prompt[c] => /\ t <= Head(Append(q, t)) + Answer
                     /\ Head(Append(q, t)) <= lastPong[c] + Interval + Late
    BY <2>1, <1>4, PingAssumption
  <2> QED BY <1>4, <1>7, <1>8, <2>2, SameClock DEF HeardInTime
<1>11. PingsPast'
  <2>1. endpoint[c] # "none"
    BY <1>3 DEF PingInv, PingsPast
  <2>2. \A d \in Conn : Past(owed'[d], now')
    BY <1>4, <1>7, <1>8, SameClock
  <2>3. \A d \in Conn : endpoint'[d] = "none" => d # c
    BY <1>3, <2>1
  <2> QED BY <1>3, <1>7, <2>2, <2>3 DEF PingInv, PingsPast
<1> QED BY <1>5, <1>6, <1>9, <1>10, <1>11 DEF PingInv

\* Time passes no check that is due by more than Late, and no prompt peer's answer.
LEMMA TickPings == PingInv /\ Tick => PingInv'
<1> SUFFICES ASSUME PingInv, Tick PROVE PingInv'
  OBVIOUS
<1>1. /\ now' = now + 1 /\ now \in Nat
      /\ UNCHANGED <<lastPong, wake, asking, owed, conns, endpoint, pinger, link>>
      /\ prompt' = [c \in Conn |-> /\ prompt[c] /\ ~asking[c]
                                   /\ owed[c] # <<>> => now < Head(owed[c]) + Answer]
      /\ stalled' = [c \in Conn |-> IF asking[c] THEN stalled[c] + 1 ELSE stalled[c]]
      /\ \A c \in Conn : Sleeping(c) => now < wake[c] + Late
  BY DEF Tick, PingInv, PingTypeOK, hubVars
<1>2. PingTypeOK'
  BY <1>1 DEF PingInv, PingTypeOK
<1>3. Watched'
  BY <1>1 DEF PingInv, Watched
<1>4. ASSUME NEW c \in Conn
      PROVE  /\ now \in Nat /\ lastPong[c] \in Nat /\ wake[c] \in Nat /\ stalled[c] \in Nat
             /\ lastPong'[c] = lastPong[c] /\ wake'[c] = wake[c] /\ owed'[c] = owed[c]
             /\ asking'[c] = asking[c] /\ pinger'[c] = pinger[c]
             /\ Sleeping(c)' <=> Sleeping(c)
             /\ stalled'[c] = IF asking[c] THEN stalled[c] + 1 ELSE stalled[c]
             /\ prompt'[c] => /\ prompt[c] /\ ~asking[c]
                              /\ owed[c] # <<>> => now < Head(owed[c]) + Answer
             /\ owed[c] # <<>> => Head(owed[c]) \in Nat
  <2>1. owed[c] \in Seq(Nat)
    BY DEF PingInv, PingTypeOK
  <2>2. owed[c] # <<>> => Head(owed[c]) \in Nat
    BY <2>1
  <2> QED BY <1>1, <2>2 DEF PingInv, PingTypeOK, Sleeping
<1>5. ASSUME NEW c \in Conn
      PROVE  /\ lastPong'[c] <= now'
             /\ Sleeping(c)' =>
                   /\ now' <= wake'[c] + Late /\ wake'[c] <= now' + Interval
                   /\ wake'[c] <= lastPong'[c] + 2 * Interval + Timeout + stalled'[c]
             /\ pinger'[c] = "sleeping" /\ asking'[c] =>
                   now' <= lastPong'[c] + Interval + Timeout + stalled'[c]
  <2>1. lastPong'[c] <= now'
    BY <1>1, <1>4 DEF PingInv, CheckInTime
  <2>2. ASSUME Sleeping(c)
        PROVE  /\ now' <= wake'[c] + Late /\ wake'[c] <= now' + Interval
               /\ wake'[c] <= lastPong'[c] + 2 * Interval + Timeout + stalled'[c]
    <3>1. /\ now < wake[c] + Late /\ wake[c] <= now + Interval
          /\ wake[c] <= lastPong[c] + 2 * Interval + Timeout + stalled[c]
          /\ stalled'[c] = stalled[c]
      BY <1>1, <1>4, <2>2 DEF PingInv, CheckInTime, Sleeping
    <3> QED BY <3>1, <1>1, <1>4, PingAssumption
  <2>3. ASSUME pinger[c] = "sleeping", asking[c]
        PROVE  now' <= lastPong'[c] + Interval + Timeout + stalled'[c]
    <3>1. now <= lastPong[c] + Interval + Timeout + stalled[c]
      BY <2>3 DEF PingInv, CheckInTime
    <3> QED BY <3>1, <2>3, <1>1, <1>4, PingAssumption
  <2> QED BY <2>1, <2>2, <2>3, <1>4
<1>6. CheckInTime'
  BY <1>5 DEF CheckInTime
<1>7. ASSUME NEW c \in Conn, prompt'[c]
      PROVE  /\ owed'[c] # <<>> => /\ now' <= Head(owed'[c]) + Answer
                                   /\ Head(owed'[c]) <= lastPong'[c] + Interval + Late
             /\ owed'[c] = <<>> /\ Sleeping(c)' => wake'[c] <= lastPong'[c] + Interval
             /\ ~asking'[c]
  <2>1. /\ owed[c] # <<>> => /\ now < Head(owed[c]) + Answer
                             /\ Head(owed[c]) <= lastPong[c] + Interval + Late
        /\ owed[c] = <<>> /\ Sleeping(c) => wake[c] <= lastPong[c] + Interval
        /\ ~asking[c]
    BY <1>4, <1>7 DEF PingInv, HeardInTime
  <2>2. ASSUME owed[c] # <<>>, now < Head(owed[c]) + Answer
        PROVE  now + 1 <= Head(owed[c]) + Answer
    BY <2>2, <1>4, PingAssumption
  <2> QED BY <2>1, <2>2, <1>1, <1>4
<1>8. HeardInTime'
  BY <1>7 DEF HeardInTime
<1>9. PingsPast'
  <2>1. ASSUME NEW c \in Conn
        PROVE  Past(owed'[c], now')
    <3>1. PICK q \in Seq(Nat) : q = owed[c]
      BY DEF PingInv, PingTypeOK
    <3>2. PICK t \in Nat : t = now
      BY <1>1
    <3>3. Past(q, t)
      BY <3>1, <3>2 DEF PingInv, PingsPast
    <3>4. Past(q, t + 1)
      <4>1. \A i \in 1 .. Len(q) : q[i] \in Nat
        OBVIOUS
      <4> QED BY <3>3, <4>1 DEF Past
    <3> QED BY <3>1, <3>2, <3>4, <1>1, <1>4
  <2> QED BY <2>1, <1>1, <1>4 DEF PingInv, PingsPast
<1> QED BY <1>2, <1>3, <1>6, <1>8, <1>9 DEF PingInv
-----------------------------------------------------------------------------
\* Every step of the hub with its clock keeps the invariant.
LEMMA StepPingInv == HubTypeOK /\ PingInv /\ [PingNext]_timedVars => PingInv'
<1> SUFFICES ASSUME HubTypeOK, PingInv, [PingNext]_timedVars PROVE PingInv'
  OBVIOUS
<1>1. CASE UNCHANGED timedVars
  <2>1. Calm /\ UNCHANGED pingVars
    BY <1>1 DEF timedVars, hubVars, Calm
  <2> QED BY <2>1, CalmStep
<1>2. CASE Untimed
  <2>1. UNCHANGED pingVars
    BY <1>2 DEF Untimed
  <2> QED BY <1>2, <2>1, UntimedCalm, CalmStep
<1>3. CASE \E c \in Conn : PingFails(c)
  <2>1. PICK c \in Conn : PingFails(c)
    BY <1>3
  <2>2. PingTypeOK' /\ Watched' /\ CheckInTime' /\ HeardInTime' /\ PingsPast'
    <3>1. /\ UNCHANGED pingVars /\ UNCHANGED <<conns, endpoint, link>>
          /\ pinger' = [pinger EXCEPT ![c] = "over"] /\ link[c] = "closed"
      BY <2>1 DEF PingFails, PingerFails
    <3>2. ASSUME NEW d \in Conn
          PROVE  /\ UNCHANGED <<now, lastPong[d], wake[d], asking[d], owed[d], prompt[d], stalled[d]>>
                 /\ pinger'[d] = "sleeping" => pinger[d] = "sleeping"
                 /\ link[d] # "closed" => UNCHANGED pinger[d]
      BY <3>1 DEF pingVars, HubTypeOK
    <3>3. PingTypeOK'
      BY <3>1 DEF PingInv, PingTypeOK, pingVars
    <3>4. Watched'
      BY <3>1, <3>2 DEF PingInv, Watched
    <3>5. CheckInTime' /\ HeardInTime'
      BY <3>2, SameClock DEF CheckInTime, HeardInTime
    <3>6. PingsPast'
      BY <3>1, <3>2, SameClock DEF PingInv, PingsPast
    <3> QED BY <3>3, <3>4, <3>5, <3>6
  <2> QED BY <2>2 DEF PingInv
<1> QED BY <1>1, <1>2, <1>3, ConnectPings, PongPings, WakesPings, SentPings, TickPings DEF PingNext

\* The invariant of the clock, with that of the hub, in every reachable state.
THEOREM PingInvariant == PingSpec => [](PingInv /\ HubTypeOK)
<1>1. PingSpec => []HubTypeOK
  BY PingIsHub, HubTypes, PTL
<1>2. PingSpec => []PingInv
  BY <1>1, InitPingInv, StepPingInv, PTL DEF PingSpec
<1> QED BY <1>1, <1>2, PTL

\* Whoever is silent is found out in bounded time (hub.py:141-160).
THEOREM PingSilentPruned == PingSpec => []SilentPruned
<1>1. PingInv /\ HubTypeOK => SilentPruned
  <2> SUFFICES ASSUME PingInv, HubTypeOK, NEW c \in conns, link[c] # "closed"
               PROVE  now <= lastPong[c] + 2 * Interval + Timeout + Late + stalled[c]
    BY DEF SilentPruned
  <2>1. c \in Conn /\ pinger[c] = "sleeping"
    BY DEF PingInv, Watched, HubTypeOK
  <2>2. now \in Nat /\ lastPong[c] \in Nat /\ wake[c] \in Nat /\ stalled[c] \in Nat
    BY <2>1 DEF PingInv, PingTypeOK
  <2>3. CASE asking[c]
    <3>1. now <= lastPong[c] + Interval + Timeout + stalled[c]
      BY <2>1, <2>3 DEF PingInv, CheckInTime
    <3> QED BY <3>1, <2>2, PingAssumption
  <2>4. CASE ~asking[c]
    <3>1. now <= wake[c] + Late /\ wake[c] <= lastPong[c] + 2 * Interval + Timeout + stalled[c]
      BY <2>1, <2>4 DEF PingInv, CheckInTime, Sleeping
    <3> QED BY <3>1, <2>2, PingAssumption
  <2> QED BY <2>3, <2>4
<1> QED BY <1>1, PingInvariant, PTL

\* A peer that answers in time is never closed (hub.py:153-159).
THEOREM PingPromptNeverClosed == PingSpec => PromptNeverClosed
<1>1. ASSUME PingInv, HubTypeOK, [PingNext]_timedVars,
             NEW c \in Conn, prompt[c], link[c] # "closed", PingerCloses(c)
      PROVE  FALSE
  <2>1. pinger[c] = "sleeping" /\ pinger'[c] = "over" /\ endpoint' = endpoint /\ conns' = conns
        /\ c \in conns /\ link'[c] = "closed" /\ reader' = reader
    BY <1>1 DEF PingerCloses, HubTypeOK
  <2>2. PingerWakes(c) /\ Silent(c)
    <3>1. ~UNCHANGED hubVars
      BY <1>1, <2>1 DEF hubVars
    <3>2. ~Tick /\ ~UNCHANGED timedVars
      BY <3>1 DEF Tick, timedVars
    <3>3. \A d \in Conn : ~Pong(d) /\ ~PingSent(d)
      BY <3>1 DEF Pong, PingSent
    <3>4. \A d \in Conn : ~TimedConnect(d)
      BY <1>1, <2>1 DEF TimedConnect, Connect, HubTypeOK
    <3>5. \A d \in Conn : ~PingFails(d)
      BY <1>1, <2>1 DEF PingFails, PingerFails, HubTypeOK
    <3>6. ~Untimed
      <4>1. \A d \in Conn : ~EndpointEnds(d)
        BY <1>1, <2>1 DEF EndpointEnds, HubTypeOK
      <4>2. \A d \in Conn : ~LinkChanges(d) /\ \A v \in Conv \cup {None} : ~SetFocus(d, v)
        BY <2>1 DEF LinkChanges, SetFocus, tasks
      <4>3. \A d \in Conn : ~ReaderTakes(d) /\ ~ReaderSent(d)
        BY <2>1 DEF ReaderTakes, ReaderSent
      <4>4. \A d \in Conn : ~ReaderFails(d)
        BY <1>1, <2>1 DEF ReaderFails, HubTypeOK
      <4>5. \A kind \in Kind, v \in Conv : ~Emit(kind, v)
        BY <2>1 DEF Emit, tasks
      <4> QED BY <4>1, <4>2, <4>3, <4>4, <4>5 DEF Untimed
    <3>7. PICK d \in Conn : PingerWakes(d)
      BY <1>1, <3>2, <3>3, <3>4, <3>5, <3>6 DEF PingNext
    <3>8. Silent(d) /\ PingerCloses(d)
      BY <3>1, <3>7 DEF PingerWakes
    <3>9. d = c
      BY <1>1, <2>1, <3>8 DEF PingerCloses, HubTypeOK
    <3> QED BY <3>7, <3>8, <3>9
  <2>3. /\ now \in Nat /\ lastPong[c] \in Nat /\ wake[c] \in Nat /\ owed[c] \in Seq(Nat)
        /\ Sleeping(c) /\ now > lastPong[c] + Interval + Timeout
    BY <1>1, <2>2, PingAssumption DEF PingerWakes, Silent, PingInv, PingTypeOK
  <2>4. CASE owed[c] = <<>>
    <3>1. now <= wake[c] + Late /\ wake[c] <= lastPong[c] + Interval
      BY <1>1, <2>3, <2>4 DEF PingInv, CheckInTime, HeardInTime
    <3> QED BY <3>1, <2>3, PingAssumption
  <2>5. CASE owed[c] # <<>>
    <3>1. Head(owed[c]) \in Nat
      BY <2>3, <2>5
    <3>2. now <= Head(owed[c]) + Answer /\ Head(owed[c]) <= lastPong[c] + Interval + Late
      BY <1>1, <2>5 DEF PingInv, HeardInTime
    <3> QED BY <3>1, <3>2, <2>3, AnswerFits
  <2> QED BY <2>4, <2>5
<1>2. PingInv /\ HubTypeOK /\ [PingNext]_timedVars =>
        [\A c \in Conn : prompt[c] /\ link[c] # "closed" => ~PingerCloses(c)]_timedVars
  BY <1>1
<1> QED BY <1>2, PingInvariant, PTL DEF PingSpec, PromptNeverClosed
=============================================================================
