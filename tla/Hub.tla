-------------------------------- MODULE Hub --------------------------------
(***************************************************************************)
(* The WebSocket hub: the fan-out of the pipeline's events to the live UIs *)
(* (llm_proxy/hub.py, and the endpoint of llm_proxy/app.py that drives it). *)
(*                                                                         *)
(* Each connection has three tasks: the endpoint receives from the socket, *)
(* the reader drains the connection's queue into it, the pinger watches    *)
(* that the peer answers.  emit() is called by the pipeline, between two   *)
(* awaits, and never waits.  The time a peer is silent is not counted      *)
(* here: the pinger may find any peer silent for too long.                 *)
(***************************************************************************)
EXTENDS Integers, Sequences

CONSTANTS
    Conn,       \* sockets; a UI that reconnects is another one
    Conv,       \* conversation ids
    QueueSize,  \* queue_size
    MaxEmits,   \* bound on the events of the pipeline
    None        \* Python's None

\* exchange_started and exchange_completed are emitted for the dock, too.
Kind == {"client_seen", "exchange", "delta"}
\* n numbers the call of emit() the message comes from; it is the event itself or
\* an activity ping.
Message == [n : Nat, full : BOOLEAN]

ASSUME HubAssumption ==
    /\ QueueSize \in Nat \ {0}
    /\ MaxEmits \in Nat
    /\ None \notin Conv

VARIABLES
    endpoint,   \* ws_endpoint: "none", "receiving", "over"
    link,       \* the socket: "none", "open", "half" (the peer is gone unnoticed), "closed"
    conns,      \* keys of _conns
    focus,      \* _Conn.focus
    queue,      \* _Conn.queue
    reader,     \* _drain: "none", "waiting", "sending", "over"
    hand,       \* the message _drain is sending, as a sequence
    pinger,     \* _ping_loop: "none", "sleeping", "over"
    emitted,    \* the number of calls of emit()
    addressed,  \* history: every message enqueue() was called with
    received    \* history: what the socket has taken for the peer

hubVars == <<endpoint, link, conns, focus, queue, reader, hand, pinger,
             emitted, addressed, received>>
tasks == <<endpoint, reader, pinger>>
feeds == <<queue, hand, addressed, received>>

HubTypeOK ==
    /\ endpoint \in [Conn -> {"none", "receiving", "over"}]
    /\ link \in [Conn -> {"none", "open", "half", "closed"}]
    /\ conns \in SUBSET Conn
    /\ focus \in [Conn -> Conv \cup {None}]
    /\ queue \in [Conn -> Seq(Message)]
    /\ \A c \in Conn : Len(queue[c]) <= QueueSize
    /\ reader \in [Conn -> {"none", "waiting", "sending", "over"}]
    /\ hand \in [Conn -> Seq(Message)]
    /\ pinger \in [Conn -> {"none", "sleeping", "over"}]
    /\ emitted \in Nat
    /\ addressed \in [Conn -> Seq(Message)]
    /\ received \in [Conn -> Seq(Message)]

HubInit ==
    /\ endpoint = [c \in Conn |-> "none"]
    /\ link = [c \in Conn |-> "none"]
    /\ conns = {}
    /\ focus = [c \in Conn |-> None]
    /\ queue = [c \in Conn |-> <<>>]
    /\ reader = [c \in Conn |-> "none"]
    /\ hand = [c \in Conn |-> <<>>]
    /\ pinger = [c \in Conn |-> "none"]
    /\ emitted = 0
    /\ addressed = [c \in Conn |-> <<>>]
    /\ received = [c \in Conn |-> <<>>]
-----------------------------------------------------------------------------
\* connect: accept, register, start the reader and the pinger.
Connect(c) ==
    /\ endpoint[c] = "none"
    /\ endpoint' = [endpoint EXCEPT ![c] = "receiving"]
    /\ link' = [link EXCEPT ![c] = "open"]
    /\ conns' = conns \cup {c}
    /\ reader' = [reader EXCEPT ![c] = "waiting"]
    /\ pinger' = [pinger EXCEPT ![c] = "sleeping"]
    /\ UNCHANGED <<focus, emitted, feeds>>

\* subscribe and unsub: without effect on a connection that was dropped.
SetFocus(c, v) ==
    /\ endpoint[c] = "receiving" /\ link[c] = "open"
    /\ c \in conns
    /\ focus' = [focus EXCEPT ![c] = v]
    /\ UNCHANGED <<link, conns, emitted, tasks, feeds>>

\* Mutant: only the pinger is cancelled.
DisconnectPinger(c) ==
    /\ conns' = conns \ {c}
    /\ pinger' = [pinger EXCEPT ![c] = "over"]
    /\ UNCHANGED <<reader, hand>>

\* disconnect: deregister, cancel both tasks, each of which ends where it awaits.
Disconnect(c) ==
    /\ conns' = conns \ {c}
    /\ reader' = [reader EXCEPT ![c] = "over"]
    /\ hand' = [hand EXCEPT ![c] = <<>>]
    /\ pinger' = [pinger EXCEPT ![c] = "over"]

\* The receive loop raises: the socket is closed, or a message was no JSON object.
EndpointEnds(c) ==
    /\ endpoint[c] = "receiving" /\ link[c] \in {"open", "closed"}
    /\ endpoint' = [endpoint EXCEPT ![c] = "over"]
    /\ link' = [link EXCEPT ![c] = "closed"]
    /\ Disconnect(c)
    /\ UNCHANGED <<focus, queue, emitted, addressed, received>>

\* The peer or the network closes the socket, or the peer vanishes without a FIN.
LinkChanges(c) ==
    /\ \/ link[c] = "open" /\ link' = [link EXCEPT ![c] = "half"]
       \/ link[c] \in {"open", "half"} /\ link' = [link EXCEPT ![c] = "closed"]
    /\ UNCHANGED <<conns, focus, emitted, tasks, feeds>>
-----------------------------------------------------------------------------
\* Mutants: no bound; the newest message is dropped; room is made too early.
EnqueuedAlways(q, m) == Append(q, m)
EnqueuedIfRoom(q, m) == IF Len(q) = QueueSize THEN q ELSE Append(q, m)
EnqueuedEarly(q, m) == Append(IF Len(q) >= QueueSize - 1 /\ q # <<>> THEN Tail(q) ELSE q, m)

\* On overflow the oldest message makes room, so the freshest win.
Enqueued(q, m) == Append(IF Len(q) = QueueSize THEN Tail(q) ELSE q, m)

\* What emit() enqueues for c: the event itself, an activity ping, or nothing.
Told(c, kind, v) ==
    LET full == kind = "client_seen" \/ focus[c] = v IN
    IF c \in conns /\ (full \/ kind = "exchange")
    THEN <<[n |-> emitted + 1, full |-> full]>>
    ELSE <<>>

Emit(kind, v) ==
    /\ emitted < MaxEmits
    /\ emitted' = emitted + 1
    /\ addressed' = [c \in Conn |-> addressed[c] \o Told(c, kind, v)]
    /\ queue' = [c \in Conn |-> IF Told(c, kind, v) = <<>> THEN queue[c]
                                ELSE Enqueued(queue[c], Head(Told(c, kind, v)))]
    /\ UNCHANGED <<link, conns, focus, tasks, hand, received>>

\* Mutant: the message stays in the queue while it is sent.
ReaderPeeks(c) ==
    /\ reader[c] = "waiting" /\ queue[c] # <<>>
    /\ reader' = [reader EXCEPT ![c] = "sending"]
    /\ hand' = [hand EXCEPT ![c] = <<Head(queue[c])>>]
    /\ UNCHANGED <<endpoint, link, conns, focus, queue, pinger, emitted, addressed, received>>

\* The reader takes the oldest message and starts sending it.
ReaderTakes(c) ==
    /\ reader[c] = "waiting" /\ queue[c] # <<>>
    /\ reader' = [reader EXCEPT ![c] = "sending"]
    /\ hand' = [hand EXCEPT ![c] = <<Head(queue[c])>>]
    /\ queue' = [queue EXCEPT ![c] = Tail(@)]
    /\ UNCHANGED <<endpoint, link, conns, focus, pinger, emitted, addressed, received>>

\* The send returns; what a half-open socket took is lost.
ReaderSent(c) ==
    /\ reader[c] = "sending" /\ link[c] \in {"open", "half"}
    /\ reader' = [reader EXCEPT ![c] = "waiting"]
    /\ hand' = [hand EXCEPT ![c] = <<>>]
    /\ received' = [received EXCEPT ![c] = IF link[c] = "open" THEN @ \o hand[c] ELSE @]
    /\ UNCHANGED <<endpoint, link, conns, focus, queue, pinger, emitted, addressed>>

\* The send raises, or takes longer than _send_timeout (and the peer may yet get the
\* message): the reader ends, cancels the pinger and deregisters the connection.
ReaderFails(c) ==
    /\ reader[c] = "sending"
    /\ reader' = [reader EXCEPT ![c] = "over"]
    /\ hand' = [hand EXCEPT ![c] = <<>>]
    /\ pinger' = [pinger EXCEPT ![c] = "over"]
    /\ conns' = conns \ {c}
    /\ \/ UNCHANGED received
       \/ link[c] = "open" /\ received' = [received EXCEPT ![c] = @ \o hand[c]]
    /\ UNCHANGED <<endpoint, link, focus, queue, emitted, addressed>>

\* The pinger finds the peer silent for too long and closes the socket. A pinger
\* that sleeps is that of a registered connection: see TasksMatchRegistry.
PingerCloses(c) ==
    /\ pinger[c] = "sleeping" /\ c \in conns
    /\ pinger' = [pinger EXCEPT ![c] = "over"]
    /\ link' = [link EXCEPT ![c] = "closed"]
    /\ UNCHANGED <<endpoint, conns, focus, reader, emitted, feeds>>

\* Sending the ping raises.
PingerFails(c) ==
    /\ pinger[c] = "sleeping" /\ link[c] = "closed"
    /\ pinger' = [pinger EXCEPT ![c] = "over"]
    /\ UNCHANGED <<endpoint, link, conns, focus, reader, emitted, feeds>>

HubNext ==
    \/ \E c \in Conn :
        \/ Connect(c) \/ EndpointEnds(c) \/ LinkChanges(c)
        \/ \E v \in Conv \cup {None} : SetFocus(c, v)
        \/ ReaderTakes(c) \/ ReaderSent(c) \/ ReaderFails(c)
        \/ PingerCloses(c) \/ PingerFails(c)
    \/ \E kind \in Kind, v \in Conv : Emit(kind, v)

HubSpec == HubInit /\ [][HubNext]_hubVars
-----------------------------------------------------------------------------
(***************************************************************************)
(* Properties.                                                             *)
(***************************************************************************)

\* What the hub holds or has delivered for a connection, oldest first.
Feed(c) == received[c] \o hand[c] \o queue[c]

\* "freshest wins" (hub.py:7-8, 45-52): the queue of a connection always holds the
\* last messages addressed to it, whatever was dropped before them.
FreshestWins ==
    \A c \in Conn :
        /\ Len(queue[c]) <= Len(addressed[c])
        /\ \A i \in 1 .. Len(queue[c]) :
              queue[c][i] = addressed[c][Len(addressed[c]) - Len(queue[c]) + i]

\* A peer gets its messages in the order they were emitted in, none of them twice,
\* even when messages between them were dropped.
InOrder ==
    \A c \in Conn : \A i, j \in DOMAIN Feed(c) : i < j => Feed(c)[i].n < Feed(c)[j].n

\* On a socket that works nothing is lost but by overflow: as long as no more was
\* addressed to a connection than its queue holds, all of it gets there.
LostByOverflow ==
    \A c \in conns : link[c] = "open" /\ Len(addressed[c]) <= QueueSize => Feed(c) = addressed[c]

\* The registry and the tasks agree: a registered connection has an endpoint that
\* receives and a reader that drains it, and when the endpoint or the reader is
\* over, nothing is registered and no task is left behind.
TasksMatchRegistry ==
    \A c \in Conn :
        /\ c \in conns => endpoint[c] = "receiving" /\ reader[c] \in {"waiting", "sending"}
        /\ endpoint[c] = "over" => reader[c] = "over"
        /\ reader[c] = "over" => c \notin conns /\ pinger[c] = "over"
-----------------------------------------------------------------------------
(***************************************************************************)
(* What the documentation says and the code does not do.                   *)
(***************************************************************************)

\* "a slow or wedged UI subscriber drops its *oldest* buffered events (freshest
\* wins)" (hub.py:7-8): a socket that is open and received from is one that gets
\* events.
OpenMeansServed ==
    \A c \in Conn : endpoint[c] = "receiving" /\ link[c] = "open" => c \in conns
=============================================================================
