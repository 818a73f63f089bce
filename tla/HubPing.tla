------------------------------ MODULE HubPing ------------------------------
(***************************************************************************)
(* The hub with its clock: when the pinger of a connection wakes, asks and *)
(* gives up (_ping_loop, pong and last_pong of llm_proxy/hub.py).          *)
(*                                                                         *)
(* Hub lets the pinger find any peer silent at any time.  Here every       *)
(* connection has the time of its last pong and of its pinger's next       *)
(* check, and the peer answers as soon or as late as it likes.  Time is    *)
(* counted in ticks; the event loop runs a task that is due within Late.   *)
(***************************************************************************)
EXTENDS Hub

CONSTANTS
    Interval,   \* ping_interval
    Timeout,    \* ping_timeout
    Late,       \* how long the event loop may keep a task that is due
    Answer,     \* how long a prompt peer takes to answer a ping
    Horizon     \* bound on the clock

\* A prompt peer is allowed all of the timeout that the event loop leaves it.
ASSUME PingAssumption ==
    /\ Interval \in Nat \ {0} /\ Timeout \in Nat /\ Late \in Nat /\ Answer \in Nat
    /\ Horizon \in Nat
    /\ Answer + Late <= Timeout

VARIABLES
    now,        \* time.time()
    lastPong,   \* _Conn.last_pong
    wake,       \* when the sleep of _ping_loop ends
    asking,     \* is _ping_loop in send_text?
    owed,       \* when each ping was sent that the peer has not answered
    prompt,     \* history: the peer took every ping at once and answered it within Answer
    stalled     \* history: the ticks spent in send_text since the last pong

pingVars == <<now, lastPong, wake, asking, owed, prompt, stalled>>
timedVars == <<hubVars, pingVars>>

PingTypeOK ==
    /\ now \in Nat
    /\ lastPong \in [Conn -> Nat]
    /\ wake \in [Conn -> Nat]
    /\ asking \in [Conn -> BOOLEAN]
    /\ owed \in [Conn -> Seq(Nat)]
    /\ prompt \in [Conn -> BOOLEAN]
    /\ stalled \in [Conn -> Nat]

PingInit ==
    /\ HubInit
    /\ now = 0
    /\ lastPong = [c \in Conn |-> 0]
    /\ wake = [c \in Conn |-> 0]
    /\ asking = [c \in Conn |-> FALSE]
    /\ owed = [c \in Conn |-> <<>>]
    /\ prompt = [c \in Conn |-> TRUE]
    /\ stalled = [c \in Conn |-> 0]
-----------------------------------------------------------------------------
\* The pinger sleeps before its first ping; a new connection counts as just heard.
TimedConnect(c) ==
    /\ Connect(c)
    /\ lastPong' = [lastPong EXCEPT ![c] = now]
    /\ wake' = [wake EXCEPT ![c] = now + Interval]
    /\ UNCHANGED <<now, asking, owed, prompt, stalled>>

\* pong: the peer answers its oldest ping.
Pong(c) ==
    /\ endpoint[c] = "receiving" /\ link[c] = "open" /\ owed[c] # <<>> /\ c \in conns
    /\ owed' = [owed EXCEPT ![c] = Tail(@)]
    /\ lastPong' = [lastPong EXCEPT ![c] = now]
    /\ stalled' = [stalled EXCEPT ![c] = 0]
    /\ UNCHANGED <<hubVars, now, wake, asking, prompt>>

\* Mutant: the interval between two pings is not part of the patience.
SilentAfterTimeout(c) == now - lastPong[c] > Timeout

Silent(c) == now - lastPong[c] > Interval + Timeout

Sleeping(c) == pinger[c] = "sleeping" /\ ~asking[c]

\* The sleep ends: close the socket of a silent peer, ask any other again.
PingerWakes(c) ==
    /\ Sleeping(c) /\ now >= wake[c]
    /\ \/ /\ Silent(c)
          /\ PingerCloses(c)
          /\ UNCHANGED asking
       \/ /\ ~Silent(c) /\ c \in conns
          /\ asking' = [asking EXCEPT ![c] = TRUE]
          /\ UNCHANGED hubVars
    /\ UNCHANGED <<now, lastPong, wake, owed, prompt, stalled>>

\* Mutant: the pinger leaves the peer its timeout before it sleeps.
PingSentPatient(c) ==
    /\ pinger[c] = "sleeping" /\ asking[c] /\ link[c] \in {"open", "half"}
    /\ asking' = [asking EXCEPT ![c] = FALSE]
    /\ wake' = [wake EXCEPT ![c] = now + Timeout + Interval]
    /\ owed' = [owed EXCEPT ![c] = Append(@, now)]
    /\ UNCHANGED <<hubVars, now, lastPong, prompt, stalled>>

\* The ping is out, at once or after any time the socket's full buffer blocks it:
\* send_text has no timeout here. On a half-open socket nobody will answer it.
PingSent(c) ==
    /\ pinger[c] = "sleeping" /\ asking[c] /\ link[c] \in {"open", "half"}
    /\ asking' = [asking EXCEPT ![c] = FALSE]
    /\ wake' = [wake EXCEPT ![c] = now + Interval]
    /\ owed' = [owed EXCEPT ![c] = Append(@, now)]
    /\ UNCHANGED <<hubVars, now, lastPong, prompt, stalled>>

\* send_text raises.
PingFails(c) == asking[c] /\ PingerFails(c) /\ UNCHANGED pingVars

\* Time passes, but a sleep that is over is not kept waiting for longer than Late.
Tick ==
    /\ now < Horizon
    /\ \A c \in Conn : Sleeping(c) => now < wake[c] + Late
    /\ now' = now + 1
    /\ prompt' = [c \in Conn |-> /\ prompt[c] /\ ~asking[c]
                                 /\ owed[c] # <<>> => now < Head(owed[c]) + Answer]
    /\ stalled' = [c \in Conn |-> IF asking[c] THEN stalled[c] + 1 ELSE stalled[c]]
    /\ UNCHANGED <<hubVars, lastPong, wake, asking, owed>>

\* What the clock has no part in: the endpoint, the socket, the reader, emit().
Untimed ==
    /\ \/ \E c \in Conn :
            \/ EndpointEnds(c) \/ LinkChanges(c)
            \/ \E v \in Conv \cup {None} : SetFocus(c, v)
            \/ ReaderTakes(c) \/ ReaderSent(c) \/ ReaderFails(c)
       \/ \E kind \in Kind, v \in Conv : Emit(kind, v)
    /\ UNCHANGED pingVars

PingNext ==
    \/ \E c \in Conn :
        TimedConnect(c) \/ Pong(c) \/ PingerWakes(c) \/ PingSent(c) \/ PingFails(c)
    \/ Tick
    \/ Untimed

PingSpec == PingInit /\ [][PingNext]_timedVars
-----------------------------------------------------------------------------
(***************************************************************************)
(* Properties.                                                             *)
(***************************************************************************)

\* However pings, answers and checks fall together, the pinger never closes the
\* socket of a peer that answers each ping within Answer (hub.py:153-159). The check
\* may fall between a ping and its answer, so the patience has to cover an interval,
\* an answer and a late event loop.
PromptNeverClosed ==
    [][\A c \in Conn : prompt[c] /\ link[c] # "closed" => ~PingerCloses(c)]_timedVars

\* Whoever is silent is found out, a half-open socket too (hub.py:14-18): the socket
\* of a registered connection is closed at most two intervals and a timeout after
\* the last pong, plus the time the event loop was late and the time a ping was
\* stuck in the socket's buffer: nothing bounds that, so of a ping that never gets
\* out this says nothing. (One interval more than hub.py:144-146 says: the check that
\* just passes is followed by a whole interval of sleep.)
SilentPruned ==
    \A c \in conns :
        link[c] # "closed" => now <= lastPong[c] + 2 * Interval + Timeout + Late + stalled[c]

-----------------------------------------------------------------------------
(***************************************************************************)
(* The inductive invariant.                                                *)
(***************************************************************************)

\* A registered connection whose socket is not closed has a pinger that watches it.
Watched ==
    \A c \in Conn : c \in conns /\ link[c] # "closed" => pinger[c] = "sleeping"

\* The next check is in time for SilentPruned.
CheckInTime ==
    \A c \in Conn :
        /\ lastPong[c] <= now
        /\ Sleeping(c) =>
              /\ now <= wake[c] + Late /\ wake[c] <= now + Interval
              /\ wake[c] <= lastPong[c] + 2 * Interval + Timeout + stalled[c]
        /\ pinger[c] = "sleeping" /\ asking[c] =>
              now <= lastPong[c] + Interval + Timeout + stalled[c]

\* A prompt peer was heard since the ping before the oldest that is unanswered.
HeardInTime ==
    \A c \in Conn : prompt[c] =>
        /\ owed[c] # <<>> => /\ now <= Head(owed[c]) + Answer
                             /\ Head(owed[c]) <= lastPong[c] + Interval + Late
        /\ owed[c] = <<>> /\ Sleeping(c) => wake[c] <= lastPong[c] + Interval
        /\ owed[c] = <<>> /\ pinger[c] = "sleeping" /\ asking[c] =>
              now <= lastPong[c] + Interval + Late

\* s holds times in their order, none of them after t.
Past(s, t) ==
    /\ \A i \in 1 .. Len(s) : s[i] <= t
    /\ \A i, j \in 1 .. Len(s) : i <= j => s[i] <= s[j]

\* Pings are owed in the order they were sent in, by connections with a pinger.
PingsPast ==
    \A c \in Conn :
        /\ Past(owed[c], now)
        /\ endpoint[c] = "none" => pinger[c] # "sleeping" /\ ~asking[c] /\ owed[c] = <<>>

PingInv == PingTypeOK /\ Watched /\ CheckInTime /\ HeardInTime /\ PingsPast
=============================================================================
