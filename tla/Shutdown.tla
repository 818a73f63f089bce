------------------------------ MODULE Shutdown ------------------------------
(***************************************************************************)
(* The life of the process (_run and the lifespan of llm_proxy/app.py):    *)
(* two servers in one event loop, ended by one signal handler.             *)
(*                                                                         *)
(* A server is uvicorn's, driven by _serve: it starts the app's lifespan,  *)
(* binds, serves until should_exit, then accepts nothing any more and      *)
(* waits for its work - for SHUTDOWN_GRACE seconds at most, or not at all  *)
(* under force_exit - before it ends the lifespan.  What is still running  *)
(* when _run returns is cancelled by asyncio.run, which waits for it.  A   *)
(* port that is taken is a SystemExit in the task of that server: it       *)
(* leaves the loop, all that runs is cancelled, _run's wait included, and  *)
(* nothing is waited for.  The upstream may never answer, so work need not *)
(* end by itself.                                                          *)
(***************************************************************************)
EXTENDS Integers, FiniteSets

CONSTANTS
    Server,     \* the listeners
    Work,       \* requests and WebSockets, of each server
    MaxSignals  \* bound on the signals

ASSUME ShutdownAssumption == IsFiniteSet(Server) /\ MaxSignals \in Nat

VARIABLES
    phase,      \* where the server's _serve is
    work,       \* the tasks of each server
    http,       \* the HTTP client that each server's lifespan has built
    shouldExit, \* the servers with should_exit
    forceExit,  \* the servers with force_exit
    seenInt,    \* seen_int
    handlers,   \* who handles SIGINT and SIGTERM
    main        \* _run, then asyncio.run around it

shutVars == <<phase, work, http, shouldExit, forceExit, seenInt, handlers, main>>

\* failing: the port is taken.  returned: _serve came back before it served, its sockets
\* are open.
Phase == {"starting", "serving", "draining", "closing", "failing", "returned", "down"}

ShutTypeOK ==
    /\ phase \in [Server -> Phase]
    /\ work \in [Server -> [Work -> {"none", "running", "cancelled", "ended"}]]
    /\ http \in [Server -> {"none", "open", "closed"}]
    /\ shouldExit \subseteq Server /\ forceExit \subseteq Server
    /\ seenInt \in 0 .. MaxSignals
    /\ handlers \in {"ours", "original"}
    /\ main \in {"gathering", "unwinding", "aborting", "exited"}

\* The handlers are installed before either server starts.
ShutInit ==
    /\ phase = [s \in Server |-> "starting"]
    /\ work = [s \in Server |-> [w \in Work |-> "none"]]
    /\ http = [s \in Server |-> "none"]
    /\ shouldExit = {} /\ forceExit = {} /\ seenInt = 0
    /\ handlers = "ours"
    /\ main = "gathering"

Running(s) == {w \in Work : work[s][w] = "running"}
Cancelled(s) == [w \in Work |-> IF work[s][w] = "running" THEN "cancelled" ELSE work[s][w]]
Goto(s, place) == phase' = [phase EXCEPT ![s] = place]
Over(s) == phase[s] \in {"returned", "down"}
\* Only Server.shutdown closes the sockets.
Accepts(s) == phase[s] \in {"serving", "returned"} /\ main # "exited"
-----------------------------------------------------------------------------
(***************************************************************************)
(* Signals.                                                                *)
(***************************************************************************)

\* `signum is signal.SIGINT`: the interpreter calls the handler with a plain int, and
\* signal.SIGINT is a member of an enum - equal to it, never the same object.
IsSigint == FALSE

\* Mutant: only the first server is told.
SignalOne ==
    /\ handlers = "ours" /\ seenInt < MaxSignals
    /\ seenInt' = seenInt + 1
    /\ \E s \in Server : shouldExit' = {s}
    /\ UNCHANGED <<phase, work, http, forceExit, handlers, main>>

\* _on_signal, for SIGINT and SIGTERM.
Signal ==
    /\ handlers = "ours"
    /\ seenInt < MaxSignals
    /\ IF IsSigint /\ seenInt >= 1
       THEN forceExit' = Server /\ UNCHANGED <<seenInt, shouldExit>>
       ELSE seenInt' = seenInt + 1 /\ shouldExit' = Server /\ UNCHANGED forceExit
    /\ UNCHANGED <<phase, work, http, handlers, main>>
-----------------------------------------------------------------------------
(***************************************************************************)
(* A server.                                                               *)
(***************************************************************************)

\* The lifespan builds the HTTP client.
LifespanStarts(s) ==
    /\ phase[s] = "starting" /\ http[s] = "none"
    /\ http' = [http EXCEPT ![s] = "open"]
    /\ UNCHANGED <<phase, work, shouldExit, forceExit, seenInt, handlers, main>>

\* The port is bound. Signalled before that, _serve returns, and ends nothing.
Started(s) ==
    /\ phase[s] = "starting" /\ http[s] = "open"
    /\ Goto(s, IF s \in shouldExit THEN "returned" ELSE "serving")
    /\ UNCHANGED <<work, http, shouldExit, forceExit, seenInt, handlers, main>>

\* The port is taken: the lifespan is told to end, and waited for.
BindFails(s) ==
    /\ phase[s] = "starting" /\ http[s] = "open"
    /\ Goto(s, "failing")
    /\ UNCHANGED <<work, http, shouldExit, forceExit, seenInt, handlers, main>>

\* SystemExit: it is out of the loop before anybody else runs, and asyncio.run cancels
\* every task.  The other server's _serve is one of them; that closes no socket.
Quits(s) ==
    /\ phase[s] = "failing"
    /\ Goto(s, "down")
    /\ http' = [http EXCEPT ![s] = "closed"]
    /\ work' = [t \in Server |-> Cancelled(t)]
    /\ main' = "aborting"
    /\ UNCHANGED <<shouldExit, forceExit, seenInt, handlers>>

Arrives(s, w) ==
    /\ Accepts(s) /\ work[s][w] = "none"
    /\ work' = [work EXCEPT ![s][w] = "running"]
    /\ UNCHANGED <<phase, http, shouldExit, forceExit, seenInt, handlers, main>>

\* The upstream has answered, or the client has left.
Ends(s, w) ==
    /\ work[s][w] = "running" /\ main # "exited"
    /\ work' = [work EXCEPT ![s][w] = "ended"]
    /\ UNCHANGED <<phase, http, shouldExit, forceExit, seenInt, handlers, main>>

\* A cancelled task runs its handlers and finally clauses to their end.
Unwinds(s, w) ==
    /\ work[s][w] = "cancelled" /\ main # "exited"
    /\ work' = [work EXCEPT ![s][w] = "ended"]
    /\ UNCHANGED <<phase, http, shouldExit, forceExit, seenInt, handlers, main>>

Drains(s) ==
    /\ phase[s] = "serving" /\ s \in shouldExit
    /\ Goto(s, "draining")
    /\ UNCHANGED <<work, http, shouldExit, forceExit, seenInt, handlers, main>>

Drained(s) ==
    /\ phase[s] = "draining"
    /\ Running(s) = {} \/ s \in forceExit
    /\ Goto(s, "closing")
    /\ UNCHANGED <<work, http, shouldExit, forceExit, seenInt, handlers, main>>

\* Mutants: timeout_graceful_shutdown is not given, as it once was not
\* (tests/test_shutdown.py:5-6); past it, the work is left alone.
GraceNeverEnds(s) == FALSE /\ UNCHANGED shutVars
GraceEndsCancelsNothing(s) ==
    /\ phase[s] = "draining" /\ Running(s) # {}
    /\ Goto(s, "closing")
    /\ UNCHANGED <<work, http, shouldExit, forceExit, seenInt, handlers, main>>

\* SHUTDOWN_GRACE is over: what still runs is cancelled, and not waited for.
GraceEnds(s) ==
    /\ phase[s] = "draining" /\ Running(s) # {}
    /\ work' = [work EXCEPT ![s] = Cancelled(s)]
    /\ Goto(s, "closing")
    /\ UNCHANGED <<http, shouldExit, forceExit, seenInt, handlers, main>>

\* The lifespan closes the HTTP client, and _serve returns.
LifespanEnds(s) ==
    /\ phase[s] = "closing"
    /\ http' = IF s \in forceExit THEN http ELSE [http EXCEPT ![s] = "closed"]
    /\ Goto(s, "down")
    /\ UNCHANGED <<work, shouldExit, forceExit, seenInt, handlers, main>>
-----------------------------------------------------------------------------
(***************************************************************************)
(* The process.                                                            *)
(***************************************************************************)

\* gather returns, the original handlers are restored, and asyncio.run cancels the rest.
RunReturns ==
    /\ main = "gathering" /\ \A s \in Server : Over(s)
    /\ handlers' = "original"
    /\ work' = [s \in Server |-> Cancelled(s)]
    /\ main' = "unwinding"
    /\ UNCHANGED <<phase, http, shouldExit, forceExit, seenInt>>

\* A lifespan that was not ended is cancelled, too; its finally closes the client.
LifespanCancelled(s) ==
    /\ main \in {"unwinding", "aborting"} /\ http[s] = "open"
    /\ http' = [http EXCEPT ![s] = "closed"]
    /\ UNCHANGED <<phase, work, shouldExit, forceExit, seenInt, handlers, main>>

\* asyncio.run has waited for every task it had cancelled; what came later is dropped.
Exits ==
    /\ main = "unwinding"
    /\ \A s \in Server : http[s] # "open" /\ \A w \in Work : work[s][w] # "cancelled"
    /\ main' = "exited"
    /\ UNCHANGED <<phase, work, http, shouldExit, forceExit, seenInt, handlers>>

\* The loop was entered again to cancel the tasks. _run's finally restores the handlers,
\* and the SystemExit it got from gather leaves the loop a second time and for good, with
\* the other tasks as far as they have come.
RunAborts ==
    /\ main = "aborting"
    /\ handlers' = "original"
    /\ main' = "exited"
    /\ UNCHANGED <<phase, work, http, shouldExit, forceExit, seenInt>>

\* The original handlers do what they always do: the process ends, whatever still unwinds.
SignalKills ==
    /\ handlers = "original" /\ main = "unwinding"
    /\ main' = "exited"
    /\ UNCHANGED <<phase, work, http, shouldExit, forceExit, seenInt, handlers>>

\* What the event loop and the clock do by themselves.
ServerStep(s) ==
    \/ /\ main = "gathering"
       /\ \/ LifespanStarts(s) \/ Started(s) \/ BindFails(s) \/ Quits(s)
          \/ Drains(s) \/ Drained(s) \/ GraceEnds(s) \/ LifespanEnds(s)
    \/ LifespanCancelled(s)

ShutNext ==
    \/ Signal
    \/ \E s \in Server : ServerStep(s) \/ \E w \in Work : Arrives(s, w) \/ Ends(s, w) \/ Unwinds(s, w)
    \/ RunReturns \/ RunAborts \/ Exits \/ SignalKills

\* The event loop runs, the grace period passes, cancelled tasks come to their end.
\* Nothing is assumed of clients and of the upstream.
ServerRuns(s) == WF_shutVars(ServerStep(s))
WorkEnds(s, w) == WF_shutVars(Unwinds(s, w))
ServersRun == \A s \in Server : ServerRuns(s) /\ \A w \in Work : WorkEnds(s, w)
ShutFairness ==
    /\ ServersRun
    /\ WF_shutVars(RunReturns) /\ WF_shutVars(RunAborts) /\ WF_shutVars(Exits)

ShutSpec == ShutInit /\ [][ShutNext]_shutVars /\ ShutFairness
-----------------------------------------------------------------------------
(***************************************************************************)
(* Properties.                                                             *)
(***************************************************************************)

\* Shutdown is bounded "even with a request stuck in flight" (tests/test_shutdown.py:1):
\* whenever the signal comes, and however silent the upstream is, the process exits.
Stops == seenInt > 0 ~> main = "exited"

\* Neither listener leaves the other serving alone (app.py:278).
NeverHalfUp ==
    \A s, t \in Server :
        main = "gathering" /\ (phase[s] = "closing" \/ Over(s)) => t \in shouldExit

\* The client a handler forwards with is closed only once that handler has ended or is
\* being cancelled (app.py:123, 264).  The one exception: while the process leaves, a
\* socket that nobody has closed may still let a request in.
ClientOutlivesWork ==
    \A s \in Server : http[s] = "closed" /\ Running(s) # {} =>
        main # "gathering" /\ phase[s] \in {"serving", "returned"}
=============================================================================
