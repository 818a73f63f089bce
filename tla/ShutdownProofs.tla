--------------------------- MODULE ShutdownProofs ---------------------------
(***************************************************************************)
(* Proofs about the shutdown of the process, for any listeners and any     *)
(* work on them: what it never does, and that it comes to its end.         *)
(***************************************************************************)
EXTENDS Shutdown, TLAPS

\* _run returns once its servers are over; after that work is left uncancelled only where
\* a socket is still open.
UnwoundLeavesNothing ==
    /\ main = "unwinding" => \A s \in Server : Over(s)
    /\ main # "gathering" =>
        \A s \in Server : Running(s) = {} \/ phase[s] \in {"serving", "returned"}

\* A server that ends its lifespan has no work left but under force_exit.
ClosingHasNoWork ==
    \A s \in Server : phase[s] = "closing" /\ s \notin forceExit => Running(s) = {}

\* A lifespan begins before its server does anything, and while _run waits, a client is
\* closed by a server that is down and has no work left.
LifespanAround ==
    \A s \in Server :
        /\ http[s] = "none" => phase[s] = "starting"
        /\ http[s] = "closed" /\ main = "gathering" => phase[s] = "down"
        /\ http[s] = "closed" =>
            Running(s) = {} \/ (main # "gathering" /\ phase[s] \in {"serving", "returned"})

\* A signal is for every server, and no server stops serving without one.
SignalledTogether ==
    /\ shouldExit \in {{}, Server}
    /\ \A s \in Server :
        main = "gathering" /\ phase[s] \in {"draining", "closing", "returned", "down"} =>
            shouldExit = Server

\* The inductive invariant.
ShutInv ==
    /\ ShutTypeOK
    /\ UnwoundLeavesNothing
    /\ ClosingHasNoWork
    /\ LifespanAround
    /\ SignalledTogether

\* The invariant holds when _run has installed its handlers.
LEMMA InitShutInv == ShutInit => ShutInv
BY ShutdownAssumption DEF ShutInit, ShutInv, ShutTypeOK, Phase, UnwoundLeavesNothing,
   ClosingHasNoWork, LifespanAround, SignalledTogether, Running

\* Cancelling the work of a server leaves none running.
LEMMA CancelledNotRunning ==
  ASSUME ShutTypeOK, NEW s \in Server
  PROVE  /\ Cancelled(s) \in [Work -> {"none", "running", "cancelled", "ended"}]
         /\ \A w \in Work : Cancelled(s)[w] # "running"
BY DEF ShutTypeOK, Cancelled

\* A signal keeps the invariant, whether or not it forces.
LEMMA SignalKeepsInv == ShutInv /\ Signal => ShutInv'
<1> SUFFICES ASSUME ShutInv, Signal PROVE ShutInv'
  OBVIOUS
<1> USE DEF ShutInv
<1>1. /\ UNCHANGED <<phase, work, http, handlers, main>>
      /\ forceExit' \in {forceExit, Server} /\ shouldExit' \in {shouldExit, Server}
      /\ seenInt' \in {seenInt, seenInt + 1} /\ seenInt < MaxSignals
  BY DEF Signal
<1>2. ShutTypeOK'
  <2>1. seenInt' \in 0 .. MaxSignals
    BY <1>1, ShutdownAssumption DEF ShutTypeOK
  <2> QED BY <1>1, <2>1 DEF ShutTypeOK
<1>3. UnwoundLeavesNothing' /\ LifespanAround'
  BY <1>1 DEF UnwoundLeavesNothing, LifespanAround, Running, Over
<1>4. ClosingHasNoWork'
  BY <1>1 DEF ClosingHasNoWork, Running
<1>5. SignalledTogether'
  BY <1>1 DEF SignalledTogether
<1> QED BY <1>2, <1>3, <1>4, <1>5

\* While _run waits, steps of one server that cancel nothing: its start and its way out.
LEMMA PhaseKeepsInv ==
  ASSUME ShutInv, NEW s \in Server, main = "gathering",
         LifespanStarts(s) \/ Started(s) \/ BindFails(s) \/ Drains(s) \/ Drained(s) \/ LifespanEnds(s)
  PROVE  ShutInv'
<1> USE DEF ShutInv
<1>1. UNCHANGED <<work, shouldExit, forceExit, seenInt, handlers, main>>
  BY DEF LifespanStarts, Started, BindFails, Drains, Drained, LifespanEnds
<1>2. \A t \in Server : Running(t)' = Running(t)
  BY <1>1 DEF Running
<1>3. ShutTypeOK'
  BY <1>1 DEF ShutTypeOK, Phase, Goto, LifespanStarts, Started, BindFails, Drains, Drained, LifespanEnds
<1>4. \A t \in Server \ {s} : phase'[t] = phase[t] /\ http'[t] = http[t]
  BY DEF ShutTypeOK, Goto, LifespanStarts, Started, BindFails, Drains, Drained, LifespanEnds
<1>5. UnwoundLeavesNothing'
  BY <1>1 DEF UnwoundLeavesNothing
<1>6. CASE LifespanStarts(s) \/ Started(s) \/ BindFails(s)
  <2>1. /\ phase[s] = "starting" /\ phase'[s] \in {"starting", "serving", "failing", "returned"}
        /\ http'[s] = "open"
        /\ (phase'[s] = "returned" => s \in shouldExit)
    BY <1>6 DEF ShutTypeOK, Goto, LifespanStarts, Started, BindFails
  <2>2. SignalledTogether'
    BY <1>1, <1>4, <2>1 DEF SignalledTogether
  <2>3. ClosingHasNoWork'
    BY <1>1, <1>2, <1>4, <2>1 DEF ClosingHasNoWork
  <2>4. LifespanAround'
    BY <1>1, <1>2, <1>4, <2>1 DEF LifespanAround
  <2> QED BY <1>3, <1>5, <2>2, <2>3, <2>4
<1>7. CASE Drains(s) \/ Drained(s)
  <2>1. /\ phase[s] \in {"serving", "draining"} /\ phase'[s] \in {"draining", "closing"}
        /\ (phase'[s] = "closing" => Running(s) = {} \/ s \in forceExit)
        /\ http'[s] = http[s]
        /\ s \in shouldExit \/ phase[s] = "draining"
    BY <1>7 DEF ShutTypeOK, Goto, Drains, Drained
  <2>2. http[s] # "closed" /\ http[s] # "none"
    BY <2>1 DEF LifespanAround
  <2>3. SignalledTogether'
    BY <1>1, <1>4, <2>1 DEF SignalledTogether
  <2>4. ClosingHasNoWork'
    BY <1>1, <1>2, <1>4, <2>1 DEF ClosingHasNoWork
  <2>5. LifespanAround'
    BY <1>1, <1>2, <1>4, <2>1, <2>2 DEF LifespanAround
  <2> QED BY <1>3, <1>5, <2>3, <2>4, <2>5
<1>8. CASE LifespanEnds(s)
  <2>1. /\ phase[s] = "closing" /\ phase'[s] = "down"
        /\ http'[s] = http[s] \/ (s \notin forceExit /\ http'[s] = "closed")
    BY <1>8 DEF ShutTypeOK, Goto, LifespanEnds
  <2>2. http[s] # "closed" /\ http[s] # "none" /\ (s \notin forceExit => Running(s) = {})
    BY <2>1 DEF LifespanAround, ClosingHasNoWork
  <2>3. SignalledTogether'
    BY <1>1, <1>4, <2>1 DEF SignalledTogether
  <2>4. ClosingHasNoWork'
    BY <1>1, <1>2, <1>4, <2>1 DEF ClosingHasNoWork
  <2>5. LifespanAround'
    BY <1>1, <1>2, <1>4, <2>1, <2>2 DEF LifespanAround
  <2> QED BY <1>3, <1>5, <2>3, <2>4, <2>5
<1> QED BY <1>6, <1>7, <1>8

\* A lifespan that is cancelled with the rest finds its server's work cancelled, too.
LEMMA LifespanCancelledKeepsInv ==
  ASSUME ShutInv, NEW s \in Server, LifespanCancelled(s)
  PROVE  ShutInv'
<1> USE DEF ShutInv
<1>1. /\ UNCHANGED <<phase, work, shouldExit, forceExit, seenInt, handlers, main>>
      /\ main # "gathering" /\ http' = [http EXCEPT ![s] = "closed"]
      /\ Running(s) = {} \/ phase[s] \in {"serving", "returned"}
  BY DEF LifespanCancelled, UnwoundLeavesNothing
<1>2. ShutTypeOK' /\ SignalledTogether'
  BY <1>1 DEF ShutTypeOK, SignalledTogether
<1>3. UnwoundLeavesNothing' /\ ClosingHasNoWork'
  BY <1>1 DEF UnwoundLeavesNothing, ClosingHasNoWork, Running, Over
<1>4. LifespanAround'
  BY <1>1 DEF LifespanAround, Running, ShutTypeOK
<1> QED BY <1>2, <1>3, <1>4

\* Work comes only to a server whose socket is open, and never starts anew.
LEMMA WorkKeepsInv ==
  ASSUME ShutInv, NEW s \in Server, NEW w \in Work, Arrives(s, w) \/ Ends(s, w) \/ Unwinds(s, w)
  PROVE  ShutInv'
<1> USE DEF ShutInv
<1>1. UNCHANGED <<phase, http, shouldExit, forceExit, seenInt, handlers, main>>
  BY DEF Arrives, Ends, Unwinds
<1>2. ShutTypeOK'
  <2>1. PICK x \in {"running", "ended"} : work' = [work EXCEPT ![s][w] = x]
    BY DEF Arrives, Ends, Unwinds
  <2>2. work' \in [Server -> [Work -> {"none", "running", "cancelled", "ended"}]]
    BY <2>1 DEF ShutTypeOK
  <2> QED BY <1>1, <2>2 DEF ShutTypeOK
<1>3. \A t \in Server : Running(t)' \subseteq Running(t) \/ phase[t] \in {"serving", "returned"}
  BY DEF ShutTypeOK, Arrives, Ends, Unwinds, Running, Accepts
<1>4. UnwoundLeavesNothing'
  BY <1>1, <1>3 DEF UnwoundLeavesNothing, Over
<1>5. ClosingHasNoWork'
  BY <1>1, <1>3 DEF ClosingHasNoWork
<1>6. LifespanAround'
  BY <1>1, <1>3 DEF LifespanAround
<1> QED BY <1>1, <1>2, <1>4, <1>5, <1>6 DEF SignalledTogether

\* The end of the grace period cancels the work of one server.
LEMMA GraceEndsKeepsInv ==
  ASSUME ShutInv, NEW s \in Server, main = "gathering", GraceEnds(s)
  PROVE  ShutInv'
<1> USE DEF ShutInv
<1>1. /\ UNCHANGED <<http, shouldExit, forceExit, seenInt, handlers, main>>
      /\ phase[s] = "draining" /\ phase' = [phase EXCEPT ![s] = "closing"]
      /\ work' = [work EXCEPT ![s] = Cancelled(s)]
  BY DEF GraceEnds, Goto
<1>2. ShutTypeOK'
  BY <1>1, CancelledNotRunning DEF ShutTypeOK, Phase
<1>3. Running(s)' = {} /\ phase'[s] = "closing"
  BY <1>1, CancelledNotRunning DEF ShutTypeOK, Running
<1>4. \A t \in Server \ {s} : Running(t)' = Running(t) /\ phase'[t] = phase[t]
  BY <1>1 DEF ShutTypeOK, Running
<1>5. http[s] # "closed" /\ http[s] # "none" /\ shouldExit = Server
  BY <1>1 DEF LifespanAround, SignalledTogether
<1>6. UnwoundLeavesNothing' /\ SignalledTogether'
  BY <1>1, <1>5 DEF UnwoundLeavesNothing, SignalledTogether
<1>7. ClosingHasNoWork'
  BY <1>1, <1>3, <1>4 DEF ClosingHasNoWork
<1>8. LifespanAround'
  BY <1>1, <1>3, <1>4, <1>5 DEF LifespanAround
<1> QED BY <1>2, <1>6, <1>7, <1>8

\* _run is left, after its servers or by SystemExit: what runs is cancelled.
LEMMA LeavingKeepsInv ==
  ASSUME ShutInv, main = "gathering", RunReturns \/ \E s \in Server : Quits(s)
  PROVE  ShutInv'
<1> USE DEF ShutInv
<1>1. /\ UNCHANGED <<shouldExit, forceExit, seenInt>>
      /\ handlers' \in {"ours", "original"} /\ main' \in {"unwinding", "aborting"}
      /\ work' = [t \in Server |-> Cancelled(t)]
      /\ main' = "unwinding" => \A t \in Server : Over(t)'
      /\ phase' \in [Server -> Phase]
      /\ http' \in [Server -> {"none", "open", "closed"}]
      /\ \A t \in Server : http'[t] = "none" => phase'[t] = "starting"
  <2>1. CASE RunReturns
    BY <2>1 DEF RunReturns, ShutTypeOK, LifespanAround, Over
  <2>2. CASE \E s \in Server : Quits(s)
    BY <2>2 DEF Quits, Goto, ShutTypeOK, Phase, LifespanAround
  <2> QED BY <2>1, <2>2
<1>2. ShutTypeOK'
  BY <1>1, CancelledNotRunning DEF ShutTypeOK
<1>3. \A t \in Server : Running(t)' = {}
  BY <1>1, CancelledNotRunning DEF Running
<1>4. UnwoundLeavesNothing' /\ ClosingHasNoWork' /\ LifespanAround'
  BY <1>1, <1>3 DEF UnwoundLeavesNothing, ClosingHasNoWork, LifespanAround
<1> QED BY <1>1, <1>2, <1>4 DEF SignalledTogether

\* Every step keeps the invariant.
LEMMA NextShutInv == ShutInv /\ [ShutNext]_shutVars => ShutInv'
<1> SUFFICES ASSUME ShutInv, [ShutNext]_shutVars PROVE ShutInv'
  OBVIOUS
<1>1. CASE Signal
  BY <1>1, SignalKeepsInv
<1>2. CASE \E s \in Server : ServerStep(s)
  <2>1. PICK s \in Server : ServerStep(s)
    BY <1>2
  <2>2. CASE LifespanCancelled(s)
    BY <2>2, LifespanCancelledKeepsInv
  <2>3. CASE main = "gathering" /\ GraceEnds(s)
    BY <2>3, GraceEndsKeepsInv
  <2>4. CASE main = "gathering" /\ Quits(s)
    BY <2>4, LeavingKeepsInv
  <2> QED BY <2>1, <2>2, <2>3, <2>4, PhaseKeepsInv DEF ServerStep
<1>3. CASE \E s \in Server, w \in Work : Arrives(s, w) \/ Ends(s, w) \/ Unwinds(s, w)
  BY <1>3, WorkKeepsInv
<1>4. CASE RunReturns
  BY <1>4, LeavingKeepsInv DEF RunReturns
<1>5. CASE Exits \/ RunAborts \/ SignalKills \/ UNCHANGED shutVars
  <2>1. /\ UNCHANGED <<phase, work, http, shouldExit, forceExit, seenInt>>
        /\ handlers' \in {handlers, "original"}
        /\ main' = main \/ (main # "gathering" /\ main' = "exited")
    BY <1>5 DEF Exits, RunAborts, SignalKills, shutVars
  <2> QED BY <2>1 DEF ShutInv, ShutTypeOK, UnwoundLeavesNothing, ClosingHasNoWork, LifespanAround,
             SignalledTogether, Running, Over
<1> QED BY <1>1, <1>2, <1>3, <1>4, <1>5 DEF ShutNext

\* The invariant holds always.
LEMMA ShutInvariant == ShutSpec => []ShutInv
BY InitShutInv, NextShutInv, PTL DEF ShutSpec

\* Type correctness of the shutdown.
THEOREM ShutTypes == ShutSpec => []ShutTypeOK
<1>1. ShutInv => ShutTypeOK
  BY DEF ShutInv
<1> QED BY ShutInvariant, <1>1, PTL

\* Neither listener leaves the other serving alone (app.py:278, 322-323).
THEOREM ShutNeverHalfUp == ShutSpec => []NeverHalfUp
<1>1. ShutInv => NeverHalfUp
  BY DEF ShutInv, SignalledTogether, NeverHalfUp, Over
<1> QED BY ShutInvariant, <1>1, PTL

\* No HTTP client is closed under a handler that was not cancelled, but under one that
\* came in by an open socket while the process leaves (app.py:123, 264).
THEOREM ShutClientOutlivesWork == ShutSpec => []ClientOutlivesWork
<1>1. ShutInv => ClientOutlivesWork
  BY DEF ShutInv, LifespanAround, ClientOutlivesWork
<1> QED BY ShutInvariant, <1>1, PTL
-----------------------------------------------------------------------------
(***************************************************************************)
(* The way to the end.                                                     *)
(***************************************************************************)

\* How many steps of a server are left at most: those of _serve, and those of its lifespan.
PhasesLeft(s) ==
    CASE phase[s] = "starting" -> 4
      [] phase[s] = "serving" -> 3
      [] phase[s] = "draining" -> 2
      [] phase[s] \in {"closing", "failing"} -> 1
      [] phase[s] \in {"returned", "down"} -> 0
StepsLeft(s) ==
    PhasesLeft(s) + (CASE http[s] = "none" -> 2 [] http[s] = "open" -> 1 [] http[s] = "closed" -> 0)

\* No step takes a server back, and each of its own takes it on.
ServersGoOn ==
    \A s \in Server :
        /\ StepsLeft(s)' <= StepsLeft(s)
        /\ ServerStep(s) => StepsLeft(s)' < StepsLeft(s)

\* What StepsLeft is in each place.
LEMMA StepsLeftRange ==
  ASSUME ShutTypeOK, NEW s \in Server
  PROVE  StepsLeft(s) \in 0 .. 6
BY DEF ShutTypeOK, Phase, StepsLeft, PhasesLeft

\* A server that another one's step leaves alone.
LEMMA SameStepsLeft ==
  ASSUME ShutTypeOK, NEW s \in Server, phase'[s] = phase[s], http'[s] = http[s]
  PROVE  StepsLeft(s)' <= StepsLeft(s)
<1>1. StepsLeft(s)' = StepsLeft(s)
  BY DEF StepsLeft, PhasesLeft
<1> QED BY <1>1, StepsLeftRange

\* A server that does something comes nearer to its end, and takes no other back.
LEMMA ServerGoesOn ==
  ASSUME ShutInv, NEW s \in Server, ServerStep(s)
  PROVE  /\ StepsLeft(s)' < StepsLeft(s)
         /\ \A t \in Server : StepsLeft(t)' <= StepsLeft(t)
<1> USE DEF ShutInv
<1>1. \A t \in Server \ {s} : phase'[t] = phase[t] /\ http'[t] = http[t]
  BY DEF ServerStep, ShutTypeOK, Goto, LifespanStarts, Started, BindFails, Quits, Drains, Drained,
     GraceEnds, LifespanEnds, LifespanCancelled
<1>2. \/ phase[s] = "starting" /\ http[s] = "none" /\ phase'[s] = "starting" /\ http'[s] = "open"
      \/ phase[s] = "starting" /\ phase'[s] \in {"serving", "failing", "returned"} /\ http'[s] = http[s]
      \/ phase[s] = "serving" /\ phase'[s] = "draining" /\ http'[s] = http[s]
      \/ phase[s] = "draining" /\ phase'[s] = "closing" /\ http'[s] = http[s]
      \/ /\ phase[s] \in {"failing", "closing"} /\ phase'[s] = "down"
         /\ http'[s] \in {http[s], "closed"} /\ http[s] # "none"
      \/ http[s] = "open" /\ phase'[s] = phase[s] /\ http'[s] = "closed"
  BY DEF ServerStep, ShutTypeOK, Goto, LifespanStarts, Started, BindFails, Quits, Drains, Drained,
     GraceEnds, LifespanEnds, LifespanCancelled, LifespanAround
<1>3. StepsLeft(s)' < StepsLeft(s)
  BY <1>2 DEF StepsLeft, PhasesLeft, ShutTypeOK, Phase
<1>4. ASSUME NEW t \in Server PROVE StepsLeft(t)' <= StepsLeft(t)
  <2>1. CASE t = s
    BY <1>2, <2>1 DEF StepsLeft, PhasesLeft, ShutTypeOK, Phase
  <2>2. CASE t # s
    BY <1>1, <2>2, SameStepsLeft
  <2> QED BY <2>1, <2>2
<1> QED BY <1>3, <1>4

\* However requests and signals come, a server takes at most six steps of its own to its
\* end, and nothing it does once it is told to stop is taken back (app.py:122-133, 314-340).
THEOREM ShutServersGoOn == ShutSpec => [][ServersGoOn]_shutVars
<1>1. ASSUME ShutInv, [ShutNext]_shutVars PROVE [ServersGoOn]_shutVars
  <2>1. \A s \in Server : ServerStep(s) => StepsLeft(s)' < StepsLeft(s)
    BY <1>1, ServerGoesOn
  <2>2. CASE UNCHANGED shutVars
    BY <2>2
  <2>3. ASSUME NEW s \in Server, ServerStep(s) PROVE ServersGoOn
    BY <1>1, <2>1, <2>3, ServerGoesOn DEF ServersGoOn
  <2>4. CASE \/ Signal \/ RunReturns \/ RunAborts \/ Exits \/ SignalKills
             \/ \E s \in Server, w \in Work : Arrives(s, w) \/ Ends(s, w) \/ Unwinds(s, w)
    <3>1. UNCHANGED <<phase, http>>
      BY <2>4 DEF Signal, RunReturns, RunAborts, Exits, SignalKills, Arrives, Ends, Unwinds
    <3>2. \A s \in Server : StepsLeft(s)' <= StepsLeft(s)
      BY <1>1, <3>1, SameStepsLeft DEF ShutInv
    <3> QED BY <2>1, <3>2 DEF ServersGoOn
  <2> QED BY <1>1, <2>2, <2>3, <2>4 DEF ShutNext
<1> QED BY <1>1, ShutInvariant, PTL DEF ShutSpec

\* A signal tells every server.
AllTold == seenInt > 0 => shouldExit = Server

\* What every step does to the signals that have come, to _run, and to a server that is over.
LEMMA StepAllTold ==
  ASSUME ShutInv, AllTold, [ShutNext]_shutVars
  PROVE  /\ AllTold' /\ seenInt <= seenInt' /\ seenInt \in Nat /\ seenInt' \in Nat
         /\ main # "gathering" => main' # "gathering"
         /\ \A s \in Server : Over(s) => Over(s)'
<1>1. seenInt \in Nat
  BY ShutdownAssumption DEF ShutInv, ShutTypeOK
<1>2. CASE Signal
  BY <1>1, <1>2 DEF Signal, AllTold, Over
<1>3. CASE \E s \in Server : ServerStep(s)
  <2>1. PICK s \in Server : ServerStep(s)
    BY <1>3
  <2>2. /\ UNCHANGED <<seenInt, shouldExit>> /\ main' \in {main, "aborting"}
        /\ \A t \in Server \ {s} : phase'[t] = phase[t]
        /\ phase'[s] = phase[s] \/ phase[s] \notin {"returned", "down"}
    BY <2>1 DEF ServerStep, ShutInv, ShutTypeOK, Goto, LifespanStarts, Started, BindFails, Quits,
       Drains, Drained, GraceEnds, LifespanEnds, LifespanCancelled
  <2> QED BY <1>1, <2>2 DEF AllTold, Over
<1>4. CASE \/ RunReturns \/ RunAborts \/ Exits \/ SignalKills \/ UNCHANGED shutVars
           \/ \E s \in Server, w \in Work : Arrives(s, w) \/ Ends(s, w) \/ Unwinds(s, w)
  <2>1. UNCHANGED <<seenInt, shouldExit, phase>> /\ main' \in {main, "unwinding", "exited"}
    BY <1>4 DEF RunReturns, RunAborts, Exits, SignalKills, Arrives, Ends, Unwinds, shutVars
  <2> QED BY <1>1, <2>1 DEF AllTold, Over
<1> QED BY <1>2, <1>3, <1>4 DEF ShutNext

\* Every signal reaches all servers.
LEMMA ShutAllTold == ShutSpec => []AllTold
<1>1. ShutInit => AllTold
  BY DEF ShutInit, AllTold
<1>2. ShutInv /\ AllTold /\ [ShutNext]_shutVars => AllTold'
  BY StepAllTold
<1> QED BY <1>1, <1>2, ShutInvariant, PTL DEF ShutSpec

(***************************************************************************)
(* ENABLED is out of the prover's reach. What the theorems below assume of *)
(* it is what can be read off the actions: that one of them is enabled     *)
(* when its guard holds. That a guard does hold is proved.                 *)
(***************************************************************************)
Guarded(s) ==
    /\ main = "gathering"
    /\ \/ phase[s] = "starting" /\ http[s] \in {"none", "open"}
       \/ phase[s] = "serving" /\ s \in shouldExit
       \/ phase[s] = "draining" /\ Running(s) = {}
       \/ phase[s] = "draining" /\ Running(s) # {}
       \/ phase[s] \in {"closing", "failing"}

GuardsSuffice ==
    /\ \A s \in Server : Guarded(s) => ENABLED <<ServerStep(s)>>_shutVars
    /\ main = "gathering" /\ (\A s \in Server : Over(s)) => ENABLED <<RunReturns>>_shutVars

\* A server that has been told and is up, k steps from its end; one that is nearer, or that
\* is cancelled with the process.
Ending(s, k) == seenInt > 0 /\ main = "gathering" /\ ~Over(s) /\ StepsLeft(s) = k
Nearer(s, k) == seenInt > 0 /\ (main # "gathering" \/ StepsLeft(s) < k)
Advances(s, k) == ShutSpec /\ ServerRuns(s) /\ []GuardsSuffice => (Ending(s, k) ~> Nearer(s, k))

\* While _run waits, a server is over exactly if at most its client is left to close.
LEMMA OverIsNear ==
  ASSUME ShutInv, NEW s \in Server, main = "gathering"
  PROVE  Over(s) <=> StepsLeft(s) < 2
BY DEF ShutInv, ShutTypeOK, Phase, LifespanAround, StepsLeft, PhasesLeft, Over

\* No server hangs: one that is told to stop has a step to take until it is over.
LEMMA ToldIsGuarded ==
  ASSUME ShutInv, AllTold, NEW s \in Server, seenInt > 0, main = "gathering", ~Over(s)
  PROVE  Guarded(s)
BY DEF ShutInv, ShutTypeOK, Phase, LifespanAround, AllTold, Over, Guarded

\* By the fairness of its steps a server comes nearer to its end, whatever its requests do.
LEMMA ServerAdvances == ASSUME NEW s \in Server, NEW k \in 2 .. 6 PROVE Advances(s, k)
<1>0. (ShutInv => StepsLeft(s) \in 0 .. 6 /\ (main = "gathering" => (Over(s) <=> StepsLeft(s) < 2)))'
  <2>1. ShutInv => StepsLeft(s) \in 0 .. 6 /\ (main = "gathering" => (Over(s) <=> StepsLeft(s) < 2))
    BY StepsLeftRange, OverIsNear DEF ShutInv
  <2> QED BY <2>1, PTL
<1>1. ShutInv /\ ShutInv' /\ AllTold /\ Ending(s, k) /\ [ShutNext]_shutVars /\ [ServersGoOn]_shutVars
        => Ending(s, k)' \/ Nearer(s, k)'
  <2> SUFFICES ASSUME ShutInv, ShutInv', AllTold, Ending(s, k), [ShutNext]_shutVars,
                      [ServersGoOn]_shutVars
               PROVE  Ending(s, k)' \/ Nearer(s, k)'
    OBVIOUS
  <2>1. seenInt' > 0
    BY StepAllTold DEF Ending
  <2>2. StepsLeft(s)' <= StepsLeft(s)
    <3>1. CASE ServersGoOn
      BY <3>1 DEF ServersGoOn
    <3>2. CASE UNCHANGED shutVars
      BY <3>2, SameStepsLeft DEF shutVars, ShutInv
    <3> QED BY <3>1, <3>2
  <2>3. StepsLeft(s)' \in 0 .. 6 /\ (main' = "gathering" => (Over(s)' <=> StepsLeft(s)' < 2))
    BY <1>0
  <2> QED BY <2>1, <2>2, <2>3 DEF Ending, Nearer
<1>2. ShutInv /\ AllTold /\ Ending(s, k) /\ [ShutNext]_shutVars /\ [ServersGoOn]_shutVars
        /\ <<ServerStep(s)>>_shutVars => Nearer(s, k)'
  BY StepAllTold DEF ServersGoOn, Ending, Nearer
<1>3. ShutInv /\ GuardsSuffice /\ AllTold => (Ending(s, k) => ENABLED <<ServerStep(s)>>_shutVars)
  BY ToldIsGuarded DEF GuardsSuffice, Ending
<1>4. ShutSpec => [][ShutNext]_shutVars
  BY PTL DEF ShutSpec
<1> QED BY <1>1, <1>2, <1>3, <1>4, ShutServersGoOn, ShutAllTold, ShutInvariant, PTL
       DEF Advances, ServerRuns

\* A server that was told to stop and is over, or cancelled with the process.
Down(s) == seenInt > 0 /\ (main # "gathering" \/ Over(s))

GoesDown(s) == seenInt > 0 ~> Down(s)

\* Told to stop, a server that is run goes down.
LEMMA ServerEnds ==
  ASSUME NEW s \in Server
  PROVE  ShutSpec /\ ServerRuns(s) /\ []GuardsSuffice => GoesDown(s)
<1>1. 2 \in 2 .. 6 /\ 3 \in 2 .. 6 /\ 4 \in 2 .. 6 /\ 5 \in 2 .. 6 /\ 6 \in 2 .. 6
  OBVIOUS
<1>2. Advances(s, 2) /\ Advances(s, 3) /\ Advances(s, 4) /\ Advances(s, 5) /\ Advances(s, 6)
  BY <1>1, ServerAdvances
<1>3. ShutInv => (seenInt > 0 =>
        \/ Down(s) \/ Ending(s, 2) \/ Ending(s, 3) \/ Ending(s, 4) \/ Ending(s, 5) \/ Ending(s, 6))
  BY StepsLeftRange, OverIsNear DEF ShutInv, Ending, Down
<1>4. ShutInv =>
        /\ Nearer(s, 6) => Down(s) \/ Ending(s, 2) \/ Ending(s, 3) \/ Ending(s, 4) \/ Ending(s, 5)
        /\ Nearer(s, 5) => Down(s) \/ Ending(s, 2) \/ Ending(s, 3) \/ Ending(s, 4)
        /\ Nearer(s, 4) => Down(s) \/ Ending(s, 2) \/ Ending(s, 3)
        /\ Nearer(s, 3) => Down(s) \/ Ending(s, 2)
        /\ Nearer(s, 2) => Down(s)
  BY <1>3, OverIsNear DEF ShutInv, Ending, Nearer, Down
<1> QED BY <1>2, <1>3, <1>4, ShutInvariant, PTL DEF Advances, GoesDown

\* The fairness of one server, out of that of all.
LEMMA FairToServer == ASSUME NEW s \in Server PROVE ShutSpec => ServerRuns(s)
<1>1. ServersRun => ServerRuns(s)
  BY DEF ServersRun
<1>2. ShutSpec => ServersRun
  BY PTL DEF ShutSpec, ShutFairness
<1> QED BY <1>1, <1>2

\* Shutdown is bounded (app.py:263-267, tests/test_shutdown.py:1): told to stop, every
\* listener goes down, whenever the signal comes and however silent the upstreams are.
THEOREM ShutServersGoDown == ShutSpec /\ []GuardsSuffice => \A s \in Server : GoesDown(s)
BY FairToServer, ServerEnds

StaysDown(s) == [](Down(s) => []Down(s))

\* What is down stays down.
LEMMA DownForGood == ASSUME NEW s \in Server PROVE ShutSpec => StaysDown(s)
<1>1. ShutInv /\ AllTold /\ Down(s) /\ [ShutNext]_shutVars => Down(s)'
  BY StepAllTold DEF Down
<1> QED BY <1>1, ShutInvariant, ShutAllTold, PTL DEF ShutSpec, StaysDown

\* Told to stop, _run comes to its end with both of its listeners (app.py:283-340).
THEOREM ShutRunReturns ==
  ASSUME NEW llm, NEW ui, Server = {llm, ui}
  PROVE  ShutSpec /\ []GuardsSuffice => (seenInt > 0 ~> main # "gathering")
<1> DEFINE Waits == main = "gathering" /\ Down(llm) /\ Down(ui)
<1>1. llm \in Server /\ ui \in Server
  OBVIOUS
<1>2. ShutSpec /\ []GuardsSuffice => GoesDown(llm) /\ GoesDown(ui)
  BY <1>1, FairToServer, ServerEnds
<1>3. ShutSpec => StaysDown(llm) /\ StaysDown(ui)
  BY <1>1, DownForGood
<1>4. <<RunReturns>>_shutVars => (main # "gathering")'
  BY DEF RunReturns
<1>5. GuardsSuffice => (Waits => ENABLED <<RunReturns>>_shutVars)
  BY DEF GuardsSuffice, Down
<1>6. ShutSpec => WF_shutVars(RunReturns)
  BY PTL DEF ShutSpec, ShutFairness
<1>7. Down(llm) /\ Down(ui) => Waits \/ main # "gathering"
  OBVIOUS
<1> HIDE DEF Waits
<1> QED BY <1>2, <1>3, <1>4, <1>5, <1>6, <1>7, PTL DEF GoesDown, StaysDown
=============================================================================
