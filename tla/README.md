# Verification of llm-mitm-proxy

TLA+ models of the proxy in `src/`, the TLC configurations that check them on
small instances, and TLAPS proofs of what holds for every instance. Every
definition is translated from the Python source; `PROJECT.json` maps each one to
its lines.

## The system

A single asyncio event loop runs two listeners. One forwards every request of
an LLM client to one upstream and keeps a copy of the exchange; the other
serves a web UI with a REST API and a WebSocket that shows the exchanges live.

| Component | State | Operations | Talks to |
|---|---|---|---|
| `MemoryStore` (`store/memory.py`) | clients, conversations, `_inflight`, `_inflight_cids`, `_removed` | begin, add, clear, remove exchange, remove client | called by pipeline and REST API |
| `Conversation` (`model/conversation.py`) | the ring of exchanges, next sequence | append with eviction by count and age, remove | part of the store |
| `Pipeline` (`proxy/pipeline.py`) | one handler per request | handle, replay, forward, drain, stream, capture | store, hub, upstream, dissectors |
| REST API (`api/ui.py`) | none | list, read, remove, clear, replay, export | store, pipeline |
| `Hub` (`hub.py`) | connections, focus, queues, two tasks per connection | connect, focus, emit, drain, ping, disconnect | called by pipeline and endpoint |
| WebSocket endpoint (`app.py`) | the receive loop | subscribe, unsub, pong | hub |
| Web UI (`ui/app.js`) | focus, cards, live buffers | select, remove, replay, reconnect | REST API, WebSocket |
| SSE accumulator (`proxy/sse.py`) | buffer, parts | feed, reassemble | held by the OpenAI dissector |
| Dissectors, dump, JSON helper | none | pure functions | pipeline, REST API |
| Listeners and signals (`app.py`) | two servers, `seen_int` | start, signal, grace period | everything |

What is hard: a handler awaits the upstream for minutes while the UI removes,
clears or replays what it is working on and the ring evicts it; the client may
leave at any await; three tasks end a WebSocket connection independently; the
UI mixes REST snapshots with live events. Nothing is persisted: a restart
begins with an empty store, so there is no recovery to model. The full list,
line by line, is under "hazards" in `PROJECT.json`.

What makes each component correct:

- store: an exchange is in one ring at most once; a pending one is always
  finalized by its running call; rings are bounded and ordered by age;
- pipeline: it calls `add_exchange` once per exchange; its events come in order
  and agree with what REST lists and with what the caller was answered; every
  exchange settles;
- hub: the freshest messages win, in order; nothing is lost but by overflow; no
  task and no registration outlives the other; who answers pings stays, who is
  silent is pruned;
- UI: once nothing is under way, the page shows what the store has; a button
  acts on the exchange of its card;
- SSE: what is reassembled does not depend on how the stream is cut;
- process: it stops when it is told to, both listeners together, and closes
  nothing under work that runs.

## Modules

| Module | What it is |
|---|---|
| `ExchangeLedger` | abstract: what a reader of the REST API sees of each exchange |
| `MemoryStore` | the store with the rings of its conversations; implements `ExchangeLedger` |
| `Pipeline` | the handlers, over `MemoryStore`, from await to await; built from the actions of `MemoryStore` |
| `Hub` | queues, focus, reader, pinger and endpoint of each connection |
| `HubPing` | `Hub` with the clock of the pinger; built from the actions of `Hub` |
| `Ui` | the page: cards, focus and requests, over the socket and REST, with a server of its own that refines `ExchangeLedger` |
| `Sse` | the tap on a streamed answer, for every way to cut it |
| `Shutdown` | the life of the process: two servers, signals, the grace period |
| `MemoryStoreProofs`, `PipelineProofs`, `HubProofs`, `HubPingProofs`, `UiProofs`, `UiSyncProofs`, `SseProofs`, `ShutdownProofs` | the proofs about each |
| `MCMemoryStore`, `MCPipeline`, `MCHub`, `MCHubPing`, `MCUi`, `MCSse`, `MCShutdown` | instances for TLC |

`Pipeline` extends `MemoryStore` and `HubPing` extends `Hub`: their steps are
steps of the extended module with something conjoined, so each pair is checked
and proved as one system. `Ui` and the store are not composed. `Ui` has a server
of its own, written from the same lines of the store and the pipeline but without
rings. Both it and the store refine the ledger, which is a check that neither lists
what the other could not; it does not show that the store is a behaviour of that
server, and the numbers of the exchanges, on which the buttons of the page rely, are
not in the ledger. What `Ui` shows of the page is therefore as good as that server.

**Atomicity.** The event loop switches tasks only at an `await`, so a method
without one is one action and a handler is one action per stretch between two
awaits. `Pipeline.pc` names the awaits.

**MemoryStore.** A dict is a function to its values or `None`. The deque is a
set of entries ordered by sequence: `append` numbers what it adds with the next
sequence and is the only way in, so order and sequence are the same. `begin`
and `add` of the code are `BeginExchange` and the three branches `AddRemoved`,
`AddPending`, `AddUnknown`. The variable `call` is the callers' side: who owes
the store an `add_exchange`. Ids joined with `::` are sequences of their parts,
so that ids which coincide in the code coincide here. `time.time()` is a clock
that does not run backwards; `MaxAge` is in its ticks.

**Pipeline.** `Handle` and `Replay` end at the await of the upstream
(`connecting`); then an answer is drained (`draining`) or its stream handed on
(`responding`, `streaming`, `closing`). `Capture` is `_capture` with the
`add_exchange` and the completed event that follow without an await. `failed`
is a handler that raised before it stored; `Breaks` are the steps that lead there.
A dissector is an oracle: a chunk yields a delta or nothing. `announced` is a
history variable for `client_seen`; `reply` is what the caller of the exchange is
answered: the upstream's answer, the proxy's 502, the framework's 500, or nothing.
The last is what a client that has gone gets: the 499 is only captured, and the
cancellation is raised again (`ClientGone`). The status in a completed event is
the captured one, and the two need not agree: `Drained` captures, emits and only
then builds its response, which may refuse a header of the upstream
(`pipeline.py:535-540`), so that the caller gets a 500 for what the UI shows as
answered. `CompletedAsAnswered` says that this is the only such case.

**Hub.** `endpoint`, `reader` and `pinger` are the three tasks of a connection.
`Emit` is synchronous and enqueues for every connection at once; `hand` is the
message the reader is sending. `addressed` and `received` are histories. How
long a peer was silent is not counted here: the pinger may find any peer silent. Two
branches of `hub.py` have no action because nothing reaches them: nobody
enqueues the `None` that would end the reader (line 128), and whoever removes a
registration cancels its pinger, so the pinger never finds itself deregistered
(line 151, `TasksMatchRegistry`).

**HubPing.** `now` is `time.time()`; a pinger wakes at `wake` or at most `Late`
ticks after it, which is how long a busy event loop may keep a task that is due.
`asking` is the await of `send_text`, which has no timeout in the code, so a ping
may be stuck for any time (`stalled` counts it). A peer answers its pings in
order, whenever it likes; `prompt` records that it has always answered within
`Answer`. Two facts about the code come out of the bounds in `SilentPruned` and
`PingAssumption`. A silent peer may live two intervals and a timeout, one interval
more than `hub.py:144-146` says, because a check that just passes is followed by
a whole sleep. And a peer is safe only if its answer and the lateness of the loop
fit into the timeout together.

**Ui.** The server is one variable per fact the page can learn: how each exchange
is listed, its number, its conversation. Numbers count from 1 here and from 0 in
the code. The socket is ordered, and so is the way back for subscriptions; REST
requests (`fills`, `removal`, `clearing`) each have a phase of their own, which
is how they overtake. `replaced` says that the card which was clicked is no
longer the element in the list. `OthersDrop` is another UI or the ring's limits;
nobody tells the page. `seen` is a history variable: the exchanges whose last
change was sent while the page had its subscription through and no answer was
under way that could overwrite it, and those the page has fetched since with a
snapshot that nothing overtook. `lost` is another: those that the answer to a
clear took from the list alone, because by then the page showed another
conversation, or the conversation held something new (`app.js:943-950`). They are
back once they are fetched or rendered again. `SettledInSync` is about the stored
exchanges of the conversation in focus in `seen` and not in `lost`, and so names
what the code leaves wrong: what changed between a snapshot and its rendering or
the subscription (`ui_stale` shows one such run), what changed while the socket was
down, and what a late clear took away - each until the conversation is opened
again. It says nothing of cards that should not be in the list: those of removed
exchanges that the page was not told of, and those of another conversation that a
slow snapshot rendered (`ui_target` shows what such a card does). Left out: a
removal or clear whose request is lost (nothing happens on the page), the
snapshot's limit of 200 exchanges, and the queue of the hub, which `Hub` is about.

**Sse.** The bytes of a text are cut anywhere. `Encode`, `Decode` and `Kind`
are constants of the module, so the proofs hold for any encoding and any format
of the lines; the instance for TLC gives them UTF-8 with one character of two
bytes, comments, messages, messages that are no text, and lines that raise, at once
or midway. A message is a line that `_accumulate` keeps something of. Of a line that
raises midway (`sse.py:60-71`) it keeps the choices before the one that raised: the
line stands in `parts` for what it has left there, and in no delta, because the
exception takes the events of the call of `feed` with it. A content or a reasoning
text that is no string goes through `_accumulate` and raises later, twice: in
`_delta_parts` (`openai.py:92`), which costs the deltas of that call of `feed`
(`FeedReturns`), and in the `join` of `reassembled` (`sse.py:93-95`), so that nothing
is reassembled and the capture has the raw text alone (`Finalize`). `LiveAgrees` is
about what is reassembled, so it speaks of streams in which all that was
accumulated is text. The docstring of `feed` speaks
of "a raw (possibly partial) chunk" (`sse.py:30`). `Reassembles` compares what is
accumulated with a reference that reads the decoded characters one at a time and
knows nothing of chunks, buffers or lines that raise. A character cut in two is
decoded to replacement characters; `CutsCostNoMessage` says that the whole text
still yields as many messages. That depends on what the upstream sends: a cut
character inside a JSON string garbles that string, but one outside of it, or a
Unicode space that `strip` takes off the end of a line, would break the message.
`Harmless` says exactly what is needed of a text: the pieces of a cut chunk differ
from the whole in one place, within a line, and the line says the same, however
it goes on, with the character that stood there and with what replaced it. The
instance evaluates it (`CutsAreHarmless`), and the theorem has it as a hypothesis.

**Shutdown.** uvicorn's `Server` is modelled as `_run` uses it and marked
external in the map: it starts the lifespan, binds, serves until `should_exit`,
drains for at most the grace period, ends the lifespan. `work` are requests and
WebSockets, which need not end by themselves. `IsSigint` is FALSE because
`signum is signal.SIGINT` (`app.py:316`) compares the plain int the interpreter
passes with an enum member: a second interrupt does not force the exit as
`app.py:278-280` and 317 say, it counts as another signal, and the process stops
by the grace period. The branch is in the model, so it is checked once the
comparison is changed. A bind that fails is a `SystemExit` in the task of its
server (`BindFails`, `Quits`): it leaves the loop at once, `asyncio.run` enters it
again to cancel every task, `_run`'s finally restores the handlers, and the
`SystemExit` that `gather` passes on leaves the loop a second time, with the other
server and its work as far as they have come (`RunAborts`). A server that is
signalled while it starts comes back without having served and leaves its sockets
open (`returned`), so work may still arrive while `_run` waits for the other one;
`ClientOutlivesWork` names that exception. Once the original handlers are back, a
signal ends the process whatever is still unwinding (`SignalKills`). `announce`
only logs.

## Runs

| Run | Bounds | Shows |
|---|---|---|
| `store` | 3 exchanges, 2 clients and 2 tags with coinciding conversation ids, rings of 2, age 1, clock to 2 | the store's invariants, three action properties and the refinement of the ledger |
| `pipeline` | 2 handlers, the same ids, rings of 1, one delta each | order of events, events against REST and against answers, the callers' protocol, that the store takes every exchange it is owed, and that every exchange settles |
| `hub` | 2 sockets, one conversation, queues of 2, 3 events | the queue, the order, losses, the tasks |
| `ping` | 1 socket, interval and timeout 3, lateness 1, answers within 2, clock to 13 | prompt peers stay, silent ones go |
| `ui` | 2 exchanges, 2 conversations, 2 snapshots under way, 3 moves of the user, of other UIs or of the network | the page against its server, the server against the ledger |
| `sse` | all texts of at most 6 characters over a letter, a two-byte character, a newline, the first character of a line that raises, and one that makes a comment or what is no text, every cut | reassembly against the reference, cut characters, live deltas |
| `shutdown` | 2 servers, 2 tasks each, 2 signals | it stops, together, with nothing closed too early |

Three exchanges over rings of two are the least with which a ring evicts while
another exchange is removed and a third finalized; two ticks let an entry
expire behind a younger one; two clients are enough for a shared conversation.
Two handlers let one run through the other's awaits, and rings of one make the
second evict the first; the clock stands still there, since eviction by age adds
nothing to eviction by count for the handlers. Three events overflow a queue
of two, also while the reader holds one. Connections do not share a clock's
state, so one is enough for `ping`; thirteen ticks are a pong, both intervals,
the timeout, the lateness and three ticks to be late in. Two conversations and
two openings let one overtake the other, and three moves are a focus, another
and a removal or a clear. Six characters are three lines, or two with a cut
character and one that raises midway or is no text. Two signals are enough for
the second one's branch.

Exchange ids, sockets, slots and conversations are interchangeable, so runs
without a liveness property use symmetry (`store`, `hub`, `ui`). `hub`, `ping`,
`ui`, `sse` and `shutdown` run with deadlock checking off: the events, the
clock, the moves and the text are bounded, and a process that has exited stays
so. The store and the pipeline never stop, since a clear of a missing
conversation is always possible.

Five runs check what a comment or a test says and the code does not do; TLC
refutes each, and `PROJECT.json` quotes the line under "findings":

| Run | Refutes |
|---|---|
| `store_removal` | a removed exchange is never re-appended: it is, when its conversation is cleared before it finishes |
| `pipeline_stuck` | in flight means still running: a handler that raises leaves its placeholder |
| `hub_served` | a slow subscriber only loses its oldest events: after one slow send it loses all |
| `ui_stale` | a pending card is updated in place when its exchange completes: not when the snapshot was faster than the subscription |
| `ui_target` | a card targets its own exchange: not when a slow snapshot was rendered under another focus |

Smaller disagreements the models have as the code does, without a run: the
exchange `add_exchange` returns need not live in the ring any more
(`memory.py:61`, an evicted placeholder); conversations of two clients can have
one id (`conversation.py:60`, ids joined with `::`); a client removed under its
own running exchange comes back unannounced (`ui.py:46`; `AnnouncedUnlessRunning`
says that this is the only way); a usage count that is no number answers a good
response with a 500 (`pipeline.py:163`; `DrainedBadUsage`); the time after which
a silent peer is closed (`hub.py:144-146`); and the second interrupt
(`app.py:278-280`).

**Fairness.** `pipeline` assumes weak fairness of `Progress(id)`: the event
loop runs a handler that can go on, and the upstream of each exchange answers,
fails, or ends its stream. The second half is an assumption about the upstream
and not about the proxy, which has no read timeout (`app.py:94-104`). `shutdown`
assumes that the event loop runs each server, that the grace period passes and
that a cancelled task comes to its end; nothing of requests and the upstream, so
`Stops` holds with work that never ends. Nothing is assumed of clients, the UI
or the clock. Safety uses no fairness.

The steps that fairness of `pipeline` is about (`Progress`) are those by which a
handler does its work; that it breaks (`Breaks`) is owed by nobody. Fairness gives
nothing to a task that cannot go on. `NeverStuck` says that the work of a running
handler is always possible. Up to its last await that follows from where it is;
behind it stands the capture, and then the invariant is about the store: whatever
was cleared, removed or evicted while the handler waited, a branch of
`add_exchange` must take the exchange (its mutant looks the conversation up instead
of opening it anew). It is a state invariant with ENABLED, so TLC checks it, and with
it the proofs below get from fairness to `Settles`.

**Mutants.** An operator named for a plausible bug stands before the definition
it changes (`TrimLate` before `Trim`). With it in place, TLC refutes the property
it is listed with, so each property depends on the code.

## Proofs

For every set of clients, tags, exchanges, sockets, conversations, listeners and
texts, every retention, queue size, interval and bound, from the assumptions the
modules name (`StoreAssumption`, `PipelineAssumption`, `HubAssumption`,
`PingAssumption`, `UiAssumption`, `SseAssumption`, `ShutdownAssumption`: numbers
are naturals, a queue holds at least one message, `None` is not a value, a prompt
peer's answer fits into the timeout, texts encode to bytes and decode to
characters, listeners are finitely many):

- `StoreIInv`: `IInv` is invariant. `PendingResolves` alone is not inductive: it
  needs that the two dicts of in-flight exchanges agree and belong to open calls
  (`InflightConsistent`), that a finished entry has no open call
  (`DoneMeansEnded`) and that removed exchanges in flight are stored nowhere
  (`RemovedHidden`). `StoredOnce` needs them as well, because `AddUnknown`
  appends an exchange that must not be in any ring. The seven invariants of the
  run follow.
- The store's action properties follow from `IInv`, step by step. For
  `AppendPurgesExpired` a ring ordered by age is what makes eviction from the
  left enough. `StoreRemovedHidden` is what is left of the claim that
  `store_removal` refutes. `StoreImplementsLedger`: a step shows each exchange as before, or
  begins, ends or drops it (`ShownAsListed`, `ListedOrDropped`), by `StoredOnce`.
- `PipelineInvariant`: `PipeInv` adds to the store's invariant `CallerProtocol` and
  that a replay holds a client and a tag. That the pipeline's steps are steps of the
  store (`PipelineIsStore`) holds by construction and is only a lemma, by which the
  store's theorems hold in the proxy.
- `PipelineImplementsLedger`, `PipelineKeepsList` compose that with the store's
  theorems: a run of the whole proxy, handlers included, is a run of the ledger.
  `PipelineInFlight` bounds what `pipeline_stuck` refutes: a placeholder in
  flight is that of a handler that runs or of one that raised before it captured.
- The pipeline's events: `Story(id)` ties the events of an exchange to the await
  of its handler, the state of its call and its caller's answer; order, silence
  after a removal and `CompletedAsAnswered` follow.
  `RestInv` adds, for what the rings hold, that the sequence is the one last told.
- `HubInvariant`: the queue of a connection is a suffix of what was addressed to
  it, whatever overflowed (`EnqueuedFreshest`, `TailSuffix`), no queue outgrows
  its size, and registry and tasks agree. `HubServed` bounds what `hub_served`
  refutes: a socket that is received from is served unless its reader has failed.
- `HubInOrder`, `HubLostByOverflow`: a connection's feed is what it received,
  what its reader holds and its queue, end to end. Each step leaves the feed as
  it was, cuts messages out of it or appends the one just emitted; `Ordered`
  ties the numbers in it to `emitted`, which appending needs, and an idle reader
  holds nothing, which taking needs (`FeedInv`).
- `PingInv` bounds each connection's next check by its last pong (`CheckInTime`), and a
  prompt peer's last pong by its oldest open ping (`HeardInTime`); both bounds
  follow, the second because a check that found silence would have to be later.
  `PingKeepsHub` carries the hub's theorems over: that a clocked step is a hub step
  or none holds by construction (`PingIsHub`, a lemma).
- `UiInvariant`: types, and that only what has begun runs, is told of, or has
  streamed (`BegunInv`), with which `LiveOfFocus` is inductive.
  `UiServerIsLedger` maps what was removed, cleared or evicted to the ledger's
  gone.
- `UiSettledInSync` (in `UiSyncProofs`): that the settled page shows what the
  server has is far from inductive, since it says nothing of a page that is not
  settled. `KeptInSync` says it of every state, for an exchange in `seen`, message
  by message: the events under way about it end in what the server has
  (`Told`, `TruthLast`); an answer under way was rendered from what the server
  has (`FillsAgree`); and if nothing under way will still change it, its card is
  the current one (`Rendered`). `ClickedInList` says that a card being removed
  carries the focus and the number on that card (`NamesCard`), `DoneEnded` that what
  is done runs no more and will not be finished twice. No event or answer
  outlives the change that makes it stale, because such a change takes the
  exchange out of `seen` or puts an event behind it. What is in `lost` has no card
  (`LostHasNoCard`), so that a card of it can only come with what takes it out.
- `UiRemovesItsOwn`: the sound half of what `ui_target` refutes. A remove request
  removes the exchange of the card and that alone, as long as the page is in sync
  with it and the card is in the list. It needs that no two stored exchanges of a
  conversation have one number (`Numbered`), which a clear keeps, though numbers
  begin anew, because it empties the conversation.
- `SseInv`: what was taken off the buffer and what is in it are what was
  decoded, and within a call of `feed`, if no line raised and all that is accumulated
  is text, the messages found are those accumulated beyond the ones sent on
  (`FoundByThisFeed`).
- `SseReassembles`: `Accumulated` says that reading what was taken off the buffer
  gives exactly what is accumulated, with no line begun; each `TakeLine` extends
  it by a line (`ReadingCompleteLine`), and what is left in the buffer without a
  newline adds nothing (`ReadingLine`). The reference is a recursive function over
  the positions of a text; the prover cannot instantiate the library's theorems
  of induction, so the lemmas about it (`ReadingExists`, `ReadingAppend`) use
  sets: one that holds 0 and the successor of each member is all of
  them (`Induction`), from the library's theorem that a well-founded relation
  gives every nonempty set a least member. `SseUncut` is the case that no
  character was cut.
- `SseLiveIsAccumulated`: where `LiveAgrees` is silent, after a line has raised or
  with a message that is no text,
  the deltas are what is accumulated with some of it left out (`Within`: a
  position of the one for each of the other, in order). The invariant has it, in
  a call of `feed`, for the deltas with those the call has found.
- `ShutInv`: signals reach every server (`SignalledTogether`), and a server that
  ends its lifespan has no work left (`ClosingHasNoWork`).
- `SseCutsCostNoMessage`, for texts that are `Harmless`: what has been decoded is
  like the same bytes decoded as one chunk (`Alike`: as many messages, and any
  continuation finishes a message of both or of neither). A chunk more is one more
  cut (`CutAlike`), and texts that are alike stay so when the same follows
  (`AlikeConcat`).
- `PipelineMovesOn`, `ShutServersGoOn`: each step that fairness speaks of takes a
  handler, or a server, at least one place further (`Stage`, `StepsLeft`), and no
  step of anybody takes it back, so each has at most six. For the pipeline that
  excepts chunks, which leave the place alone and of which a stream may have any
  number.
- `PipelineSettles`: `FairPipeSpec` and `[]NeverStuck` imply `Settles`. A handler
  at one of its places does not stay there (`LeavesStage`: fairness, with what
  the handler is owed always possible, and its step leaving the place), and it
  never returns, so from each place it comes to one further, and from the last to
  its end (`SettlesOne`).
- `ShutServersGoDown`, `ShutRunReturns`: `ShutSpec` and `[]GuardsSuffice` imply that,
  once a signal has been seen, every server goes down, whatever its requests do, or is
  cancelled with the process, and that `_run` comes to its end. A signal tells all
  servers at once (`AllTold`); a server that was told satisfies the guard of one of its
  steps (`ToldIsGuarded`) and has fewer steps left after each (`ServerAdvances`); one
  that is down stays down (`DownForGood`), so that the two are down together.
  `ShutRunReturns` is about two servers, as the code has them; the prover has no
  induction over any number of them in time.

Fairness stands in these proofs for itself: WF_ and the leads-to of each handler or
server are atoms to the prover of temporal logic, and what links them is proved step
by step. That a step is possible (ENABLED) it cannot prove, so it is a hypothesis.
For the pipeline that is `NeverStuck`, which TLC checks. For the servers it is
`GuardsSuffice`: a step whose guard holds is possible. That one says nothing of the
code, since each of these steps is a guard and an assignment; it stands in for what
ENABLED means, and that the guards hold is proved.

Only model-checked: `NeverStuck`, and the last stretch of `Stops`, from the end of
`_run` to the exit, where every cancelled task must have come to its end: that any
number of them have, when each does, is again an induction in time. Every other
property of a passing run is a theorem. The types of the pipeline and the page
(`PipelineTypes`, `UiTypes`) are proved and not run. The properties of the five
refuted runs are false; what is sound of them is in `StoreRemovedHidden`,
`PipelineInFlight`, `HubServed`, `UiSettledInSync` and `UiRemovesItsOwn`.

## Plan

Done: the store, the pipeline, the hub and its clock, the UI, the tap, the
shutdown, and the proofs above. Left, in this order:

1. the dock of the UI: clients, `client_seen`, activity, removal of a client;
2. the contents of a capture, header shaping and the body of a replay.

## Not modelled

- Payloads: bodies, headers, timings and usage, except that a usage may be one
  the capture cannot convert; the parts of a streamed message.
- `dump.py`, `router.py`, `util.py`, the dissectors' parsing: pure functions.
- `config.py`, `logconf.py`, the command line: read once at start.
- The dock and the replay dock of the UI, and its rendering; the HTTP and
  WebSocket libraries, which are seen as what an await may return or raise.
- The client's `last_seen`: it only sorts the dock.
