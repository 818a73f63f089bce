--------------------------------- MODULE Sse ---------------------------------
(***************************************************************************)
(* The tap on a streamed answer: SSEStream of llm_proxy/proxy/sse.py, fed  *)
(* by the OpenAI dissector and the pipeline with whatever chunks the       *)
(* upstream's bytes arrive in.                                             *)
(*                                                                         *)
(* The bytes are cut anywhere, in a line or in a character.  Each chunk is *)
(* decoded by itself; feed takes the complete lines off its buffer, one    *)
(* step a line here.  How bytes stand for characters and what a line says  *)
(* are constants.  A message is a line that something is accumulated of;   *)
(* it stands for all that is, which is a part of the line if the line      *)
(* raises midway.  Texts, usage and tool calls are not told apart.         *)
(***************************************************************************)
EXTENDS Integers, Sequences

CONSTANTS
    Char, Nl,   \* characters, and the newline
    Byte,
    Text,       \* what the upstream may send
    Encode(_),  \* the bytes of a text
    Decode(_),  \* the characters of a chunk, with errors="replace"
    Kind(_)     \* what a line does: it "adds" to what is accumulated, it "raises" out of feed
                \* (before it adds, or midway), what it adds is "untext", no string

ASSUME SseAssumption ==
    /\ Nl \in Char
    /\ \A t \in Text :
        /\ t \in Seq(Char) /\ Encode(t) \in Seq(Byte)
        /\ \A m, n \in 1 .. Len(Encode(t)) : Decode(SubSeq(Encode(t), m, n)) \in Seq(Char)

Line == Seq(Char)
Adds(line) == "adds" \in Kind(line)
Raises(line) == "raises" \in Kind(line)
IsText(line) == "untext" \notin Kind(line)
AllText(lines) == \A i \in DOMAIN lines : IsText(lines[i])

VARIABLES
    text,       \* what the upstream sends
    got,        \* how many of its bytes have arrived
    buf,        \* SSEStream._buf
    feeding,    \* is feed in its loop?
    events,     \* the messages this call of feed has found
    parts,      \* _content_parts and the like: the messages that were accumulated
    live,       \* the messages sent on to the UI as deltas
    over,       \* how the response was finalized: the capture has the reassembled or only the raw text
    decoded,    \* history: every character decoded
    passed,     \* history: every character taken off the buffer
    last        \* history: whether the last line taken off raised, and whether any did

sseVars == <<text, got, buf, feeding, events, parts, live, over, decoded, passed, last>>

SseTypeOK ==
    /\ text \in Text
    /\ got \in 0 .. Len(Encode(text))
    /\ buf \in Seq(Char) /\ decoded \in Seq(Char) /\ passed \in Seq(Char)
    /\ events \in Seq(Line) /\ parts \in Seq(Line) /\ live \in Seq(Line)
    /\ feeding \in BOOLEAN /\ over \in {"no", "reassembled", "raw"}
    /\ last \in [raises : BOOLEAN, raised : BOOLEAN]

SseInit ==
    /\ text \in Text
    /\ got = 0
    /\ buf = <<>> /\ events = <<>> /\ parts = <<>> /\ live = <<>>
    /\ decoded = <<>> /\ passed = <<>>
    /\ feeding = FALSE /\ over = "no"
    /\ last = [raises |-> FALSE, raised |-> FALSE]
-----------------------------------------------------------------------------
Newlines(s) == {i \in 1 .. Len(s) : s[i] = Nl}

\* Mutant: the incomplete line of the chunk before is forgotten.
FeedForgets(n) ==
    /\ ~feeding /\ over = "no"
    /\ got < n
    /\ LET new == Decode(SubSeq(Encode(text), got + 1, n)) IN
        /\ buf' = new
        /\ decoded' = decoded \o new
    /\ got' = n
    /\ feeding' = TRUE
    /\ events' = <<>>
    /\ UNCHANGED <<text, parts, live, over, passed, last>>

\* feed is called with the bytes up to the n-th.
Feed(n) ==
    /\ ~feeding /\ over = "no"
    /\ got < n
    /\ LET new == Decode(SubSeq(Encode(text), got + 1, n)) IN
        /\ buf' = buf \o new
        /\ decoded' = decoded \o new
    /\ got' = n
    /\ feeding' = TRUE
    /\ events' = <<>>
    /\ UNCHANGED <<text, parts, live, over, passed, last>>

\* Mutant: what a line adds is accumulated before it is looked at.
TakenTooSoon(line) ==
    /\ parts' = IF Adds(line) \/ Raises(line) THEN Append(parts, line) ELSE parts
    /\ \/ Raises(line) /\ events' = <<>> /\ feeding' = FALSE
       \/ /\ ~Raises(line)
          /\ events' = IF Adds(line) THEN Append(events, line) ELSE events
          /\ UNCHANGED feeding

\* What a line does: what there is of it to accumulate is accumulated; and either it is found,
\* or it raises out of feed, and the pipeline goes on without what this call of feed had found.
Taken(line) ==
    /\ parts' = IF Adds(line) THEN Append(parts, line) ELSE parts
    /\ \/ Raises(line) /\ events' = <<>> /\ feeding' = FALSE
       \/ /\ ~Raises(line)
          /\ events' = IF Adds(line) THEN Append(events, line) ELSE events
          /\ UNCHANGED feeding

\* One turn of feed's loop: the first complete line is taken off the buffer.
TakeLine ==
    /\ feeding
    /\ \E k \in Newlines(buf) :
        LET line == SubSeq(buf, 1, k - 1) IN
        /\ \A i \in Newlines(buf) : k <= i
        /\ buf' = SubSeq(buf, k + 1, Len(buf))
        /\ passed' = passed \o line \o <<Nl>>
        /\ last' = [raises |-> Raises(line), raised |-> last.raised \/ Raises(line)]
        /\ Taken(line)
    /\ UNCHANGED <<text, got, live, over, decoded>>

\* Mutants: one line is enough for a call; only the newest message is sent on.
FeedReturnsEarly ==
    /\ feeding
    /\ feeding' = FALSE
    /\ live' = IF AllText(events) THEN live \o events ELSE live
    /\ UNCHANGED <<text, got, buf, events, parts, over, decoded, passed, last>>
FeedReturnsNewest ==
    /\ feeding /\ Newlines(buf) = {}
    /\ feeding' = FALSE
    /\ live' = IF events = <<>> \/ ~AllText(events) THEN live ELSE Append(live, events[Len(events)])
    /\ UNCHANGED <<text, got, buf, events, parts, over, decoded, passed, last>>

\* The loop ends; the pipeline emits a delta for each message.  It emits none of the call if
\* _delta_parts raises on one: everything of the call is accumulated already.
FeedReturns ==
    /\ feeding /\ Newlines(buf) = {}
    /\ feeding' = FALSE
    /\ live' = IF AllText(events) THEN live \o events ELSE live
    /\ UNCHANGED <<text, got, buf, events, parts, over, decoded, passed, last>>

\* The stream ends, or is interrupted: what is in the buffer is never looked at.  What is
\* accumulated is joined, which raises if anything in it is no string: the pipeline then
\* captures the raw text alone.
Finalize ==
    /\ ~feeding /\ over = "no"
    /\ over' = IF AllText(parts) THEN "reassembled" ELSE "raw"
    /\ UNCHANGED <<text, got, buf, feeding, events, parts, live, decoded, passed, last>>

SseNext ==
    \/ \E n \in 1 .. Len(Encode(text)) : Feed(n)
    \/ TakeLine \/ FeedReturns \/ Finalize

SseSpec == SseInit /\ [][SseNext]_sseVars
-----------------------------------------------------------------------------
(***************************************************************************)
(* Properties.                                                             *)
(***************************************************************************)

\* The reference sees a text as a whole, a character at a time: what it knows then are
\* the messages of the complete lines and the line that is not complete.
Start == [messages |-> <<>>, current |-> <<>>]

Read(p, c) ==
    IF c # Nl THEN [messages |-> p.messages, current |-> Append(p.current, c)]
    ELSE [messages |-> IF Adds(p.current) THEN Append(p.messages, p.current) ELSE p.messages,
          current |-> <<>>]

\* What it knows after each number of characters.
Reads(t) ==
    LET upTo[i \in 0 .. Len(t)] == IF i = 0 THEN Start ELSE Read(upTo[i - 1], t[i])
    IN  upTo

Reading(t) == Reads(t)[Len(t)]
Messages(t) == Reading(t).messages

\* "Feed a raw (possibly partial) chunk" (sse.py:30): wherever the stream is cut and
\* whichever lines raise, what is accumulated when no complete line waits in the
\* buffer is what the characters that have arrived say as a whole.
Reassembles == ~feeding /\ Newlines(buf) = {} => parts = Messages(decoded)

\* A character that is cut is replaced: two chunks and the chunk that they make up say the
\* same but in one place.  What stands there is part of a line, and neither this line nor
\* any continuation of it is a message because of it.
CutIsHarmless(whole, pieces, lines) ==
    \E i \in 0 .. Len(whole), k \in 0 .. Len(pieces) : \E j \in i .. Len(whole) :
        LET before == SubSeq(whole, 1, i)
            cut == SubSeq(whole, i + 1, j)
            after == SubSeq(whole, j + 1, Len(whole))
            replaced == SubSeq(pieces, i + 1, k)
            line == Reading(before).current
        IN  /\ i <= k /\ pieces = (before \o replaced) \o after
            /\ Newlines(cut) = {} /\ Newlines(replaced) = {}
            /\ \A l \in lines : Adds((line \o cut) \o l) <=> Adds((line \o replaced) \o l)

\* A text that is decoded to itself when it is not cut, and that no cut harms: UTF-8, where
\* a line has no other characters than those of ASCII outside of its JSON strings.
Harmless(t, lines) ==
    LET Bytes(m, n) == SubSeq(Encode(t), m, n)
    IN  /\ Decode(Bytes(1, 0)) = <<>> /\ Decode(Bytes(1, Len(Encode(t)))) = t
        /\ \A m, n \in 0 .. Len(Encode(t)) : m < n =>
              CutIsHarmless(Decode(Bytes(1, n)), Decode(Bytes(1, m)) \o Decode(Bytes(m + 1, n)), lines)

\* A character cut in two is replaced, in both halves (sse.py:31): it garbles the
\* message it stands in, and costs no message.
CutsCostNoMessage ==
    over # "no" /\ got = Len(Encode(text)) /\ Newlines(buf) = {} => Len(parts) = Len(Messages(text))

\* The deltas the UI has seen are what is reassembled, unless a line raised: then the UI
\* misses what this call of feed had found and accumulated (pipeline.py:582-586).  A message
\* that is no text costs the deltas of its call too (openai.py:92), but then nothing is
\* reassembled (sse.py:93-95, pipeline.py:623-626).
LiveAgrees == ~feeding /\ ~last.raised /\ AllText(parts) => live = parts

\* No character is skipped or read twice, also when a line raises (sse.py:33-34).
NothingSkipped == passed \o buf = decoded

\* A complete line is left in the buffer only by a line that raised before it: it waits
\* for the next chunk, or is lost if there is none (sse.py:33, pipeline.py:584-585).
WaitsOnlyBehindRaise == ~feeding /\ Newlines(buf) # {} => last.raises
=============================================================================
