------------------------------ MODULE SseProofs ------------------------------
(***************************************************************************)
(* Proofs about the tap on a streamed answer, for every text, every        *)
(* encoding and every way the bytes are cut: the buffer loses nothing,     *)
(* what waits in it waits behind a line that raised, what is accumulated   *)
(* is what a reading of the whole finds, the UI sees that live, and cuts   *)
(* within characters cost no message.                                      *)
(***************************************************************************)
EXTENDS Sse, SequenceTheorems, WellFoundedInduction, TLAPS

-----------------------------------------------------------------------------
(***************************************************************************)
(* Induction, over sets of numbers.                                        *)
(***************************************************************************)

\* The order of the numbers as a relation, and that it is well-founded.
Less == {p \in Nat \X Nat : p[1] < p[2]}

\* The library's fact about the numbers, for this relation.
LEMMA LessWellFounded == IsWellFoundedOn(Less, Nat)
<1>1. OpToRel(<, Nat) = Less
  BY DEF OpToRel, Less
<1> QED BY <1>1, NatLessThanWellFounded

\* A nonempty set of numbers has a least one.
LEMMA LeastNumber ==
    ASSUME NEW T \in SUBSET Nat, T # {}
    PROVE  \E m \in T : \A k \in T : m <= k
<1>1. PICK m \in T : \A k \in T : ~(<<k, m>> \in Less)
  BY LessWellFounded, WFMin
<1>2. ASSUME NEW k \in T PROVE m <= k
  <2>1. PICK p : p = <<k, m>>
    OBVIOUS
  <2>2. p \in Nat \X Nat /\ p[1] = k /\ p[2] = m /\ p \notin Less
    BY <1>1, <2>1
  <2> QED BY <2>2 DEF Less
<1> QED BY <1>2

\* A set of numbers with 0 and every successor holds all of them.
LEMMA Induction ==
    ASSUME NEW T, 0 \in T, \A n \in Nat : n \in T => n + 1 \in T
    PROVE  Nat \subseteq T
<1> SUFFICES ASSUME Nat \ T # {} PROVE FALSE
  OBVIOUS
<1>1. PICK m \in Nat \ T : \A k \in Nat \ T : m <= k
  BY LeastNumber
<1>2. m # 0 /\ m - 1 \in T
  BY <1>1
<1> QED BY <1>1, <1>2
-----------------------------------------------------------------------------
(***************************************************************************)
(* The reference reading.                                                  *)
(***************************************************************************)

\* f is the reading of t, up to its n-th character.
ReadsUpTo(f, t, n) == f = [i \in 0 .. n |-> IF i = 0 THEN Start ELSE Read(f[i - 1], t[i])]

\* There is a reading of every text.
LEMMA ReadingExists == ASSUME NEW t, NEW n \in Nat PROVE \E f : ReadsUpTo(f, t, n)
<1> DEFINE T == {m \in Nat : \E f : ReadsUpTo(f, t, m)}
<1>1. 0 \in T
  <2> DEFINE f == [i \in 0 .. 0 |-> Start]
  <2>1. ReadsUpTo(f, t, 0)
    BY DEF ReadsUpTo
  <2> QED BY <2>1
<1>2. ASSUME NEW m \in Nat, m \in T PROVE m + 1 \in T
  <2>1. PICK f : ReadsUpTo(f, t, m)
    BY <1>2
  <2> DEFINE g == [i \in 0 .. m + 1 |-> IF i = m + 1 THEN Read(f[m], t[m + 1]) ELSE f[i]]
  <2>2. /\ \A i \in 0 .. m : i \in 0 .. m + 1 /\ i # m + 1
        /\ m + 1 # 0 /\ m + 1 - 1 = m
    OBVIOUS
  <2>3. /\ \A i \in 0 .. m : g[i] = f[i]
        /\ g[m + 1] = Read(f[m], t[m + 1])
    BY <2>2
  <2>4. ASSUME NEW i \in 0 .. m + 1
        PROVE  g[i] = IF i = 0 THEN Start ELSE Read(g[i - 1], t[i])
    <3>1. CASE i = m + 1
      BY <2>2, <2>3, <3>1
    <3>2. CASE i \in 0 .. m
      <4>1. f[i] = IF i = 0 THEN Start ELSE Read(f[i - 1], t[i])
        BY <2>1, <3>2 DEF ReadsUpTo
      <4>2. i # 0 => i - 1 \in 0 .. m
        BY <3>2
      <4> HIDE DEF g
      <4> QED BY <2>3, <3>2, <4>1, <4>2
    <3> QED BY <3>1, <3>2
  <2>5. ReadsUpTo(g, t, m + 1)
    BY <2>4 DEF ReadsUpTo
  <2> QED BY <2>5
<1> HIDE DEF T
<1>3. n \in T
  BY <1>1, <1>2, Induction
<1> QED BY <1>3 DEF T

\* So the reference reads a text from its start, a character at a time.
LEMMA ReadsSteps ==
    ASSUME NEW t, Len(t) \in Nat
    PROVE  /\ Reads(t)[0] = Start
           /\ \A i \in 1 .. Len(t) : Reads(t)[i] = Read(Reads(t)[i - 1], t[i])
<1>1. Reads(t) = CHOOSE f : ReadsUpTo(f, t, Len(t))
  BY DEF Reads, ReadsUpTo
<1>2. ReadsUpTo(Reads(t), t, Len(t))
  BY <1>1, ReadingExists
<1> QED BY <1>2 DEF ReadsUpTo

\* Texts that begin alike are read alike.
LEMMA ReadsAlike ==
    ASSUME NEW s \in Seq(Char), NEW t \in Seq(Char), Len(s) <= Len(t),
           \A i \in 1 .. Len(s) : s[i] = t[i]
    PROVE  Reads(t)[Len(s)] = Reads(s)[Len(s)]
<1> DEFINE T == {n \in Nat : n <= Len(s) => Reads(t)[n] = Reads(s)[n]}
<1>1. Len(s) \in Nat /\ Len(t) \in Nat
  OBVIOUS
<1>2. 0 \in T
  BY <1>1, ReadsSteps
<1>3. ASSUME NEW n \in Nat, n \in T PROVE n + 1 \in T
  <2> SUFFICES ASSUME n + 1 <= Len(s) PROVE Reads(t)[n + 1] = Reads(s)[n + 1]
    OBVIOUS
  <2>1. n + 1 \in 1 .. Len(s) /\ n + 1 \in 1 .. Len(t) /\ n + 1 - 1 = n /\ n <= Len(s)
    BY <1>1
  <2>2. Reads(t)[n] = Reads(s)[n]
    BY <1>3, <2>1
  <2> QED BY <1>1, <2>1, <2>2, ReadsSteps
<1> HIDE DEF T
<1>4. Len(s) \in T
  BY <1>1, <1>2, <1>3, Induction
<1> QED BY <1>4 DEF T

\* It knows nothing of no text, and a step more of a text with a character more.
LEMMA ReadingAppend ==
    /\ Reading(<<>>) = Start
    /\ \A s \in Seq(Char), c \in Char : Reading(Append(s, c)) = Read(Reading(s), c)
<1>1. Reading(<<>>) = Start
  BY ReadsSteps DEF Reading
<1>2. ASSUME NEW s \in Seq(Char), NEW c \in Char
      PROVE  Reading(Append(s, c)) = Read(Reading(s), c)
  <2> DEFINE t == Append(s, c)
  <2>1. /\ t \in Seq(Char) /\ Len(s) \in Nat /\ Len(t) = Len(s) + 1 /\ t[Len(t)] = c
        /\ \A i \in 1 .. Len(s) : s[i] = t[i]
    OBVIOUS
  <2> HIDE DEF t
  <2>2. Reads(t)[Len(s)] = Reading(s)
    BY <2>1, ReadsAlike DEF Reading
  <2>3. Reads(t)[Len(t)] = Read(Reads(t)[Len(t) - 1], t[Len(t)])
    BY <2>1, ReadsSteps
  <2> QED BY <2>1, <2>2, <2>3 DEF Reading, t
<1> QED BY <1>1, <1>2

\* An incomplete line adds no message, and is what the reference has read of a line.
LEMMA ReadingLine ==
    ASSUME NEW s \in Seq(Char), NEW m, Reading(s) = [messages |-> m, current |-> <<>>],
           NEW line \in Seq(Char), Newlines(line) = {}
    PROVE  Reading(s \o line) = [messages |-> m, current |-> line]
<1> DEFINE P(n) == SubSeq(line, 1, n)
           T == {n \in Nat : n <= Len(line) => Reading(s \o P(n)) = [messages |-> m, current |-> P(n)]}
<1>1. Len(line) \in Nat
  OBVIOUS
<1>2. 0 \in T
  <2>1. P(0) = <<>> /\ s \o <<>> = s
    OBVIOUS
  <2> QED BY <2>1
<1>3. ASSUME NEW n \in Nat, n \in T PROVE n + 1 \in T
  <2> SUFFICES ASSUME n + 1 <= Len(line)
               PROVE  Reading(s \o P(n + 1)) = [messages |-> m, current |-> P(n + 1)]
    OBVIOUS
  <2>1. n + 1 \in 1 .. Len(line) /\ n <= Len(line)
    BY <1>1
  <2>2. PICK c : c = line[n + 1]
    OBVIOUS
  <2>3. c \in Char /\ c # Nl
    BY <2>1, <2>2 DEF Newlines
  <2>4. PICK p : p = P(n)
    OBVIOUS
  <2>5. p \in Seq(Char) /\ P(n + 1) = Append(p, c)
    BY <2>1, <2>2, <2>4
  <2>6. s \o Append(p, c) = Append(s \o p, c) /\ s \o p \in Seq(Char)
    BY <2>3, <2>5
  <2>7. Reading(s \o p) = [messages |-> m, current |-> p]
    BY <1>3, <2>1, <2>4
  <2>8. Reading(s \o Append(p, c)) = Read([messages |-> m, current |-> p], c)
    BY <2>3, <2>6, <2>7, ReadingAppend
  <2>9. Read([messages |-> m, current |-> p], c) = [messages |-> m, current |-> Append(p, c)]
    BY <2>3 DEF Read
  <2> HIDE DEF P
  <2> QED BY <2>5, <2>8, <2>9
<1>4. P(Len(line)) = line
  OBVIOUS
<1> HIDE DEF T, P
<1>5. Len(line) \in T
  BY <1>1, <1>2, <1>3, Induction
<1> QED BY <1>1, <1>4, <1>5 DEF T

\* A complete line adds itself, if it is a message.
LEMMA ReadingCompleteLine ==
    ASSUME NEW s \in Seq(Char), NEW m, Reading(s) = [messages |-> m, current |-> <<>>],
           NEW line \in Seq(Char), Newlines(line) = {}
    PROVE  Reading((s \o line) \o <<Nl>>) =
               [messages |-> IF Adds(line) THEN Append(m, line) ELSE m, current |-> <<>>]
<1>1. s \o line \in Seq(Char) /\ Nl \in Char
  BY SseAssumption
<1>2. (s \o line) \o <<Nl>> = Append(s \o line, Nl)
  BY <1>1
<1>3. Reading(Append(s \o line, Nl)) = Read(Reading(s \o line), Nl)
  BY <1>1, ReadingAppend
<1>4. Reading(s \o line) = [messages |-> m, current |-> line]
  BY ReadingLine
<1>5. PICK p : p = [messages |-> m, current |-> line]
  OBVIOUS
<1>6. p.messages = m /\ p.current = line
  BY <1>5
<1>7. Read(p, Nl) = [messages |-> IF Adds(line) THEN Append(m, line) ELSE m, current |-> <<>>]
  BY <1>6 DEF Read
<1> QED BY <1>2, <1>3, <1>4, <1>5, <1>7
-----------------------------------------------------------------------------
(***************************************************************************)
(* The tap.                                                                *)
(***************************************************************************)

\* What was taken off the buffer ends with a line, and its messages are accumulated.
Accumulated == Reading(passed) = [messages |-> parts, current |-> <<>>]

\* While feed runs, its events are what the accumulated messages have over the live ones, if
\* no line raised and all is text.
FoundByThisFeed == feeding /\ ~last.raised /\ AllText(parts) => parts = live \o events

\* The inductive invariant.
SseInv ==
    /\ SseTypeOK
    /\ NothingSkipped
    /\ WaitsOnlyBehindRaise
    /\ LiveAgrees
    /\ FoundByThisFeed
    /\ Accumulated

\* Texts may be put together in any order.
LEMMA TextsAssociate == \A s, t, u \in Seq(Char) : (s \o t) \o u = s \o (t \o u)
BY ConcatAssociative

\* A buffer cut at a newline is its first line, the newline and the rest (sse.py:34).
LEMMA CutAtNewline ==
  ASSUME NEW s \in Seq(Char), NEW k \in Newlines(s)
  PROVE  /\ SubSeq(s, 1, k - 1) \in Seq(Char)
         /\ SubSeq(s, k + 1, Len(s)) \in Seq(Char)
         /\ (SubSeq(s, 1, k - 1) \o <<Nl>>) \o SubSeq(s, k + 1, Len(s)) = s
<1>1. k \in 1 .. Len(s) /\ s[k] = Nl /\ Len(s) \in Nat
  BY DEF Newlines
<1>2. /\ SubSeq(s, 1, k - 1) \in Seq(Char)
      /\ SubSeq(s, k + 1, Len(s)) \in Seq(Char)
  <2>1. /\ \A i \in 1 .. k - 1 : s[i] \in Char
        /\ \A i \in k + 1 .. Len(s) : s[i] \in Char
    BY <1>1
  <2> QED BY <1>1, <2>1, SubSeqProperties
<1>3. SubSeq(s, 1, k) = SubSeq(s, 1, k - 1) \o <<Nl>>
  BY <1>1, SubSeqRecursiveSecond
<1>4. SubSeq(s, 1, k) \o SubSeq(s, k + 1, Len(s)) = SubSeq(s, 1, Len(s))
  BY <1>1, ConcatAdjacentSubSeq
<1> QED BY <1>2, <1>3, <1>4, SubSeqFull

\* The first line of a buffer has no newline.
LEMMA FirstLine ==
  ASSUME NEW s \in Seq(Char), NEW k \in Newlines(s), \A i \in Newlines(s) : k <= i
  PROVE  Newlines(SubSeq(s, 1, k - 1)) = {}
<1>1. k \in 1 .. Len(s) /\ Len(s) \in Nat
  BY DEF Newlines
<1>2. /\ Len(SubSeq(s, 1, k - 1)) = k - 1
      /\ \A i \in 1 .. k - 1 : SubSeq(s, 1, k - 1)[i] = s[i]
  BY <1>1
<1>3. \A i \in 1 .. k - 1 : i \in 1 .. Len(s) /\ ~(k <= i)
  BY <1>1
<1> QED BY <1>2, <1>3 DEF Newlines

\* The invariant holds before the first chunk.
LEMMA InitSseInv == SseInit => SseInv
<1> SUFFICES ASSUME SseInit PROVE SseInv
  OBVIOUS
<1> USE SseAssumption DEF SseInit
<1>1. SseTypeOK
  <2>1. Len(Encode(text)) \in Nat
    OBVIOUS
  <2>2. got \in 0 .. Len(Encode(text)) /\ text \in Text
    BY <2>1
  <2>3. <<>> \in Seq(Char) /\ <<>> \in Seq(Line)
    OBVIOUS
  <2> QED BY <2>2, <2>3 DEF SseTypeOK
<1>2. NothingSkipped /\ LiveAgrees /\ FoundByThisFeed
  BY DEF NothingSkipped, LiveAgrees, FoundByThisFeed, AllText
<1>3. WaitsOnlyBehindRaise
  BY DEF WaitsOnlyBehindRaise, Newlines
<1>4. Accumulated
  BY ReadingAppend DEF Accumulated, Start
<1> QED BY <1>1, <1>2, <1>3, <1>4 DEF SseInv

\* A chunk is appended to the buffer, whatever it is cut out of (sse.py:31).
LEMMA FeedKeepsInv ==
  ASSUME SseInv, NEW n \in 1 .. Len(Encode(text)), Feed(n)
  PROVE  SseInv'
<1> USE DEF SseInv
<1>1. PICK new \in Seq(Char) : buf' = buf \o new /\ decoded' = decoded \o new
  <2>1. got \in Nat /\ got + 1 \in 1 .. Len(Encode(text)) /\ n \in 1 .. Len(Encode(text))
    BY SseAssumption DEF SseTypeOK, Feed
  <2>2. Decode(SubSeq(Encode(text), got + 1, n)) \in Seq(Char)
    BY <2>1, SseAssumption DEF SseTypeOK
  <2> QED BY <2>2 DEF Feed
<1>2. SseTypeOK'
  <2>1. buf' \in Seq(Char) /\ decoded' \in Seq(Char)
    BY <1>1, ConcatProperties DEF SseTypeOK
  <2>2. got' \in 0 .. Len(Encode(text))
    BY SseAssumption DEF Feed, SseTypeOK
  <2> QED BY <2>1, <2>2 DEF SseTypeOK, Feed, Line
<1>3. NothingSkipped'
  <2>1. passed \o (buf \o new) = (passed \o buf) \o new
    <3>1. passed \in Seq(Char) /\ buf \in Seq(Char)
      BY DEF SseTypeOK
    <3> QED BY <3>1, TextsAssociate, Zenon
  <2> QED BY <1>1, <2>1 DEF NothingSkipped, Feed
<1>4. WaitsOnlyBehindRaise' /\ LiveAgrees' /\ Accumulated'
  BY DEF WaitsOnlyBehindRaise, LiveAgrees, AllText, Accumulated, Reading, Feed
<1>5. FoundByThisFeed'
  <2>1. live \o <<>> = live
    BY ConcatEmptySeq DEF SseTypeOK
  <2> QED BY <2>1 DEF FoundByThisFeed, LiveAgrees, AllText, Feed
<1> QED BY <1>2, <1>3, <1>4, <1>5

\* The first complete line leaves the buffer, whatever it does (sse.py:34-49).
LEMMA TakeLineKeepsInv ==
  ASSUME SseInv, TakeLine
  PROVE  SseInv'
<1> USE DEF SseInv
<1>1. PICK k \in Newlines(buf) :
        /\ \A i \in Newlines(buf) : k <= i
        /\ buf' = SubSeq(buf, k + 1, Len(buf))
        /\ passed' = passed \o SubSeq(buf, 1, k - 1) \o <<Nl>>
        /\ last' = [raises |-> Raises(SubSeq(buf, 1, k - 1)),
                    raised |-> last.raised \/ Raises(SubSeq(buf, 1, k - 1))]
        /\ Taken(SubSeq(buf, 1, k - 1))
  BY DEF TakeLine
<1>2. PICK line : line = SubSeq(buf, 1, k - 1)
  OBVIOUS
<1>4. PICK rest : rest = SubSeq(buf, k + 1, Len(buf))
  OBVIOUS
<1>5. /\ line \in Seq(Char) /\ rest \in Seq(Char)
      /\ (line \o <<Nl>>) \o rest = buf
      /\ Newlines(line) = {}
  BY <1>1, <1>2, <1>4, CutAtNewline, FirstLine DEF SseTypeOK
<1>6. /\ buf' = rest
      /\ passed' = (passed \o line) \o <<Nl>>
      /\ last' = [raises |-> Raises(line), raised |-> last.raised \/ Raises(line)]
      /\ Taken(line)
      /\ feeding
      /\ UNCHANGED <<text, got, live, over, decoded>>
  BY <1>1, <1>2, <1>4 DEF TakeLine
<1>7. Raises(line) \in BOOLEAN
  BY DEF Raises
<1>8. <<Nl>> \in Seq(Char)
  BY SseAssumption
<1>9. SseTypeOK'
  <2>1. passed' \in Seq(Char)
    BY <1>5, <1>6, <1>8, ConcatProperties DEF SseTypeOK
  <2>2. events' \in Seq(Line) /\ parts' \in Seq(Line) /\ feeding' \in BOOLEAN
    <3>1. Append(events, line) \in Seq(Line) /\ Append(parts, line) \in Seq(Line)
      BY <1>5, AppendProperties DEF SseTypeOK, Line
    <3>2. <<>> \in Seq(Line)
      OBVIOUS
    <3>3. events' \in {events, Append(events, line), <<>>} /\ parts' \in {parts, Append(parts, line)}
          /\ feeding' \in {feeding, FALSE}
      BY <1>6 DEF Taken
    <3>4. events \in Seq(Line) /\ parts \in Seq(Line) /\ feeding \in BOOLEAN
      BY DEF SseTypeOK
    <3> QED BY <3>1, <3>2, <3>3, <3>4
  <2>3. last' \in [raises : BOOLEAN, raised : BOOLEAN]
    BY <1>6, <1>7 DEF SseTypeOK
  <2> QED BY <1>5, <1>6, <2>1, <2>2, <2>3 DEF SseTypeOK
<1>10. NothingSkipped'
  <2>0. passed \in Seq(Char)
    BY DEF SseTypeOK
  <2>1. ((passed \o line) \o <<Nl>>) = passed \o (line \o <<Nl>>)
    BY <1>5, <1>8, <2>0, TextsAssociate, Zenon
  <2>2. line \o <<Nl>> \in Seq(Char)
    BY <1>5, <1>8, ConcatProperties
  <2>3. (passed \o (line \o <<Nl>>)) \o rest = passed \o ((line \o <<Nl>>) \o rest)
    BY <1>5, <2>2, <2>0, TextsAssociate, Zenon
  <2> QED BY <1>5, <1>6, <2>1, <2>3 DEF NothingSkipped
<1>11. Accumulated'
  <2>1. passed \in Seq(Char) /\ Reading(passed) = [messages |-> parts, current |-> <<>>]
    BY DEF SseTypeOK, Accumulated
  <2>2. Reading(passed') = [messages |-> IF Adds(line) THEN Append(parts, line) ELSE parts,
                            current |-> <<>>]
    <3>1. Reading((passed \o line) \o <<Nl>>) =
            [messages |-> IF Adds(line) THEN Append(parts, line) ELSE parts, current |-> <<>>]
      BY <1>5, <2>1, ReadingCompleteLine
    <3> QED BY <1>6, <3>1
  <2>3. parts' = IF Adds(line) THEN Append(parts, line) ELSE parts
    BY <1>6 DEF Taken
  <2> QED BY <2>2, <2>3 DEF Accumulated, Reading
<1>12. last'.raised = (last.raised \/ Raises(line)) /\ last'.raises = Raises(line)
  BY <1>6
<1>13. CASE Raises(line)
  <2>1. last'.raised /\ last'.raises
    BY <1>12, <1>13
  <2> QED BY <2>1, <1>9, <1>10, <1>11 DEF WaitsOnlyBehindRaise, LiveAgrees, FoundByThisFeed
<1>14. CASE ~Raises(line) /\ ~Adds(line)
  <2>1. UNCHANGED <<events, parts, feeding>> /\ last'.raised = last.raised
    BY <1>6, <1>12, <1>14 DEF Taken, SseTypeOK
  <2>2. AllText(parts)' <=> AllText(parts)
    BY <2>1 DEF AllText
  <2> QED BY <2>1, <2>2, <1>6, <1>9, <1>10, <1>11 DEF WaitsOnlyBehindRaise, LiveAgrees, FoundByThisFeed
<1>15. CASE ~Raises(line) /\ Adds(line)
  <2>1. /\ events' = Append(events, line) /\ parts' = Append(parts, line)
        /\ UNCHANGED feeding /\ last'.raised = last.raised
    BY <1>6, <1>12, <1>15 DEF Taken, SseTypeOK
  <2>2. Append(live \o events, line) = live \o Append(events, line)
    <3>1. line \in Line
      BY <1>5 DEF Line
    <3>2. live \o (events \o <<line>>) = (live \o events) \o <<line>>
      BY <3>1, ConcatAssociative DEF SseTypeOK
    <3>3. Append(events, line) = events \o <<line>> /\ Append(live \o events, line) = (live \o events) \o <<line>>
      BY <3>1, AppendIsConcat, ConcatProperties DEF SseTypeOK
    <3> QED BY <3>2, <3>3
  <2>3. AllText(parts)' => AllText(parts)
    <3>1. parts \in Seq(Line)
      BY DEF SseTypeOK
    <3>2. \A i \in DOMAIN parts : i \in DOMAIN Append(parts, line) /\ Append(parts, line)[i] = parts[i]
      BY <3>1
    <3> QED BY <2>1, <3>2 DEF AllText
  <2>4. FoundByThisFeed'
    BY <1>6, <2>1, <2>2, <2>3 DEF FoundByThisFeed
  <2> QED BY <2>1, <2>4, <1>6, <1>9, <1>10, <1>11 DEF WaitsOnlyBehindRaise, LiveAgrees
<1> QED BY <1>13, <1>14, <1>15

\* feed returns with no complete line left, and its messages become deltas.
LEMMA FeedReturnsKeepsInv ==
  ASSUME SseInv, FeedReturns
  PROVE  SseInv'
<1> USE DEF SseInv, FeedReturns
<1>1. SseTypeOK'
  <2>1. live' \in Seq(Line)
    <3>1. live \in Seq(Line) /\ live \o events \in Seq(Line)
      BY ConcatProperties DEF SseTypeOK
    <3> QED BY <3>1
  <2> QED BY <2>1 DEF SseTypeOK
<1>2. NothingSkipped' /\ FoundByThisFeed' /\ WaitsOnlyBehindRaise' /\ Accumulated'
  BY DEF NothingSkipped, FoundByThisFeed, WaitsOnlyBehindRaise, Newlines, Accumulated, Reading
<1>3. LiveAgrees'
  <2> SUFFICES ASSUME ~last.raised, AllText(parts) PROVE live' = parts
    BY DEF LiveAgrees, AllText
  <2>1. parts = live \o events
    BY DEF FoundByThisFeed
  <2>2. AllText(events)
    <3>1. live \in Seq(Line) /\ events \in Seq(Line) /\ Len(live) \in Nat
      BY DEF SseTypeOK
    <3>2. \A i \in DOMAIN events : /\ Len(live) + i \in DOMAIN (live \o events)
                                   /\ (live \o events)[Len(live) + i] = events[i]
      BY <3>1
    <3> QED BY <2>1, <3>2 DEF AllText
  <2> QED BY <2>1, <2>2
<1> QED BY <1>1, <1>2, <1>3

\* Every step keeps the invariant.
LEMMA NextSseInv == SseInv /\ [SseNext]_sseVars => SseInv'
<1> SUFFICES ASSUME SseInv, [SseNext]_sseVars PROVE SseInv'
  OBVIOUS
<1>1. CASE \E n \in 1 .. Len(Encode(text)) : Feed(n)
  BY <1>1, FeedKeepsInv
<1>2. CASE TakeLine
  BY <1>2, TakeLineKeepsInv
<1>3. CASE FeedReturns
  BY <1>3, FeedReturnsKeepsInv
<1>4. CASE Finalize \/ UNCHANGED sseVars
  <2>1. UNCHANGED <<text, got, buf, feeding, events, parts, live, decoded, passed, last>>
        /\ over' \in {"no", "reassembled", "raw"}
    BY <1>4 DEF Finalize, sseVars, SseInv, SseTypeOK
  <2>2. SseTypeOK'
    BY <2>1 DEF SseInv, SseTypeOK
  <2> QED BY <2>1, <2>2 DEF SseInv, NothingSkipped, WaitsOnlyBehindRaise, LiveAgrees,
                            FoundByThisFeed, AllText, Newlines, Accumulated, Reading
<1> QED BY <1>1, <1>2, <1>3, <1>4 DEF SseNext

\* The invariant holds always.
LEMMA SseInvariant == SseSpec => []SseInv
BY InitSseInv, NextSseInv, PTL DEF SseSpec

\* Type correctness of the tap.
THEOREM SseTypes == SseSpec => []SseTypeOK
<1>1. SseInv => SseTypeOK
  BY DEF SseInv
<1> QED BY SseInvariant, <1>1, PTL

\* However the stream is cut and whichever lines raise, the tap neither skips nor
\* rereads a character (sse.py:33-34).
THEOREM SseNothingSkipped == SseSpec => []NothingSkipped
<1>1. SseInv => NothingSkipped
  BY DEF SseInv
<1> QED BY SseInvariant, <1>1, PTL

\* A complete line waits in the buffer only behind one that raised (pipeline.py:584-585).
THEOREM SseWaits == SseSpec => []WaitsOnlyBehindRaise
<1>1. SseInv => WaitsOnlyBehindRaise
  BY DEF SseInv
<1> QED BY SseInvariant, <1>1, PTL

\* Between two chunks the UI has seen exactly what is accumulated for the capture, if no line
\* has raised and all that is accumulated is text, so that the pipeline can reassemble it
\* (sse.py:93-95, openai.py:90-94, pipeline.py:581-603).
THEOREM SseLiveAgrees == SseSpec => []LiveAgrees
<1>1. SseInv => LiveAgrees
  BY DEF SseInv
<1> QED BY SseInvariant, <1>1, PTL

\* However the stream is cut and whichever lines raise, what is accumulated is what the
\* characters that arrived say as a whole (sse.py:30-49), as long as no complete line
\* waits in the buffer.
THEOREM SseReassembles == SseSpec => []Reassembles
<1>1. SseInv => Reassembles
  <2> SUFFICES ASSUME SseInv, Newlines(buf) = {} PROVE parts = Messages(decoded)
    BY DEF Reassembles
  <2>1. /\ passed \in Seq(Char) /\ buf \in Seq(Char) /\ decoded = passed \o buf
        /\ Reading(passed) = [messages |-> parts, current |-> <<>>]
    BY DEF SseInv, SseTypeOK, NothingSkipped, Accumulated
  <2>2. Reading(decoded) = [messages |-> parts, current |-> buf]
    BY <2>1, ReadingLine
  <2> QED BY <2>2 DEF Messages, Reading
<1> QED BY SseInvariant, <1>1, PTL

\* In particular, where no character was cut, it is what the upstream sent.
THEOREM SseUncut ==
    SseSpec => [](~feeding /\ Newlines(buf) = {} /\ decoded = text => parts = Messages(text))
<1>1. Reassembles => (~feeding /\ Newlines(buf) = {} /\ decoded = text => parts = Messages(text))
  BY DEF Reassembles
<1> QED BY SseReassembles, <1>1, PTL
-----------------------------------------------------------------------------
(***************************************************************************)
(* What the UI sees when lines raise.                                      *)
(***************************************************************************)

\* s is t with some of it left out.
Within(s, t) ==
    \E f \in [1 .. Len(s) -> 1 .. Len(t)] :
        /\ \A i \in 1 .. Len(s) : s[i] = t[f[i]]
        /\ \A i, j \in 1 .. Len(s) : i < j => f[i] < f[j]

\* A text is within itself.
LEMMA SameWithin == ASSUME NEW s \in Seq(Line) PROVE Within(s, s)
<1> DEFINE f == [i \in 1 .. Len(s) |-> i]
<1>1. /\ f \in [1 .. Len(s) -> 1 .. Len(s)]
      /\ \A i \in 1 .. Len(s) : f[i] = i
  OBVIOUS
<1> HIDE DEF f
<1>2. /\ \A i \in 1 .. Len(s) : s[i] = s[f[i]]
      /\ \A i, j \in 1 .. Len(s) : i < j => f[i] < f[j]
  BY <1>1
<1> QED BY <1>1, <1>2 DEF Within

\* The same message behind both.
LEMMA AppendWithin ==
    ASSUME NEW s \in Seq(Line), NEW t \in Seq(Line), NEW m \in Line, Within(s, t)
    PROVE  Within(Append(s, m), Append(t, m))
<1>1. PICK f \in [1 .. Len(s) -> 1 .. Len(t)] :
        /\ \A i \in 1 .. Len(s) : s[i] = t[f[i]]
        /\ \A i, j \in 1 .. Len(s) : i < j => f[i] < f[j]
  BY DEF Within
<1> DEFINE a == Append(s, m)
           b == Append(t, m)
           g == [i \in 1 .. Len(s) + 1 |-> IF i = Len(s) + 1 THEN Len(t) + 1 ELSE f[i]]
<1>2. /\ Len(s) \in Nat /\ Len(t) \in Nat /\ Len(a) = Len(s) + 1 /\ Len(b) = Len(t) + 1
      /\ \A i \in 1 .. Len(s) : a[i] = s[i]
      /\ \A i \in 1 .. Len(t) : b[i] = t[i]
      /\ a[Len(s) + 1] = m /\ b[Len(t) + 1] = m
  OBVIOUS
<1> HIDE DEF a, b
<1>3. g \in [1 .. Len(a) -> 1 .. Len(b)]
  BY <1>2
<1>4. /\ g[Len(s) + 1] = Len(t) + 1
      /\ \A i \in 1 .. Len(s) : g[i] = f[i] /\ f[i] \in 1 .. Len(t)
  BY <1>2
<1>5. \A i \in 1 .. Len(a) : i = Len(s) + 1 \/ i \in 1 .. Len(s)
  BY <1>2
<1> HIDE DEF g
<1>6. ASSUME NEW i \in 1 .. Len(a) PROVE a[i] = b[g[i]]
  <2>1. CASE i = Len(s) + 1
    BY <2>1, <1>2, <1>4
  <2>2. CASE i \in 1 .. Len(s)
    BY <2>2, <1>1, <1>2, <1>4
  <2> QED BY <2>1, <2>2, <1>5
<1>7. ASSUME NEW i \in 1 .. Len(a), NEW j \in 1 .. Len(a), i < j PROVE g[i] < g[j]
  <2>1. i \in 1 .. Len(s)
    BY <1>2, <1>7
  <2>2. CASE j = Len(s) + 1
    BY <2>1, <2>2, <1>2, <1>4
  <2>3. CASE j \in 1 .. Len(s)
    BY <2>1, <2>3, <1>1, <1>4, <1>7
  <2> QED BY <2>2, <2>3, <1>5
<1> QED BY <1>3, <1>6, <1>7 DEF Within, a, b

\* And one more behind what it is within.
LEMMA WithinMore ==
    ASSUME NEW s \in Seq(Line), NEW t \in Seq(Line), NEW m \in Line, Within(s, t)
    PROVE  Within(s, Append(t, m))
<1> DEFINE b == Append(t, m)
<1>1. Len(s) \in Nat /\ Len(t) \in Nat /\ Len(b) = Len(t) + 1 /\ \A i \in 1 .. Len(t) : b[i] = t[i]
  OBVIOUS
<1> HIDE DEF b
<1>2. PICK f \in [1 .. Len(s) -> 1 .. Len(t)] :
        /\ \A i \in 1 .. Len(s) : s[i] = t[f[i]]
        /\ \A i, j \in 1 .. Len(s) : i < j => f[i] < f[j]
  BY DEF Within
<1>3. \A i \in 1 .. Len(s) : f[i] \in 1 .. Len(t)
  OBVIOUS
<1>4. 1 .. Len(t) \subseteq 1 .. Len(b)
  BY <1>1
<1>5. f \in [1 .. Len(s) -> 1 .. Len(b)]
  BY <1>4
<1>6. \A i \in 1 .. Len(s) : s[i] = b[f[i]]
  BY <1>1, <1>2, <1>3
<1> QED BY <1>2, <1>5, <1>6 DEF Within, b

\* What is within a text stays so without its end.
LEMMA PrefixWithin ==
    ASSUME NEW s \in Seq(Line), NEW u \in Seq(Line), NEW t \in Seq(Line), Within(s \o u, t)
    PROVE  Within(s, t)
<1> DEFINE a == s \o u
<1>1. /\ Len(s) \in Nat /\ Len(a) \in Nat /\ Len(s) <= Len(a)
      /\ \A i \in 1 .. Len(s) : a[i] = s[i]
  OBVIOUS
<1> HIDE DEF a
<1>2. PICK f \in [1 .. Len(a) -> 1 .. Len(t)] :
        /\ \A i \in 1 .. Len(a) : a[i] = t[f[i]]
        /\ \A i, j \in 1 .. Len(a) : i < j => f[i] < f[j]
  BY DEF Within, a
<1> DEFINE g == [i \in 1 .. Len(s) |-> f[i]]
<1>3. g \in [1 .. Len(s) -> 1 .. Len(t)]
  BY <1>1
<1>4. /\ \A i \in 1 .. Len(s) : s[i] = t[g[i]]
      /\ \A i, j \in 1 .. Len(s) : i < j => g[i] < g[j]
  BY <1>1, <1>2
<1> HIDE DEF g
<1> QED BY <1>3, <1>4 DEF Within

\* The deltas are within what is accumulated, those that this call of feed will add too.
LiveIsAccumulated == Within(live, parts)
LiveInv == IF feeding THEN Within(live \o events, parts) ELSE Within(live, parts)

\* Every step keeps them there.
LEMMA NextLiveInv == ASSUME SseInv, LiveInv, [SseNext]_sseVars PROVE LiveInv'
<1>0. live \in Seq(Line) /\ parts \in Seq(Line) /\ events \in Seq(Line) /\ buf \in Seq(Char)
  BY DEF SseInv, SseTypeOK
<1>1. ASSUME NEW n \in 1 .. Len(Encode(text)), Feed(n) PROVE LiveInv'
  <2>1. live \o <<>> = live
    BY <1>0, ConcatEmptySeq
  <2> QED BY <1>1, <2>1 DEF Feed, LiveInv, Within
<1>2. ASSUME TakeLine PROVE LiveInv'
  <2>1. PICK line \in Line : Taken(line)
    <3>1. PICK k \in Newlines(buf) : Taken(SubSeq(buf, 1, k - 1))
      BY <1>2 DEF TakeLine
    <3>2. SubSeq(buf, 1, k - 1) \in Line
      BY <1>0, CutAtNewline DEF Line
    <3> QED BY <3>1, <3>2
  <2>2. feeding /\ UNCHANGED live /\ Within(live \o events, parts)
    BY <1>2 DEF TakeLine, LiveInv
  <2>3. CASE ~Raises(line) /\ ~Adds(line)
    <3>1. UNCHANGED <<events, parts, feeding>>
      BY <2>1, <2>3 DEF Taken
    <3> QED BY <2>2, <3>1 DEF LiveInv, Within
  <2>4. CASE ~Raises(line) /\ Adds(line)
    <3>0. events' = Append(events, line) /\ parts' = Append(parts, line) /\ UNCHANGED feeding
      BY <2>1, <2>4 DEF Taken
    <3>1. live \o events \in Seq(Line) /\ live \o Append(events, line) = Append(live \o events, line)
      BY <1>0
    <3>2. Within(live \o Append(events, line), Append(parts, line))
      BY <1>0, <2>2, <3>1, AppendWithin
    <3> QED BY <2>2, <3>0, <3>2 DEF LiveInv, Within
  <2>5. CASE Raises(line)
    <3>1. Within(live, parts) /\ Within(live, Append(parts, line))
      BY <1>0, <2>2, PrefixWithin, WithinMore
    <3>2. feeding' = FALSE /\ parts' \in {parts, Append(parts, line)}
      BY <2>1, <2>5 DEF Taken
    <3>3. PICK p \in {parts, Append(parts, line)} : parts' = p
      BY <3>2
    <3>4. Within(live, p)
      BY <3>1, <3>3
    <3> QED BY <2>2, <3>2, <3>3, <3>4 DEF LiveInv, Within
  <2> QED BY <2>3, <2>4, <2>5
<1>3. ASSUME FeedReturns PROVE LiveInv'
  <2>1. Within(live \o events, parts) /\ Within(live, parts)
    BY <1>0, <1>3, PrefixWithin DEF FeedReturns, LiveInv
  <2>2. live' \in {live, live \o events} /\ parts' = parts /\ feeding' = FALSE
    BY <1>3 DEF FeedReturns
  <2>3. PICK l, p : l = live' /\ p = parts
    OBVIOUS
  <2>4. Within(l, p) /\ live' = l /\ parts' = p /\ feeding' = FALSE
    BY <2>1, <2>2, <2>3
  <2> QED BY <2>4 DEF LiveInv, Within
<1>4. CASE Finalize \/ UNCHANGED sseVars
  <2>1. UNCHANGED <<feeding, events, parts, live>>
    BY <1>4 DEF Finalize, sseVars
  <2> QED BY <2>1 DEF LiveInv, Within
<1> QED BY <1>1, <1>2, <1>3, <1>4 DEF SseNext

\* Whichever lines raise, in feed or when the deltas are built (openai.py:92), the UI is never
\* told what is not accumulated for the capture, nor in another order (sse.py:45-49,
\* pipeline.py:581-603): the deltas are what is accumulated, with some left out.
THEOREM SseLiveIsAccumulated == SseSpec => []LiveIsAccumulated
<1>1. SseInit => LiveInv
  <2>1. <<>> \in Seq(Line)
    OBVIOUS
  <2>2. Within(<<>>, <<>>)
    BY <2>1, SameWithin
  <2> QED BY <2>2 DEF SseInit, LiveInv
<1>2. SseInv /\ LiveInv /\ [SseNext]_sseVars => LiveInv'
  BY NextLiveInv
<1>3. SseInv /\ LiveInv => LiveIsAccumulated
  <2>1. SseInv => live \in Seq(Line) /\ parts \in Seq(Line) /\ events \in Seq(Line)
    BY DEF SseInv, SseTypeOK
  <2> QED BY <2>1, PrefixWithin DEF LiveInv, LiveIsAccumulated
<1> QED BY SseInvariant, <1>1, <1>2, <1>3, PTL DEF SseSpec
-----------------------------------------------------------------------------
(***************************************************************************)
(* What cuts cost.                                                         *)
(***************************************************************************)

\* What holds of no text, and of every text with one more character, holds of all.
LEMMA TextInduction ==
    ASSUME NEW T, <<>> \in T, \A s \in Seq(Char), c \in Char : s \in T => Append(s, c) \in T
    PROVE  Seq(Char) \subseteq T
<1> SUFFICES ASSUME NEW s \in Seq(Char) PROVE s \in T
  OBVIOUS
<1> DEFINE P(n) == SubSeq(s, 1, n)
           N == {n \in Nat : n <= Len(s) => P(n) \in T}
<1>1. Len(s) \in Nat /\ P(0) = <<>> /\ P(Len(s)) = s
  OBVIOUS
<1>2. 0 \in N
  BY <1>1
<1>3. ASSUME NEW n \in Nat, n \in N PROVE n + 1 \in N
  <2> SUFFICES ASSUME n + 1 <= Len(s) PROVE P(n + 1) \in T
    OBVIOUS
  <2>1. n + 1 \in 1 .. Len(s) /\ n <= Len(s)
    BY <1>1
  <2>2. PICK p, c : p = P(n) /\ c = s[n + 1]
    OBVIOUS
  <2>3. p \in Seq(Char) /\ c \in Char /\ P(n + 1) = Append(p, c)
    BY <2>1, <2>2
  <2>4. p \in T
    BY <1>3, <2>1, <2>2
  <2> HIDE DEF P
  <2> QED BY <2>3, <2>4
<1> HIDE DEF N, P
<1>4. Len(s) \in N
  BY <1>1, <1>2, <1>3, Induction
<1> QED BY <1>1, <1>4 DEF N

\* A text that is put behind another grows with it.
LEMMA ConcatAppend ==
    \A s, v \in Seq(Char), c \in Char : s \o Append(v, c) = Append(s \o v, c) /\ s \o v \in Seq(Char)
OBVIOUS

\* And so does one that it is put before.
LEMMA AppendConcat ==
    \A s, v \in Seq(Char), c \in Char : Append(s, c) \o v = s \o (<<c>> \o v)
<1> SUFFICES ASSUME NEW s \in Seq(Char), NEW v \in Seq(Char), NEW c \in Char
             PROVE  Append(s, c) \o v = s \o (<<c>> \o v)
  OBVIOUS
<1>1. <<c>> \in Seq(Char) /\ Append(s, c) = s \o <<c>>
  BY AppendIsConcat
<1> QED BY <1>1, TextsAssociate

\* A piece of a text is a text.
LEMMA PieceOfText ==
    \A s \in Seq(Char), m, n \in Nat : 1 <= m /\ n <= Len(s) => SubSeq(s, m, n) \in Seq(Char)
OBVIOUS

\* The reference reads texts into messages and the beginning of a line.
LEMMA ReadingType == \A s \in Seq(Char) : Reading(s) \in [messages : Seq(Line), current : Line]
<1> DEFINE Q(s) == Reading(s) \in [messages : Seq(Line), current : Line]
           T == {s \in Seq(Char) : Q(s)}
<1>1. Q(<<>>)
  <2>1. <<>> \in Line /\ <<>> \in Seq(Line)
    BY DEF Line
  <2>2. PICK e : e = <<>>
    OBVIOUS
  <2>3. [messages |-> e, current |-> e] \in [messages : Seq(Line), current : Line]
    BY <2>1, <2>2
  <2> QED BY <2>2, <2>3, ReadingAppend DEF Start
<1>2. ASSUME NEW s \in Seq(Char), NEW c \in Char, Q(s) PROVE Q(Append(s, c))
  <2>1. PICK r : r = Reading(s)
    OBVIOUS
  <2>2. r.messages \in Seq(Line) /\ r.current \in Line
    BY <1>2, <2>1
  <2>3. Append(r.current, c) \in Line /\ <<>> \in Line
    BY <2>2 DEF Line
  <2>4. Append(r.messages, r.current) \in Seq(Line)
    BY <2>2
  <2>5. Read(r, c) \in [messages : Seq(Line), current : Line]
    BY <2>2, <2>3, <2>4 DEF Read
  <2>6. Reading(Append(s, c)) = Read(r, c)
    BY <2>1, ReadingAppend
  <2> QED BY <2>5, <2>6
<1> HIDE DEF Q
<1>3. Seq(Char) \subseteq T
  <2>1. <<>> \in Seq(Char) /\ \A s \in Seq(Char), c \in Char : Append(s, c) \in Seq(Char)
    OBVIOUS
  <2>2. <<>> \in T /\ \A s \in Seq(Char), c \in Char : s \in T => Append(s, c) \in T
    BY <2>1, <1>1, <1>2
  <2> HIDE DEF T
  <2> QED BY <2>2, TextInduction
<1> QED BY <1>3 DEF Q

\* What is read within a line is put to the line.
LEMMA ReadingWithinLine ==
    ASSUME NEW s \in Seq(Char), NEW w \in Seq(Char), Newlines(w) = {}
    PROVE  /\ Reading(s \o w).messages = Reading(s).messages
           /\ Reading(s \o w).current = Reading(s).current \o w
<1> DEFINE Put(v) == [messages |-> Reading(s).messages, current |-> Reading(s).current \o v]
           Q(v) == Newlines(v) = {} => Reading(s \o v) = Put(v)
           T == {v \in Seq(Char) : Q(v)}
<1>0. Reading(s) \in [messages : Seq(Line), current : Line]
  BY ReadingType
<1>1. Q(<<>>)
  <2>1. s \o <<>> = s
    OBVIOUS
  <2>2. Reading(s).current \o <<>> = Reading(s).current
    <3>1. Reading(s).current \in Seq(Char)
      BY <1>0 DEF Line
    <3> QED BY <3>1, ConcatEmptySeq
  <2>3. Reading(s) = [messages |-> Reading(s).messages, current |-> Reading(s).current]
    BY <1>0
  <2> QED BY <2>1, <2>2, <2>3
<1>2. ASSUME NEW v \in Seq(Char), NEW c \in Char, Q(v) PROVE Q(Append(v, c))
  <2> SUFFICES ASSUME Newlines(Append(v, c)) = {} PROVE Reading(s \o Append(v, c)) = Put(Append(v, c))
    OBVIOUS
  <2>1. Newlines(v) = {} /\ c # Nl
    <3>1. /\ Len(v) \in Nat /\ Len(Append(v, c)) = Len(v) + 1 /\ Append(v, c)[Len(v) + 1] = c
          /\ \A i \in 1 .. Len(v) : Append(v, c)[i] = v[i]
      OBVIOUS
    <3> QED BY <3>1 DEF Newlines
  <2>2. s \o Append(v, c) = Append(s \o v, c) /\ s \o v \in Seq(Char)
    BY ConcatAppend
  <2>3. Reading(Append(s \o v, c)) = Read(Put(v), c)
    BY <1>2, <2>1, <2>2, ReadingAppend
  <2>4. PICK m, l : m = Reading(s).messages /\ l = Reading(s).current
    OBVIOUS
  <2>5. l \in Seq(Char)
    BY <1>0, <2>4 DEF Line
  <2>6. Append(l \o v, c) = l \o Append(v, c)
    BY <2>5, ConcatAppend
  <2>7. Read([messages |-> m, current |-> l \o v], c) = [messages |-> m, current |-> Append(l \o v, c)]
    BY <2>1 DEF Read
  <2> QED BY <2>2, <2>3, <2>4, <2>6, <2>7
<1> HIDE DEF Q
<1>3. Seq(Char) \subseteq T
  <2>1. <<>> \in Seq(Char) /\ \A v \in Seq(Char), c \in Char : Append(v, c) \in Seq(Char)
    OBVIOUS
  <2>2. <<>> \in T /\ \A v \in Seq(Char), c \in Char : v \in T => Append(v, c) \in T
    BY <2>1, <1>1, <1>2
  <2> HIDE DEF T
  <2> QED BY <2>2, TextInduction
<1>4. Q(w)
  BY <1>3
<1>5. Reading(s \o w) = Put(w)
  BY <1>4 DEF Q
<1> QED BY <1>5

\* Texts that the reference finds as many messages in, whatever comes behind them.
Alike(s, t) ==
    /\ Len(Reading(s).messages) = Len(Reading(t).messages)
    /\ \A l \in Line : Adds(Reading(s).current \o l) <=> Adds(Reading(t).current \o l)

\* They stay alike when the same follows.
LEMMA AlikeConcat ==
    ASSUME NEW s \in Seq(Char), NEW t \in Seq(Char), NEW w \in Seq(Char), Alike(s, t)
    PROVE  Alike(s \o w, t \o w)
<1> DEFINE Q(v) == Alike(s \o v, t \o v)
           T == {v \in Seq(Char) : Q(v)}
<1>1. Q(<<>>)
  <2>1. s \o <<>> = s /\ t \o <<>> = t
    OBVIOUS
  <2> QED BY <2>1
<1>2. ASSUME NEW v \in Seq(Char), NEW c \in Char, Q(v) PROVE Q(Append(v, c))
  <2>1. PICK a, b : a = s \o v /\ b = t \o v
    OBVIOUS
  <2>2. /\ a \in Seq(Char) /\ b \in Seq(Char) /\ Alike(a, b)
        /\ s \o Append(v, c) = Append(a, c) /\ t \o Append(v, c) = Append(b, c)
    BY <1>2, <2>1, ConcatAppend
  <2>3. PICK p, q : p = Reading(a) /\ q = Reading(b)
    OBVIOUS
  <2>4. /\ p.messages \in Seq(Line) /\ q.messages \in Seq(Line)
        /\ p.current \in Seq(Char) /\ q.current \in Seq(Char)
    BY <2>2, <2>3, ReadingType DEF Line
  <2>5. /\ Len(p.messages) = Len(q.messages)
        /\ \A l \in Line : Adds(p.current \o l) <=> Adds(q.current \o l)
    BY <2>2, <2>3 DEF Alike
  <2>6. Reading(Append(a, c)) = Read(p, c) /\ Reading(Append(b, c)) = Read(q, c)
    BY <2>2, <2>3, ReadingAppend
  <2>7. CASE c = Nl
    <3>1. Adds(p.current) <=> Adds(q.current)
      <4>1. <<>> \in Line /\ p.current \o <<>> = p.current /\ q.current \o <<>> = q.current
        BY <2>4, ConcatEmptySeq DEF Line
      <4>2. Adds(p.current \o <<>>) <=> Adds(q.current \o <<>>)
        BY <2>5, <4>1
      <4> QED BY <4>1, <4>2
    <3>2. /\ Read(p, c).current = <<>> /\ Read(q, c).current = <<>>
          /\ Read(p, c).messages = IF Adds(p.current) THEN Append(p.messages, p.current)
                                   ELSE p.messages
          /\ Read(q, c).messages = IF Adds(q.current) THEN Append(q.messages, q.current)
                                   ELSE q.messages
      BY <2>7 DEF Read
    <3>3. /\ Len(Append(p.messages, p.current)) = Len(p.messages) + 1
          /\ Len(Append(q.messages, q.current)) = Len(q.messages) + 1
      BY <2>4 DEF Line
    <3>4. Len(Read(p, c).messages) = Len(Read(q, c).messages)
      BY <2>5, <3>1, <3>2, <3>3
    <3> QED BY <2>2, <2>6, <3>2, <3>4 DEF Alike
  <2>8. CASE c # Nl
    <3>1. /\ Read(p, c) = [messages |-> p.messages, current |-> Append(p.current, c)]
          /\ Read(q, c) = [messages |-> q.messages, current |-> Append(q.current, c)]
      BY <2>8 DEF Read
    <3>2. ASSUME NEW l \in Line
          PROVE  Adds(Append(p.current, c) \o l) <=> Adds(Append(q.current, c) \o l)
      <4>1. PICK m : m = <<c>> \o l
        OBVIOUS
      <4>2. m \in Line
        BY <4>1 DEF Line
      <4>3. Append(p.current, c) \o l = p.current \o m /\ Append(q.current, c) \o l = q.current \o m
        BY <2>4, <4>1, AppendConcat DEF Line
      <4> QED BY <2>5, <4>2, <4>3
    <3>3. /\ Read(p, c).messages = p.messages /\ Read(p, c).current = Append(p.current, c)
          /\ Read(q, c).messages = q.messages /\ Read(q, c).current = Append(q.current, c)
      BY <3>1
    <3> QED BY <2>2, <2>5, <2>6, <3>2, <3>3 DEF Alike
  <2> QED BY <2>7, <2>8
<1> HIDE DEF Q
<1>3. Seq(Char) \subseteq T
  <2>1. <<>> \in Seq(Char) /\ \A v \in Seq(Char), c \in Char : Append(v, c) \in Seq(Char)
    OBVIOUS
  <2>2. <<>> \in T /\ \A v \in Seq(Char), c \in Char : v \in T => Append(v, c) \in T
    BY <2>1, <1>1, <1>2
  <2> HIDE DEF T
  <2> QED BY <2>2, TextInduction
<1>4. Q(w)
  BY <1>3
<1> QED BY <1>4 DEF Q

\* A harmless cut leaves them alike.
LEMMA CutAlike ==
    ASSUME NEW whole \in Seq(Char), NEW pieces \in Seq(Char), CutIsHarmless(whole, pieces, Line)
    PROVE  Alike(pieces, whole)
<1>1. PICK i \in 0 .. Len(whole), k \in 0 .. Len(pieces) : \E j \in i .. Len(whole) :
        LET before == SubSeq(whole, 1, i)
            cut == SubSeq(whole, i + 1, j)
            after == SubSeq(whole, j + 1, Len(whole))
            replaced == SubSeq(pieces, i + 1, k)
            line == Reading(before).current
        IN  /\ i <= k /\ pieces = (before \o replaced) \o after
            /\ Newlines(cut) = {} /\ Newlines(replaced) = {}
            /\ \A l \in Line : Adds((line \o cut) \o l) <=> Adds((line \o replaced) \o l)
  BY DEF CutIsHarmless
<1>2. PICK j \in i .. Len(whole) :
        LET before == SubSeq(whole, 1, i)
            cut == SubSeq(whole, i + 1, j)
            after == SubSeq(whole, j + 1, Len(whole))
            replaced == SubSeq(pieces, i + 1, k)
            line == Reading(before).current
        IN  /\ i <= k /\ pieces = (before \o replaced) \o after
            /\ Newlines(cut) = {} /\ Newlines(replaced) = {}
            /\ \A l \in Line : Adds((line \o cut) \o l) <=> Adds((line \o replaced) \o l)
  BY <1>1
<1>3. PICK u, c, v, w : u = SubSeq(whole, 1, i) /\ c = SubSeq(whole, i + 1, j)
                        /\ v = SubSeq(whole, j + 1, Len(whole)) /\ w = SubSeq(pieces, i + 1, k)
  OBVIOUS
<1>0. Len(whole) \in Nat /\ Len(pieces) \in Nat /\ i \in Nat /\ j \in Nat /\ i <= j /\ j <= Len(whole)
      /\ k \in Nat /\ k <= Len(pieces)
  OBVIOUS
<1>4. u \in Seq(Char) /\ c \in Seq(Char) /\ v \in Seq(Char) /\ w \in Seq(Char)
  BY <1>0, <1>3, PieceOfText
<1>5. whole = (u \o c) \o v
  <2>1. 1 \in 1 .. Len(whole) + 1 /\ i \in 1 - 1 .. Len(whole) /\ j \in i .. Len(whole)
        /\ j \in 1 - 1 .. Len(whole) /\ Len(whole) \in j .. Len(whole)
    BY <1>0
  <2>2. u \o c = SubSeq(whole, 1, j)
    BY <1>3, <2>1, ConcatAdjacentSubSeq
  <2>3. SubSeq(whole, 1, j) \o v = SubSeq(whole, 1, Len(whole))
    BY <1>3, <2>1, ConcatAdjacentSubSeq
  <2>4. SubSeq(whole, 1, Len(whole)) = whole
    OBVIOUS
  <2> QED BY <2>2, <2>3, <2>4
<1>6. /\ pieces = (u \o w) \o v /\ Newlines(c) = {} /\ Newlines(w) = {}
      /\ \A l \in Line : Adds((Reading(u).current \o c) \o l)
                            <=> Adds((Reading(u).current \o w) \o l)
  BY <1>2, <1>3
<1>7. Alike(u \o w, u \o c)
  <2>1. /\ Reading(u \o c).messages = Reading(u).messages
        /\ Reading(u \o c).current = Reading(u).current \o c
    BY <1>4, <1>6, ReadingWithinLine
  <2>2. /\ Reading(u \o w).messages = Reading(u).messages
        /\ Reading(u \o w).current = Reading(u).current \o w
    BY <1>4, <1>6, ReadingWithinLine
  <2> QED BY <2>1, <2>2, <1>6 DEF Alike
<1>8. u \o w \in Seq(Char) /\ u \o c \in Seq(Char)
  BY <1>4
<1> QED BY <1>4, <1>5, <1>6, <1>7, <1>8, AlikeConcat

\* What has been decoded is like the bytes decoded as one chunk.
CutsInv ==
    /\ over # "no" => ~feeding
    /\ Alike(decoded, Decode(SubSeq(Encode(text), 1, got)))

\* A chunk more keeps it so: this chunk is cut from those before it, and harmlessly.
LEMMA FeedKeepsCuts ==
    ASSUME \A t \in Text : Harmless(t, Line), SseInv, CutsInv, NEW n \in 1 .. Len(Encode(text)), Feed(n)
    PROVE  CutsInv'
<1>0. text \in Text /\ got \in 0 .. Len(Encode(text)) /\ decoded \in Seq(Char)
  BY DEF SseInv, SseTypeOK
<1>1. PICK e, g, d : e = Encode(text) /\ g = got /\ d = decoded
  OBVIOUS
<1>2. PICK old, new, all : /\ old = Decode(SubSeq(e, 1, g)) /\ new = Decode(SubSeq(e, g + 1, n))
                           /\ all = Decode(SubSeq(e, 1, n))
  OBVIOUS
<1>3. e \in Seq(Byte) /\ g \in 0 .. Len(e) /\ n \in 1 .. Len(e) /\ g < n /\ d \in Seq(Char)
  BY <1>0, <1>1, SseAssumption DEF Feed
<1>4. new \in Seq(Char) /\ all \in Seq(Char) /\ old \in Seq(Char)
  <2>1. \A m, k \in 1 .. Len(e) : Decode(SubSeq(e, m, k)) \in Seq(Char)
    BY <1>0, <1>1, SseAssumption
  <2>0. Len(e) \in Nat /\ g + 1 \in 1 .. Len(e) /\ n \in 1 .. Len(e) /\ 1 \in 1 .. Len(e)
        /\ (g # 0 => g \in 1 .. Len(e))
    BY <1>3
  <2>2. new \in Seq(Char) /\ all \in Seq(Char)
    BY <1>2, <2>0, <2>1
  <2>3. CASE g = 0
    <3>1. Decode(SubSeq(e, 1, 0)) = <<>>
      BY <1>0, <1>1 DEF Harmless
    <3>2. <<>> \in Seq(Char)
      OBVIOUS
    <3> QED BY <1>2, <2>2, <2>3, <3>1, <3>2
  <2>4. CASE g # 0
    BY <1>2, <2>0, <2>1, <2>2, <2>4
  <2> QED BY <2>3, <2>4
<1>5. Alike(d, old)
  BY <1>1, <1>2 DEF CutsInv
<1>6. CutIsHarmless(all, old \o new, Line)
  <2>1. \A m, k \in 0 .. Len(e) : m < k =>
          CutIsHarmless(Decode(SubSeq(e, 1, k)), Decode(SubSeq(e, 1, m)) \o Decode(SubSeq(e, m + 1, k)), Line)
    BY <1>0, <1>1 DEF Harmless
  <2>2. n \in 0 .. Len(e)
    BY <1>3
  <2> QED BY <1>2, <1>3, <2>1, <2>2
<1>7. Alike(d \o new, old \o new)
  BY <1>3, <1>4, <1>5, AlikeConcat
<1>8. Alike(old \o new, all)
  <2>1. PICK both : both = old \o new
    OBVIOUS
  <2>2. both \in Seq(Char) /\ CutIsHarmless(all, both, Line)
    BY <1>4, <1>6, <2>1
  <2> QED BY <1>4, <2>1, <2>2, CutAlike
<1>9. Alike(d \o new, all)
  BY <1>7, <1>8 DEF Alike
<1>10. text' = text /\ got' = n /\ over' = over /\ over = "no" /\ decoded' = d \o new
  BY <1>1, <1>2 DEF Feed
<1>11. Alike(decoded', Decode(SubSeq(Encode(text'), 1, got')))
  BY <1>1, <1>2, <1>9, <1>10
<1> QED BY <1>10, <1>11 DEF CutsInv, Alike, Reading

\* The other steps decode nothing.
LEMMA NextCuts ==
    ASSUME \A t \in Text : Harmless(t, Line), SseInv, CutsInv, [SseNext]_sseVars
    PROVE  CutsInv'
<1>1. CASE \E n \in 1 .. Len(Encode(text)) : Feed(n)
  BY <1>1, FeedKeepsCuts
<1>2. CASE TakeLine \/ FeedReturns \/ Finalize \/ UNCHANGED sseVars
  <2>1. UNCHANGED <<text, got, decoded>>
    BY <1>2 DEF TakeLine, FeedReturns, Finalize, sseVars
  <2>2. Alike(decoded, Decode(SubSeq(Encode(text), 1, got)))'
    BY <2>1 DEF CutsInv, Alike, Reading
  <2>3. (over # "no" => ~feeding)'
    <3>1. CASE TakeLine
      BY <3>1 DEF TakeLine, CutsInv
    <3>2. CASE FeedReturns
      BY <3>2 DEF FeedReturns
    <3>3. CASE Finalize
      BY <3>3 DEF Finalize
    <3>4. CASE UNCHANGED sseVars
      BY <3>4 DEF sseVars, CutsInv
    <3> QED BY <1>2, <3>1, <3>2, <3>3, <3>4
  <2> QED BY <2>2, <2>3 DEF CutsInv
<1> QED BY <1>1, <1>2 DEF SseNext

\* A character that is cut costs no message (sse.py:31), wherever the stream is cut, if in
\* what the upstream sends no cut makes or breaks a message.
THEOREM SseCutsCostNoMessage ==
    ASSUME \A t \in Text : Harmless(t, Line)
    PROVE  SseSpec => []CutsCostNoMessage
<1>1. SseInit => CutsInv
  <2> SUFFICES ASSUME SseInit PROVE CutsInv
    OBVIOUS
  <2>1. text \in Text /\ got = 0 /\ decoded = <<>> /\ over = "no" /\ feeding = FALSE
    BY DEF SseInit
  <2>2. Decode(SubSeq(Encode(text), 1, 0)) = <<>>
    BY <2>1 DEF Harmless
  <2> QED BY <2>1, <2>2 DEF CutsInv, Alike
<1>2. SseInv /\ CutsInv /\ [SseNext]_sseVars => CutsInv'
  BY NextCuts
<1>3. SseInv /\ Reassembles /\ CutsInv => CutsCostNoMessage
  <2> SUFFICES ASSUME SseInv, Reassembles, CutsInv, over # "no", got = Len(Encode(text)), Newlines(buf) = {}
               PROVE  Len(parts) = Len(Messages(text))
    BY DEF CutsCostNoMessage
  <2>1. parts = Messages(decoded)
    BY DEF Reassembles, CutsInv
  <2>2. Alike(decoded, text)
    BY DEF CutsInv, Harmless, SseInv, SseTypeOK
  <2> QED BY <2>1, <2>2 DEF Alike, Messages
<1> QED BY SseInvariant, SseReassembles, <1>1, <1>2, <1>3, PTL DEF SseSpec
=============================================================================
