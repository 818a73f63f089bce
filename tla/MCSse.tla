-------------------------------- MODULE MCSse --------------------------------
(***************************************************************************)
(* The tap on all short texts over a letter, a character of two bytes, a   *)
(* newline, the first character of a line that raises, and one that makes  *)
(* a comment at the start of a line and what is no text within it.         *)
(***************************************************************************)
EXTENDS Sse, FiniteSets, SequencesExt

MCChar == {"a", "é", "nl", ":", "!", "?"}
MCByte == {"a", "lead", "tail", "nl", ":", "!"}
MCText == BoundedSeq({"a", "é", "nl", ":", "!"}, 6)

\* UTF-8: one character takes two bytes.
MCEncode(t) == FlattenSeq([i \in DOMAIN t |-> IF t[i] = "é" THEN <<"lead", "tail">> ELSE <<t[i]>>])

\* bytes.decode: a lead with its tail is the character, each alone is replaced.
MCDecode(b) ==
    LET Pair(i) == b[i] = "lead" /\ i < Len(b)
    IN  FlattenSeq([i \in DOMAIN b |->
            CASE Pair(i) -> <<"é">>
              [] b[i] = "lead" /\ ~Pair(i) -> <<"?">>
              [] b[i] = "tail" -> IF i = 1 THEN <<"?">> ELSE <<>>
              [] OTHER -> <<b[i]>>])

\* ":" is a comment, "!" raises at once and with more of a line behind it midway, and a line
\* with ":" within adds what is no text.
MCKind(line) ==
    IF line = <<>> \/ Head(line) = ":" THEN {}
    ELSE (IF line = <<"!">> THEN {} ELSE {"adds"})
            \cup (IF Head(line) = "!" THEN {"raises"} ELSE {})
            \cup (IF ":" \in {line[i] : i \in DOMAIN line} THEN {"untext"} ELSE {})

\* What the proof asks of the encoding and the format of the lines, up to lines of one more
\* character: no longer end of a line matters here.
ASSUME CutsAreHarmless == \A t \in MCText : Harmless(t, BoundedSeq(MCChar, 1))
=============================================================================
