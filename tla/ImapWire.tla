------------------------------- MODULE ImapWire -------------------------------
(***************************************************************************)
(* The answer to one command, as the IMAP client reads it                   *)
(* (src/core/mail/imap-client.ts): bytes arrive one after another, whole    *)
(* lines are queued, and the command takes them until the tagged one.  A    *)
(* line that ends in {N} is followed by N bytes of any kind, line ends and  *)
(* tags among them, which the client puts together from lines again.        *)
(*                                                                         *)
(* A byte is a letter: "R" and "L" end a line, "T" stands for the tag and   *)
(* a number n for {n} at the end of a line.  "h" is a byte that is no       *)
(* UTF-8: the decoder makes three of it.                                    *)
(***************************************************************************)
EXTENDS Naturals, Sequences

CONSTANTS
    Letters,                    \* what a literal may hold, besides "R" and "L"
    MaxLiteral                  \* bound: bytes of a literal, at most 9

VARIABLES answer, wire, buffer, pendingLines, reader

vars == <<answer, wire, buffer, pendingLines, reader>>

LineEnd == <<"R", "L">>
Literals == UNION {[1 .. n -> Letters \cup {"R", "L"}] : n \in 0 .. MaxLiteral}
Digits == <<"0", "1", "2", "3", "4", "5", "6", "7", "8", "9">>
Marker(n) == <<"{", Digits[n + 1]>>
Ends(line) == Len(line) > 1 /\ line[Len(line) - 1] = "{"
IsLine(text) == Len(text) > 1 /\ SubSeq(text, Len(text) - 1, Len(text)) = LineEnd

\* Lines before the literal, the literal, and what follows on its last line: nothing, a
\* bracket, or a second literal.
Answers == [before : {<<>>, <<<<"x">>>>}, literal : Literals,
            tail : {<<>>, <<"x">>, <<"x">> \o Marker(1)}]
Second == <<"x">>
HasSecond(a) == Ends(a.tail)

Sent(a) ==
    (IF a.before = <<>> THEN <<>> ELSE Head(a.before) \o LineEnd)
    \o <<"x">> \o Marker(Len(a.literal)) \o LineEnd \o a.literal \o a.tail \o LineEnd
    \o (IF HasSecond(a) THEN Second \o LineEnd ELSE <<>>) \o <<"T">> \o LineEnd

Reading == [mode |-> "line", size |-> 0, collected |-> <<>>, untagged |-> <<>>, literals |-> <<>>]

Init ==
    /\ answer \in Answers
    /\ wire = Sent(answer)
    /\ buffer = <<>> /\ pendingLines = <<>>
    /\ reader = Reading

\* onData, dispatchLine
Arrive ==
    /\ wire # <<>> /\ wire' = Tail(wire)
    /\ LET line == Append(buffer, Head(wire))
       IN  IF IsLine(line)
           THEN /\ buffer' = <<>>
                /\ pendingLines' = Append(pendingLines, SubSeq(line, 1, Len(line) - 2))
           ELSE buffer' = line /\ UNCHANGED pendingLines
    /\ UNCHANGED <<answer, reader>>

\* The bytes of the decoded text.
Encoded(text) ==
    LET first[n \in 0 .. Len(text)] ==
            IF n = 0 THEN <<>>
            ELSE first[n - 1] \o IF text[n] = "h" THEN <<"?", "?", "?">> ELSE <<text[n]>>
    IN  first[Len(text)]

\* Buffer.byteLength
Bytes(text) == Len(Encoded(text))

\* What comes with a line: a literal of n bytes, of none, or nothing.
Follow(r, line) ==
    LET taken == [r EXCEPT !.untagged = Append(@, line), !.mode = "line"]
    IN  IF ~Ends(line) THEN taken
        ELSE LET n == CHOOSE i \in 0 .. 9 : Digits[i + 1] = line[Len(line)]
             IN  [taken EXCEPT !.mode = IF n = 0 THEN "tail" ELSE "literal", !.size = n,
                                 !.collected = <<>>, !.literals = IF n = 0 THEN Append(@, <<>>) ELSE @]

Enough(r, collected) == Bytes(collected) >= r.size

\* Mutant: a literal that ends with a line has no rest.
CollectWithoutTail(r, line) ==
    LET collected == r.collected \o line \o LineEnd
        bytes == Encoded(collected)
        rest == SubSeq(bytes, r.size + 1, Len(bytes))
        taken == [r EXCEPT !.literals = Append(@, SubSeq(bytes, 1, r.size))]
    IN  IF ~Enough(r, collected) THEN [r EXCEPT !.collected = collected]
        ELSE Follow(taken, IF IsLine(rest) THEN SubSeq(rest, 1, Len(rest) - 2) ELSE rest)

\* readLiteral
Collect(r, line) ==
    LET collected == r.collected \o line \o LineEnd
        bytes == Encoded(collected)
        rest == SubSeq(bytes, r.size + 1, Len(bytes))
        taken == [r EXCEPT !.literals = Append(@, SubSeq(bytes, 1, r.size))]
    IN  IF ~Enough(r, collected) THEN [r EXCEPT !.collected = collected]
        ELSE IF rest = <<>> THEN [taken EXCEPT !.mode = "tail"]
        ELSE Follow(taken, IF IsLine(rest) THEN SubSeq(rest, 1, Len(rest) - 2) ELSE rest)

\* Mutant: the tag is looked for in every line.
ReadForTag(r, line) ==
    IF Len(line) > 0 /\ line[1] = "T" THEN [r EXCEPT !.mode = "done"]
    ELSE IF r.mode = "literal" THEN Collect(r, line)
    ELSE Follow(r, line)

ReadBy(r, line) ==
    IF r.mode = "line" /\ Len(line) > 0 /\ line[1] = "T" THEN [r EXCEPT !.mode = "done"]
    ELSE IF r.mode = "literal" THEN Collect(r, line)
    ELSE Follow(r, line)

\* readLine, command
Read ==
    /\ reader.mode # "done" /\ pendingLines # <<>>
    /\ reader' = ReadBy(reader, Head(pendingLines)) /\ pendingLines' = Tail(pendingLines)
    /\ UNCHANGED <<answer, wire, buffer>>

Next == Arrive \/ Read

Spec == Init /\ [][Next]_vars
-----------------------------------------------------------------------------
TypeOK ==
    /\ answer \in Answers
    /\ reader.mode \in {"line", "literal", "tail", "done"} /\ reader.size \in 0 .. MaxLiteral

\* A command returns when the whole answer was read and not before, with the lines and the
\* literals the server sent, whatever the literal holds and however the bytes are split: a
\* literal of valid text is never taken for a line, a tag or the rest of one (imap-client.ts:
\* command, readLiteral).
AnswerReadWhole ==
    reader.mode = "done" /\ (\A i \in DOMAIN answer.literal : answer.literal[i] # "h")
        => /\ wire = <<>> /\ pendingLines = <<>>
           /\ reader.literals =
                <<answer.literal>> \o IF HasSecond(answer) THEN <<Second>> ELSE <<>>
           /\ reader.untagged =
                answer.before \o <<<<"x">> \o Marker(Len(answer.literal)), answer.tail>>
                \o IF HasSecond(answer) THEN <<<<>>>> ELSE <<>>
=============================================================================
