------------------------------- MODULE Parser -------------------------------
(***************************************************************************)
(* Class Parser (src/Parser.cpp): the prefix, the command and the          *)
(* parameters of a line.  A line is a sequence of characters; positions    *)
(* count from 1 and may be one past the end.                               *)
(***************************************************************************)
EXTENDS Naturals, FiniteSets, SequencesExt

CONSTANT Upper      \* toupper, a function on the characters of lines

Space == " "

ASSUME UpperAssumption ==
    /\ Upper \in [DOMAIN Upper -> DOMAIN Upper]
    /\ \A c \in DOMAIN Upper : Upper[Upper[c]] = Upper[c] /\ (Upper[c] = Space => c = Space)

\* Mutant of SkipSpaces: one space is skipped.
SkipSpace(line, pos) == IF pos <= Len(line) /\ line[pos] = Space THEN pos + 1 ELSE pos

\* The first position from pos on that is no space.
SkipSpaces(line, pos) ==
    Min({q \in pos..Len(line) : line[q] # Space} \cup {Len(line) + 1})

\* The first position from pos on that is a space.
EndOfWord(line, pos) ==
    Min({q \in pos..Len(line) : line[q] = Space} \cup {Len(line) + 1})

\* Mutant of Params: a ':' is dropped, but does not make the rest one parameter.
ParamsOfWords(line, from) ==
    LET params[pos \in 1..Len(line) + 1] ==
            LET p == SkipSpaces(line, pos)
                q == EndOfWord(line, p)
            IN  IF p > Len(line) THEN << >>
                ELSE IF line[p] = ":" THEN <<SubSeq(line, p + 1, q - 1)>> \o params[q]
                ELSE <<SubSeq(line, p, q - 1)>> \o params[q]
    IN  params[from]

\* parseParams: words, up to one that begins with ':' and is all the rest.
Params(line, from) ==
    LET params[pos \in 1..Len(line) + 1] ==
            LET p == SkipSpaces(line, pos)
                q == EndOfWord(line, p)
            IN  IF p > Len(line) THEN << >>
                ELSE IF line[p] = ":" THEN <<SubSeq(line, p + 1, Len(line))>>
                ELSE <<SubSeq(line, p, q - 1)>> \o params[q]
    IN  params[from]

\* parse, with parsePrefix and parseCommand.
Parse(line) ==
    LET start     == SkipSpaces(line, 1)
        prefixed  == start <= Len(line) /\ line[start] = ":"
        prefixEnd == IF prefixed THEN EndOfWord(line, start) ELSE start
        word      == SkipSpaces(line, prefixEnd)
        wordEnd   == EndOfWord(line, word)
    IN  IF start > Len(line)
        THEN [prefix |-> << >>, command |-> << >>, params |-> << >>]
        ELSE [prefix  |-> IF prefixed THEN SubSeq(line, start + 1, prefixEnd - 1) ELSE << >>,
              command |-> [i \in 1..wordEnd - word |-> Upper[line[word + i - 1]]],
              params  |-> Params(line, SkipSpaces(line, wordEnd))]
=============================================================================
