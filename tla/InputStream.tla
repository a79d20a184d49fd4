----------------------------- MODULE InputStream -----------------------------
(***************************************************************************)
(* From the bytes of one connection to commands: handleClientRead and      *)
(* extractCommands of src/Server.cpp, with class Parser.  TCP cuts the     *)
(* stream anywhere; each recv() brings the next few characters.            *)
(***************************************************************************)
EXTENDS Parser

CONSTANTS
    Stream,     \* the streams a client may send
    Chunk,      \* the most characters of a recv()
    Quit        \* the command word QUIT

ASSUME ChunkAssumption == Chunk \in Nat \ {0}
ASSUME StreamAssumption == \A s \in Stream : s \in Seq(DOMAIN Upper)

VARIABLES
    stream,     \* everything the client sends
    inBuffer,   \* _inBuffer
    received,   \* how much of the stream was received
    executed,   \* the commands given to processCommand
    connected   \* the client is in _clients

vars == <<stream, inBuffer, received, executed, connected>>

Init ==
    /\ stream \in Stream
    /\ inBuffer  = << >>
    /\ received  = 0
    /\ executed  = << >>
    /\ connected = TRUE

\* Mutant of LineFeed: a line feed at the very beginning is not seen.
LineFeedInside(buf) ==
    IF buf # << >> /\ Head(buf) = "\n" THEN 0
    ELSE Min({i \in DOMAIN buf : buf[i] = "\n"} \cup {Len(buf) + 1}) % (Len(buf) + 1)

\* find('\n'); 0 if there is none.
LineFeed(buf) == Min({i \in DOMAIN buf : buf[i] = "\n"} \cup {Len(buf) + 1}) % (Len(buf) + 1)

\* One '\r' before the '\n' is stripped.
LineOf(text) == IF text # << >> /\ Last(text) = "\r" THEN Front(text) ELSE text

\* Mutant of Appended: what was left of the last read is forgotten.
AppendedForgotten(buf, data) == data

\* appendToInBuffer
Appended(buf, data) == buf \o data

\* handleClientRead: recv(), once extractCommands has run dry.
HandleClientRead ==
    /\ connected
    /\ LineFeed(inBuffer) = 0
    /\ \E n \in 1..Chunk :
          /\ received + n <= Len(stream)
          /\ inBuffer' = Appended(inBuffer, SubSeq(stream, received + 1, received + n))
          /\ received' = received + n
    /\ UNCHANGED <<stream, executed, connected>>

\* One iteration of extractCommands: an empty line is skipped, QUIT ends the
\* connection and what follows it is not executed.
ExtractCommand ==
    /\ connected
    /\ LineFeed(inBuffer) # 0
    /\ LET line == LineOf(SubSeq(inBuffer, 1, LineFeed(inBuffer) - 1))
       IN  /\ inBuffer'  = SubSeq(inBuffer, LineFeed(inBuffer) + 1, Len(inBuffer))
           /\ executed'  = IF line = << >> THEN executed ELSE Append(executed, Parse(line))
           /\ connected' = (line = << >> \/ Parse(line).command # Quit)
    /\ UNCHANGED <<stream, received>>

Next == HandleClientRead \/ ExtractCommand

Spec == Init /\ [][Next]_vars /\ WF_vars(Next)

-----------------------------------------------------------------------------
(* What the stream means, whole *)

Feeds(s) == {i \in DOMAIN s : s[i] = "\n"}

\* The text between the line feed at i and the one before it.
TextAt(s, i) == SubSeq(s, Max({0} \cup {j \in Feeds(s) : j < i}) + 1, i - 1)

\* The command of the line that ends at i; an empty line has none.
CommandAt(s, i) ==
    LET line == LineOf(TextAt(s, i))
    IN  IF i \notin Feeds(s) \/ line = << >> THEN << >> ELSE <<Parse(line)>>

AllCommands(s) == FlattenSeq([i \in DOMAIN s |-> CommandAt(s, i)])

\* The commands up to the first QUIT.
UpToQuit(all) ==
    SubSeq(all, 1, Min({k \in DOMAIN all : all[k].command = Quit} \cup {Len(all)}))

\* The commands of s: its complete lines that are not empty, up to the first QUIT.
Commands(s) == UpToQuit(AllCommands(s))

\* However the stream is cut, the commands executed so far, and those that
\* what is buffered and still to come will make, are those of the stream: no
\* line is split, joined, lost or executed twice, and nothing after a QUIT is
\* executed (appendToInBuffer, extractCommands).
ChunksDoNotMatter ==
    LET rest == inBuffer \o SubSeq(stream, received + 1, Len(stream))
    IN  executed \o (IF connected THEN Commands(rest) ELSE << >>) = Commands(stream)

IsWord(param) == param # << >> /\ Space \notin Range(param) /\ Head(param) # ":"

OnlyWords(params) == \A j \in DOMAIN params : j = Len(params) \/ IsWord(params[j])

\* No parameter but the last is empty, has a space or begins with ':', so a
\* handler that has got two parameters may look at the first character of the
\* first one (parseParams; handlePrivmsg, src/Messages.cpp:23 and :38).
ParamsAreWords == \A i \in DOMAIN executed : OnlyWords(executed[i].params)

\* The parameters as a line has them, the last one after a ':'.
Written(params) ==
    FlattenSeq([i \in DOMAIN params |->
        (IF i = Len(params) THEN <<Space, ":">> ELSE <<Space>>) \o params[i]])

\* A command as a line again: with a prefix when there is one, or when the
\* command would be read as one.
Format(c) ==
    LET prefix == IF c.prefix # << >> \/ c.command = << >> \/ Head(c.command) = ":"
                  THEN <<":">> \o c.prefix \o <<Space>> ELSE << >>
    IN  prefix \o c.command \o Written(c.params)

\* Nothing of a command is lost or moved to another field, however many spaces
\* and colons a line has: written as a line, it is read back the same (parse).
ReadBack ==
    \A i \in DOMAIN executed : Parse(Format(executed[i])) = executed[i]

\* In the end everything that is complete has been executed.
StreamExecuted == <>[](executed = Commands(stream))
=============================================================================
