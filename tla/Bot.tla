-------------------------------- MODULE Bot --------------------------------
(***************************************************************************)
(* The program ircbot (bot/main.cpp) and what the server does for it:      *)
(* handlePrivmsg (src/Messages.cpp), handleBotUsers and handleBotChannels  *)
(* (src/Queries.cpp).  The two run side by side; a stream of lines goes    *)
(* each way, and each side reads when it likes.                            *)
(*                                                                         *)
(* Clients are known by their nicknames.  Who is in a channel changes as   *)
(* ChannelCommands says; here only the effect of JOIN, PART and KICK on    *)
(* the sets of members is kept.                                            *)
(***************************************************************************)
EXTENDS Naturals, Sequences, SequencesExt

CONSTANTS
    Humans,         \* the nicknames of the other clients
    Channels,       \* channel names
    General, Home,  \* "#general" and "#bot"
    Targets,        \* where humans write
    Texts,          \* what they write
    MaxMessages,    \* bound on the messages of humans
    MaxMoves        \* bound on the changes of membership

Ircbot == "ircbot"

\* No other client has the nickname of the bot: handleNick refuses one that is
\* in use (src/Registration.cpp:152-168).
ASSUME BotAssumption == {General, Home} \subseteq Channels /\ Ircbot \notin Humans

\* The commands the bot answers at once, and those it asks the server about.
DirectCommands == {"!help", "!ping", "!hello"}
ListCommands   == {"!users", "!channels"}

VARIABLES
    members,        \* _clients of each channel
    registered,     \* the bot is registered
    toServer,       \* lines from the bot that the server has not handled
    toBot,          \* lines for the bot that it has not received
    input,          \* lines in the bot's buffer
    responseTarget, \* static responseTarget of handleMessage
    messages, moves \* used up of MaxMessages and MaxMoves

\* What a reader of the two streams has seen.
VARIABLES
    asked,          \* direct commands the bot was sent, by target
    answered,       \* those whose answers the server took, by target
    due             \* per list asked for: where the answer may go

server == <<members, registered>>
bot    == <<input, responseTarget>>
bounds == <<messages, moves>>
vars   == <<server, toServer, toBot, bot, bounds, asked, answered, due>>

\* main() sends PASS, NICK, USER and JOIN at once; the first three are one.
Init ==
    /\ members        \in [Channels -> SUBSET Humans]
    /\ registered     = FALSE
    /\ toServer       = <<[command |-> "USER"], [command |-> "JOIN"]>>
    /\ toBot          = << >>
    /\ input          = << >>
    /\ responseTarget = Home
    /\ messages = 0 /\ moves = 0
    /\ asked    = [t \in Channels \cup {Ircbot} |-> << >>]
    /\ answered = [t \in Channels \cup {Ircbot} |-> << >>]
    /\ due      = << >>

-----------------------------------------------------------------------------
(* The server *)

Present == IF registered THEN {Ircbot} ELSE {}

\* handlePrivmsg: who gets the message.  A channel without members does not
\* exist (403), only ircbot may write to one it is not in (442), and ircbot
\* hears all channels (broadcastToChannel); a nickname that nobody has is
\* refused (401).
Hearers(from, target) ==
    IF target \notin Channels THEN {target} \cap (Humans \cup Present)
    ELSE IF members[target] # {} /\ from \in members[target] \cup {Ircbot}
         THEN (members[target] \cup Present) \ {from}
         ELSE {}

HandlePrivmsg(from, target, text) ==
    toBot' = IF Ircbot \in Hearers(from, target)
             THEN Append(toBot, [kind |-> "PRIVMSG", from |-> from,
                                 target |-> target, text |-> text])
             ELSE toBot

HumanWrites(from, target, text) ==
    /\ messages < MaxMessages
    /\ messages' = messages + 1
    /\ HandlePrivmsg(from, target, text)
    /\ LET heard == Ircbot \in Hearers(from, target)
       IN  asked' = IF heard /\ text \in DirectCommands
                    THEN [asked EXCEPT ![target] = Append(@, text)] ELSE asked
    /\ UNCHANGED <<server, toServer, bot, moves, answered, due>>

\* JOIN, PART and KICK; ircbot itself only joins as RegisterBot and JoinHome say.
Move(c, ch) ==
    /\ moves < MaxMoves
    /\ moves' = moves + 1
    /\ \/ c \in members[ch] /\ members' = [members EXCEPT ![ch] = @ \ {c}]
       \/ c \in Humans \ members[ch] /\ members' = [members EXCEPT ![ch] = @ \cup {c}]
    /\ UNCHANGED <<registered, toServer, toBot, bot, messages, asked, answered, due>>

\* The server takes the next line of the bot.
Take(command) ==
    /\ toServer # << >>
    /\ Head(toServer).command = command
    /\ toServer' = Tail(toServer)

\* The registration ends with the default JOIN.
RegisterBot ==
    /\ Take("USER")
    /\ registered' = TRUE
    /\ members' = [members EXCEPT ![General] = @ \cup {Ircbot}]
    /\ UNCHANGED <<toBot, bot, bounds, asked, answered, due>>

JoinHome ==
    /\ Take("JOIN")
    /\ members' = [members EXCEPT ![Home] = @ \cup {Ircbot}]
    /\ UNCHANGED <<registered, toBot, bot, bounds, asked, answered, due>>

\* An answer counts once the server has taken its line, also when it refuses
\* it because the channel has gone meanwhile (403).
BotWrites ==
    /\ Take("PRIVMSG")
    /\ LET line == Head(toServer)
       IN  /\ HandlePrivmsg(Ircbot, line.target, line.text)
           /\ answered' = IF line.to \in DirectCommands
                          THEN [answered EXCEPT ![line.target] = Append(@, line.to)]
                          ELSE answered
    /\ UNCHANGED <<server, bot, bounds, asked, due>>

HandleBotUsers ==
    /\ Take("BOTUSERS")
    /\ toBot' = Append(toBot, [kind |-> "900"])
    /\ UNCHANGED <<server, bot, bounds, asked, answered, due>>

HandleBotChannels ==
    /\ Take("BOTCHANNELS")
    /\ toBot' = Append(toBot, [kind |-> "901"])
    /\ UNCHANGED <<server, bot, bounds, asked, answered, due>>

-----------------------------------------------------------------------------
(* The bot *)

\* recv(), once the buffer holds no line.
Recv ==
    /\ input = << >>
    /\ \E n \in 1..Len(toBot) :
          /\ input' = SubSeq(toBot, 1, n)
          /\ toBot' = SubSeq(toBot, n + 1, Len(toBot))
    /\ UNCHANGED <<server, toServer, responseTarget, bounds, asked, answered, due>>

\* Mutant of Erased: the lines received together with this one are dropped.
ErasedAll(buffer) == << >>

Erased(buffer) == Tail(buffer)

\* sendCommand of a PRIVMSG that answers the command `to'.
Answer(target, to) ==
    toServer' = Append(toServer, [command |-> "PRIVMSG", target |-> target,
                                  text |-> "answer", to |-> to])

\* Mutant of Heeded: the bot heeds its own messages.
HeededAlways(line) == line.kind = "PRIVMSG" /\ line.text # "with 900 inside"

\* A message the bot looks at.  One with " 900 " in it is taken for a reply
\* of the server, but has no list; ircbot's own are ignored.
Heeded(line) == line.kind = "PRIVMSG" /\ line.text # "with 900 inside" /\ line.from # Ircbot

\* Mutant of AnswerTarget: the target is taken before responseTarget follows.
AnswerTargetBefore(line) == responseTarget

AnswerTarget(line) == line.target

Next900 == input # << >> /\ Head(input).kind \in {"900", "901"}

\* 900 or 901: the list is passed on to responseTarget.
PassOnList ==
    /\ Next900
    /\ input' = Erased(input)
    /\ Answer(responseTarget, IF Head(input).kind = "900" THEN "!users" ELSE "!channels")
    /\ due' = Tail(due)
    /\ UNCHANGED <<server, toBot, responseTarget, bounds, asked, answered>>

IgnoreMessage ==
    /\ input # << >>
    /\ ~Next900
    /\ ~Heeded(Head(input))
    /\ input' = Erased(input)
    /\ UNCHANGED <<server, toServer, toBot, responseTarget, bounds, asked, answered, due>>

\* Whatever a human says moves responseTarget, command or not.
HandleMessage ==
    /\ input # << >>
    /\ Heeded(Head(input))
    /\ input' = Erased(input)
    /\ LET line  == Head(input)
           heard == IF line.from = Ircbot THEN {} ELSE {line.target}
           later == [i \in DOMAIN due |-> due[i] \cup heard]
       IN  /\ responseTarget' = line.target
           /\ CASE line.text \in DirectCommands ->
                      Answer(AnswerTarget(line), line.text) /\ due' = later
                [] line.text = "!users" ->
                      toServer' = Append(toServer, [command |-> "BOTUSERS"])
                      /\ due' = Append(later, heard)
                [] line.text = "!channels" ->
                      toServer' = Append(toServer, [command |-> "BOTCHANNELS"])
                      /\ due' = Append(later, heard)
                [] OTHER ->
                      toServer' = toServer /\ due' = later
    /\ UNCHANGED <<server, toBot, bounds, asked, answered>>

-----------------------------------------------------------------------------
TakesLine == RegisterBot \/ JoinHome \/ BotWrites \/ HandleBotUsers \/ HandleBotChannels
Handles   == PassOnList \/ IgnoreMessage \/ HandleMessage

Next ==
    \/ \E h \in Humans, target \in Targets, text \in Texts : HumanWrites(h, target, text)
    \/ \E c \in Humans \cup {Ircbot}, ch \in Channels : Move(c, ch)
    \/ TakesLine
    \/ Recv
    \/ Handles

\* The server serves a client that has written, and the bot does nothing but
\* read and handle; humans need not write.
Spec == Init /\ [][Next]_vars /\ WF_vars(TakesLine) /\ WF_vars(Recv) /\ WF_vars(Handles)

-----------------------------------------------------------------------------
\* In every channel the answers to !help, !ping and !hello are those of the
\* commands given there, in their order, whatever else the bot is asked in
\* other channels or in private meanwhile (handleMessage, bot/main.cpp:87-107).
\* The answers are those the server takes, delivered or refused.
AnswersFollowQuestions ==
    \A ch \in Channels : IsPrefix(answered[ch], asked[ch])

\* A list goes where it was asked for, or to where a human has written since
\* (responseTarget, bot/main.cpp:49): what the bot itself writes, and gets
\* back when it writes to itself, never leads a list elsewhere.
ListsStayClose ==
    [][PassOnList => responseTarget \in Head(due)]_vars

\* Every command that reaches the bot is answered in the end, and once, to the
\* target it was written to (which in private is ircbot itself), in that the
\* server takes the answer, delivered or refused: the bot handles all the lines
\* that come in one recv(), and a list asked of the server comes back
\* (bot/main.cpp:182-201, src/Queries.cpp:134-178).
EveryCommandAnswered ==
    <>[](answered = asked /\ due = << >>)
=============================================================================
