---------------------------- MODULE BotTheorems ----------------------------
(***************************************************************************)
(* What holds of Bot for any clients, channels and texts.                  *)
(***************************************************************************)
EXTENDS Bot, Positions, SequenceTheorems, TLAPS

Places   == Channels \cup {Ircbot}
Commands == DirectCommands \cup ListCommands

BotLine ==
    [command : {"USER", "JOIN", "BOTUSERS", "BOTCHANNELS"}]
    \cup [command : {"PRIVMSG"}, target : Places, text : {"answer"}, to : Commands]

ServerLine ==
    [kind : {"PRIVMSG"}, from : Humans \cup {Ircbot}, target : Places,
     text : Texts \cup {"answer"}]
    \cup [kind : {"900", "901"}]

TypeOK ==
    /\ toServer \in Seq(BotLine)
    /\ toBot \in Seq(ServerLine)
    /\ input \in Seq(ServerLine)
    /\ responseTarget \in Places
    /\ asked \in [Places -> Seq(DirectCommands)]
    /\ answered \in [Places -> Seq(DirectCommands)]
    /\ due \in Seq(SUBSET Places)

\* What a line on its way means for the conversation at t: the command that
\* it answers, the command that it brings.
AnswerAt(t) ==
    [line \in BotLine |->
        IF line.command = "PRIVMSG" /\ line.target = t /\ line.to \in DirectCommands
        THEN <<line.to>> ELSE << >>]

QuestionAt(t) ==
    [line \in ServerLine |->
        IF line.kind = "PRIVMSG" /\ line.from # Ircbot /\ line.target = t
           /\ line.text \in DirectCommands
        THEN <<line.text>> ELSE << >>]

\* And for the lists: that one is asked for, that one comes.
Request ==
    [line \in BotLine |-> IF line.command \in {"BOTUSERS", "BOTCHANNELS"}
                          THEN <<"list">> ELSE << >>]

Reply ==
    [line \in ServerLine |-> IF line.kind \in {"900", "901"} THEN <<"list">> ELSE << >>]

\* The commands asked at t are those answered, those whose answer is on its
\* way, and those that the bot has still to read, in this order.
Conversation(t) ==
    asked[t] = ((answered[t] \o Reading(toServer, AnswerAt(t)))
                             \o Reading(input, QuestionAt(t))) \o Reading(toBot, QuestionAt(t))

Conversations == \A t \in Places : Conversation(t)

\* Every list that is due is on its way, there or back.
ListsOnTheirWay ==
    Len(due) = (Len(Reading(toServer, Request)) + Len(Reading(input, Reply)))
               + Len(Reading(toBot, Reply))

ListsMayGo == \A i \in DOMAIN due : responseTarget \in due[i]

Inv == TypeOK /\ Conversations /\ ListsOnTheirWay /\ ListsMayGo

-----------------------------------------------------------------------------
(* The lines *)

\* What the conversations and lists are read off the queues with is a function
\* from the lines of that queue to short sequences.
LEMMA LinesAreRead ==
    /\ \A t \in Places : /\ Reads(AnswerAt(t), BotLine, DirectCommands)
                         /\ Reads(QuestionAt(t), ServerLine, DirectCommands)
    /\ Reads(Request, BotLine, {"list"})
    /\ Reads(Reply, ServerLine, {"list"})
<1>1. ASSUME NEW t \in Places
      PROVE  Reads(AnswerAt(t), BotLine, DirectCommands)
  BY DEF Reads, AnswerAt
<1>2. ASSUME NEW t \in Places
      PROVE  Reads(QuestionAt(t), ServerLine, DirectCommands)
  BY DEF Reads, QuestionAt
<1> DEFINE one == <<"list">>
           none == << >>
<1>a. one \in Seq({"list"}) /\ none \in Seq({"list"})
  OBVIOUS
<1>3. Reads(Request, BotLine, {"list"})
  <2>1. Request = [line \in BotLine |-> IF line.command \in {"BOTUSERS", "BOTCHANNELS"}
                                        THEN one ELSE none]
    BY DEF Request
  <2> HIDE DEF one, none
  <2> QED
    BY <1>a, <2>1 DEF Reads
<1>4. Reads(Reply, ServerLine, {"list"})
  <2>1. Reply = [line \in ServerLine |-> IF line.kind \in {"900", "901"} THEN one ELSE none]
    BY DEF Reply
  <2> HIDE DEF one, none
  <2> QED
    BY <1>a, <2>1 DEF Reads
<1> QED
  BY <1>1, <1>2, <1>3, <1>4

\* What a line of the bot counts for: a PRIVMSG is an answer, another command
\* at most a request for a list.
LEMMA BotLineIs ==
    ASSUME NEW line \in BotLine
    PROVE  /\ line.command = "PRIVMSG" =>
                /\ line.target \in Places /\ line.to \in Commands /\ line.text = "answer"
                /\ Request[line] = << >>
                /\ \A t : AnswerAt(t)[line] = IF line.target = t /\ line.to \in DirectCommands
                                             THEN <<line.to>> ELSE << >>
           /\ line.command # "PRIVMSG" =>
                /\ Request[line] = IF line.command \in {"BOTUSERS", "BOTCHANNELS"}
                                   THEN <<"list">> ELSE << >>
                /\ \A t : AnswerAt(t)[line] = << >>
  BY DEF BotLine, Request, AnswerAt

\* What a line of the server counts for: a PRIVMSG of a human may be a
\* question, a numeric is a list.
LEMMA ServerLineIs ==
    ASSUME NEW line \in ServerLine
    PROVE  /\ line.kind = "PRIVMSG" =>
                /\ line.from \in Humans \cup {Ircbot} /\ line.target \in Places
                /\ Reply[line] = << >>
                /\ \A t : QuestionAt(t)[line] =
                             IF /\ line.from # Ircbot /\ line.target = t
                                /\ line.text \in DirectCommands
                             THEN <<line.text>> ELSE << >>
           /\ line.kind # "PRIVMSG" =>
                /\ line.kind \in {"900", "901"}
                /\ Reply[line] = <<"list">>
                /\ \A t : QuestionAt(t)[line] = << >>
  BY DEF ServerLine, Reply, QuestionAt

\* Every line that is written is a line of its queue (main, handleMessage of
\* bot/main.cpp; handlePrivmsg, handleBotUsers).
LEMMA LinesSent ==
    /\ \A c \in {"USER", "JOIN", "BOTUSERS", "BOTCHANNELS"} : [command |-> c] \in BotLine
    /\ \A target \in Places, to \in Commands :
          [command |-> "PRIVMSG", target |-> target, text |-> "answer", to |-> to] \in BotLine
    /\ \A k \in {"900", "901"} : [kind |-> k] \in ServerLine
    /\ \A from \in Humans \cup {Ircbot}, target \in Places, text \in Texts \cup {"answer"} :
          [kind |-> "PRIVMSG", from |-> from, target |-> target, text |-> text] \in ServerLine
  BY DEF BotLine, ServerLine

-----------------------------------------------------------------------------
(* The conversations *)

\* An element x that passes from the front of one queue to the end of the one
\* before it changes nothing of the whole.
Joined(p, x, i)    == p \o (x \o i) = (p \o x) \o i
Passed(p, a, x, i) == (p \o a) \o (x \o i) = (p \o (a \o x)) \o i

\* What enters the last queue of three may be counted with the one before it.
LEMMA Joining ==
    ASSUME NEW W, NEW p \in Seq(W), NEW x \in Seq(W), NEW i \in Seq(W)
    PROVE  Joined(p, x, i)
  BY ConcatAssociative DEF Joined

\* What goes on from the front of a queue to the end of the next is counted
\* once, before and after.
LEMMA Passing ==
    ASSUME NEW W, NEW p \in Seq(W), NEW a \in Seq(W), NEW x \in Seq(W), NEW i \in Seq(W)
    PROVE  Passed(p, a, x, i)
<1>1. p \o a \in Seq(W)
  BY ConcatProperties
<1>2. Joined(p \o a, x, i)
  BY <1>1, Joining
<1>3. Joined(p, a, x)
  BY Joining
<1> QED
  BY <1>2, <1>3 DEF Joined, Passed

\* What the queues hold of a conversation.
LEMMA ConversationParts ==
    ASSUME TypeOK, NEW t \in Places
    PROVE  /\ Reads(AnswerAt(t), BotLine, DirectCommands)
           /\ Reads(QuestionAt(t), ServerLine, DirectCommands)
           /\ asked[t] \in Seq(DirectCommands) /\ answered[t] \in Seq(DirectCommands)
           /\ Reading(toServer, AnswerAt(t)) \in Seq(DirectCommands)
           /\ Reading(input, QuestionAt(t)) \in Seq(DirectCommands)
           /\ Reading(toBot, QuestionAt(t)) \in Seq(DirectCommands)
<1>1. /\ Reads(AnswerAt(t), BotLine, DirectCommands)
      /\ Reads(QuestionAt(t), ServerLine, DirectCommands)
  BY LinesAreRead
<1>2. /\ toServer \in Seq(BotLine) /\ input \in Seq(ServerLine) /\ toBot \in Seq(ServerLine)
      /\ asked[t] \in Seq(DirectCommands) /\ answered[t] \in Seq(DirectCommands)
  BY DEF TypeOK
<1>3. Reading(toServer, AnswerAt(t)) \in Seq(DirectCommands)
  BY <1>1, <1>2, ReadingConcat
<1>4. Reading(input, QuestionAt(t)) \in Seq(DirectCommands)
  BY <1>1, <1>2, ReadingConcat
<1>5. Reading(toBot, QuestionAt(t)) \in Seq(DirectCommands)
  BY <1>1, <1>2, ReadingConcat
<1> QED
  BY <1>1, <1>2, <1>3, <1>4, <1>5

\* The server takes a line of the bot.
LEMMA TakenConversation ==
    ASSUME TypeOK, NEW t \in Places, Conversation(t),
           toServer # << >>, toServer' = Tail(toServer),
           asked'[t] = asked[t], input' = input,
           answered'[t] = answered[t] \o AnswerAt(t)[Head(toServer)],
           Reading(toBot', QuestionAt(t)) = Reading(toBot, QuestionAt(t))
    PROVE  Conversation(t)'
<1> DEFINE a == Reading(Tail(toServer), AnswerAt(t))
           i == Reading(input, QuestionAt(t))
           b == Reading(toBot, QuestionAt(t))
           x == AnswerAt(t)[Head(toServer)]
           p == answered[t]
<1>1. /\ p \in Seq(DirectCommands) /\ i \in Seq(DirectCommands) /\ b \in Seq(DirectCommands)
      /\ Reads(AnswerAt(t), BotLine, DirectCommands)
  BY ConversationParts
<1>2. Head(toServer) \in BotLine /\ Tail(toServer) \in Seq(BotLine)
  BY HeadTailProperties DEF TypeOK
<1>3. x \in Seq(DirectCommands)
  BY <1>1, <1>2 DEF Reads
<1>4. a \in Seq(DirectCommands)
  BY <1>1, <1>2, ReadingConcat
<1>5. Reading(toServer, AnswerAt(t)) = x \o a
  BY <1>1, ReadingEnds DEF TypeOK
<1>6. asked[t] = ((p \o (x \o a)) \o i) \o b
  BY <1>5 DEF Conversation
<1>7. /\ asked'[t] = asked[t] /\ answered'[t] = p \o x
      /\ Reading(toServer', AnswerAt(t)) = a /\ Reading(input', QuestionAt(t)) = i
      /\ Reading(toBot', QuestionAt(t)) = b
  OBVIOUS
<1> HIDE DEF a, i, b, x, p
<1>8. Joined(p, x, a)
  BY <1>1, <1>3, <1>4, Joining
<1> QED
  BY <1>6, <1>7, <1>8 DEF Conversation, Joined

\* The bot handles a line of its buffer.
LEMMA HandledConversation ==
    ASSUME TypeOK, NEW t \in Places, Conversation(t),
           input # << >>, input' = Tail(input),
           asked'[t] = asked[t], toBot' = toBot, answered'[t] = answered[t],
           Reading(toServer', AnswerAt(t))
               = Reading(toServer, AnswerAt(t)) \o QuestionAt(t)[Head(input)]
    PROVE  Conversation(t)'
<1> DEFINE a == Reading(toServer, AnswerAt(t))
           i == Reading(Tail(input), QuestionAt(t))
           b == Reading(toBot, QuestionAt(t))
           x == QuestionAt(t)[Head(input)]
           p == answered[t]
<1>1. /\ p \in Seq(DirectCommands) /\ a \in Seq(DirectCommands) /\ b \in Seq(DirectCommands)
      /\ Reads(QuestionAt(t), ServerLine, DirectCommands)
  BY ConversationParts
<1>2. Head(input) \in ServerLine /\ Tail(input) \in Seq(ServerLine)
  BY HeadTailProperties DEF TypeOK
<1>3. x \in Seq(DirectCommands)
  BY <1>1, <1>2 DEF Reads
<1>4. i \in Seq(DirectCommands)
  BY <1>1, <1>2, ReadingConcat
<1>5. Reading(input, QuestionAt(t)) = x \o i
  BY <1>1, ReadingEnds DEF TypeOK
<1>6. asked[t] = ((p \o a) \o (x \o i)) \o b
  BY <1>5 DEF Conversation
<1>7. /\ asked'[t] = asked[t] /\ answered'[t] = p
      /\ Reading(toServer', AnswerAt(t)) = a \o x /\ Reading(input', QuestionAt(t)) = i
      /\ Reading(toBot', QuestionAt(t)) = b
  OBVIOUS
<1> HIDE DEF a, i, b, x, p
<1>8. Passed(p, a, x, i)
  BY <1>1, <1>3, <1>4, Passing
<1> QED
  BY <1>6, <1>7, <1>8 DEF Conversation, Passed

\* The server sends a line to the bot.
LEMMA HeardConversation ==
    ASSUME TypeOK, NEW t \in Places, Conversation(t),
           NEW x \in Seq(DirectCommands),
           asked'[t] = asked[t] \o x, answered'[t] = answered[t],
           toServer' = toServer, input' = input,
           Reading(toBot', QuestionAt(t)) = Reading(toBot, QuestionAt(t)) \o x
    PROVE  Conversation(t)'
<1> DEFINE a == Reading(toServer, AnswerAt(t))
           i == Reading(input, QuestionAt(t))
           b == Reading(toBot, QuestionAt(t))
           p == answered[t]
<1>1. /\ p \in Seq(DirectCommands) /\ a \in Seq(DirectCommands)
      /\ i \in Seq(DirectCommands) /\ b \in Seq(DirectCommands)
  BY ConversationParts
<1>2. asked[t] = ((p \o a) \o i) \o b
  BY DEF Conversation
<1>3. /\ asked'[t] = asked[t] \o x /\ answered'[t] = p
      /\ Reading(toServer', AnswerAt(t)) = a /\ Reading(input', QuestionAt(t)) = i
      /\ Reading(toBot', QuestionAt(t)) = b \o x
  OBVIOUS
<1> HIDE DEF a, i, b, p
<1>4. (p \o a) \o i \in Seq(DirectCommands)
  BY <1>1, ConcatProperties
<1>5. Joined((p \o a) \o i, b, x)
  BY <1>1, <1>4, Joining
<1> QED
  BY <1>2, <1>3, <1>5 DEF Conversation, Joined

\* The bot receives a part of what was sent.
LEMMA ReceivedConversation ==
    ASSUME TypeOK, NEW t \in Places, Conversation(t), NEW n \in 1..Len(toBot),
           input = << >>, input' = SubSeq(toBot, 1, n),
           toBot' = SubSeq(toBot, n + 1, Len(toBot)),
           asked'[t] = asked[t], answered'[t] = answered[t], toServer' = toServer
    PROVE  Conversation(t)'
<1> DEFINE a == Reading(toServer, AnswerAt(t))
           i == Reading(input, QuestionAt(t))
           b == Reading(toBot', QuestionAt(t))
           x == Reading(input', QuestionAt(t))
           p == answered[t]
<1>1. /\ p \in Seq(DirectCommands) /\ a \in Seq(DirectCommands)
      /\ Reads(QuestionAt(t), ServerLine, DirectCommands) /\ toBot \in Seq(ServerLine)
  BY ConversationParts DEF TypeOK
<1>2. /\ x \in Seq(DirectCommands) /\ b \in Seq(DirectCommands)
      /\ Reading(toBot, QuestionAt(t)) = x \o b
  BY <1>1, ReadingParts
<1>3. i = << >>
  BY <1>1, ReadingOne, LinesSent
<1>4. asked[t] = ((p \o a) \o i) \o (x \o b)
  BY <1>2 DEF Conversation
<1>5. /\ asked'[t] = asked[t] /\ answered'[t] = p
      /\ Reading(toServer', AnswerAt(t)) = a
  OBVIOUS
<1> HIDE DEF a, i, p, x, b
<1>6. p \o a \in Seq(DirectCommands)
  BY <1>1, ConcatProperties
<1>7. (p \o a) \o i = p \o a
  BY <1>3, <1>6, ConcatEmptySeq
<1>8. Joined(p \o a, x, b)
  BY <1>2, <1>6, Joining
<1> QED
  BY <1>4, <1>5, <1>7, <1>8 DEF Conversation, Joined, x, b

-----------------------------------------------------------------------------
(* What the steps do to the queues *)

\* The server sends a message to the bot if the bot hears it.
LEMMA PrivmsgToBot ==
    ASSUME TypeOK, NEW from \in Humans \cup {Ircbot}, NEW target, NEW text \in Texts \cup {"answer"},
           HandlePrivmsg(from, target, text)
    PROVE  /\ Ircbot \in Hearers(from, target) => target \in Places
           /\ toBot' \in Seq(ServerLine)
           /\ Len(Reading(toBot', Reply)) = Len(Reading(toBot, Reply))
           /\ \A t \in Places :
                 Reading(toBot', QuestionAt(t)) = Reading(toBot, QuestionAt(t))
                     \o (IF /\ Ircbot \in Hearers(from, target) /\ from # Ircbot
                            /\ target = t /\ text \in DirectCommands
                         THEN <<text>> ELSE << >>)
<1> DEFINE line == [kind |-> "PRIVMSG", from |-> from, target |-> target, text |-> text]
           heard == Ircbot \in Hearers(from, target)
<1>1. heard => target \in Places
  BY DEF Hearers, Places
<1>2. toBot \in Seq(ServerLine)
  BY DEF TypeOK
<1>3. toBot' = IF heard THEN Append(toBot, line) ELSE toBot
  BY DEF HandlePrivmsg
<1>4. line.kind = "PRIVMSG" /\ line.from = from /\ line.target = target /\ line.text = text
  OBVIOUS
<1>5. heard => line \in ServerLine
  BY <1>1, LinesSent
<1> HIDE DEF line, heard
<1>6. toBot' \in Seq(ServerLine)
  BY <1>2, <1>3, <1>5, AppendProperties
<1>7. Len(Reading(toBot', Reply)) = Len(Reading(toBot, Reply))
  <2>1. CASE heard
    <3>1. Len(Reading(Append(toBot, line), Reply)) = Len(Reading(toBot, Reply)) + Len(Reply[line])
      BY <1>2, <1>5, <2>1, LinesAreRead, ReadingLengths
    <3>2. Reply[line] = << >>
      BY <1>4, <1>5, <2>1, ServerLineIs
    <3>3. Len(Reading(toBot, Reply)) \in Nat
      BY <1>2, LinesAreRead, ReadingLengths
    <3> QED
      BY <1>3, <2>1, <3>1, <3>2, <3>3
  <2> QED
    BY <1>3, <2>1
<1>8. ASSUME NEW t \in Places
      PROVE  Reading(toBot', QuestionAt(t)) = Reading(toBot, QuestionAt(t))
                 \o (IF heard /\ from # Ircbot /\ target = t /\ text \in DirectCommands
                     THEN <<text>> ELSE << >>)
  <2>1. CASE heard
    <3>1. Reading(Append(toBot, line), QuestionAt(t))
              = Reading(toBot, QuestionAt(t)) \o QuestionAt(t)[line]
      BY <1>2, <1>5, <2>1, LinesAreRead, ReadingEnds
    <3>2. QuestionAt(t)[line] = IF from # Ircbot /\ target = t /\ text \in DirectCommands
                                THEN <<text>> ELSE << >>
      BY <1>4, <1>5, <2>1, ServerLineIs
    <3> QED
      BY <1>3, <2>1, <3>1, <3>2
  <2>2. CASE ~heard
    <3>1. Reading(toBot, QuestionAt(t)) \in Seq(DirectCommands)
      BY ConversationParts
    <3> QED
      BY <1>3, <2>2, <3>1, ConcatEmptySeq
  <2> QED
    BY <2>1, <2>2
<1> QED
  BY <1>1, <1>6, <1>7, <1>8 DEF heard

\* The server answers for a list.
LEMMA ReplyToBot ==
    ASSUME TypeOK, NEW k \in {"900", "901"}, toBot' = Append(toBot, [kind |-> k])
    PROVE  /\ toBot' \in Seq(ServerLine)
           /\ Len(Reading(toBot', Reply)) = Len(Reading(toBot, Reply)) + 1
           /\ \A t \in Places : Reading(toBot', QuestionAt(t)) = Reading(toBot, QuestionAt(t))
<1> DEFINE line == [kind |-> k]
<1>1. toBot \in Seq(ServerLine) /\ toBot' = Append(toBot, line)
  BY DEF TypeOK
<1>2. line \in ServerLine /\ line.kind # "PRIVMSG"
  BY LinesSent
<1> HIDE DEF line
<1>3. Reply[line] = <<"list">> /\ \A t : QuestionAt(t)[line] = << >>
  BY <1>2, ServerLineIs
<1>4. toBot' \in Seq(ServerLine)
  BY <1>1, <1>2, AppendProperties
<1>5. Len(Reading(toBot', Reply)) = Len(Reading(toBot, Reply)) + Len(Reply[line])
  BY <1>1, <1>2, LinesAreRead, ReadingLengths
<1>6. ASSUME NEW t \in Places
      PROVE  Reading(toBot', QuestionAt(t)) = Reading(toBot, QuestionAt(t))
  <2>1. Reading(toBot', QuestionAt(t)) = Reading(toBot, QuestionAt(t)) \o QuestionAt(t)[line]
    BY <1>1, <1>2, LinesAreRead, ReadingEnds
  <2>2. Reading(toBot, QuestionAt(t)) \in Seq(DirectCommands)
    BY ConversationParts
  <2> QED
    BY <1>3, <2>1, <2>2, ConcatEmptySeq
<1> QED
  BY <1>3, <1>4, <1>5, <1>6

\* The bot sends a line.
LEMMA LineToServer ==
    ASSUME TypeOK, NEW line \in BotLine, toServer' = Append(toServer, line)
    PROVE  /\ toServer' \in Seq(BotLine)
           /\ Len(Reading(toServer', Request)) = Len(Reading(toServer, Request)) + Len(Request[line])
           /\ \A t \in Places :
                 Reading(toServer', AnswerAt(t))
                     = Reading(toServer, AnswerAt(t)) \o AnswerAt(t)[line]
<1>1. toServer \in Seq(BotLine)
  BY DEF TypeOK
<1>2. toServer' \in Seq(BotLine)
  BY <1>1, AppendProperties
<1>3. Len(Reading(toServer', Request)) = Len(Reading(toServer, Request)) + Len(Request[line])
  BY <1>1, LinesAreRead, ReadingLengths
<1>4. ASSUME NEW t \in Places
      PROVE  Reading(toServer', AnswerAt(t)) = Reading(toServer, AnswerAt(t)) \o AnswerAt(t)[line]
  BY <1>1, LinesAreRead, ReadingEnds
<1> QED
  BY <1>2, <1>3, <1>4

\* The server takes a line.
LEMMA LineTaken ==
    ASSUME TypeOK, NEW command, Take(command)
    PROVE  /\ toServer # << >> /\ toServer' = Tail(toServer) /\ toServer' \in Seq(BotLine)
           /\ Head(toServer) \in BotLine /\ Head(toServer).command = command
           /\ Len(Reading(toServer, Request))
                  = Len(Request[Head(toServer)]) + Len(Reading(toServer', Request))
<1>1. toServer \in Seq(BotLine) /\ toServer # << >> /\ toServer' = Tail(toServer)
      /\ Head(toServer).command = command
  BY DEF TypeOK, Take
<1>2. Head(toServer) \in BotLine /\ Tail(toServer) \in Seq(BotLine)
  BY <1>1, HeadTailProperties
<1>3. Len(Reading(toServer, Request))
          = Len(Request[Head(toServer)]) + Len(Reading(Tail(toServer), Request))
  BY <1>1, LinesAreRead, ReadingLengths
<1> QED
  BY <1>1, <1>2, <1>3

\* The bot takes a line from its buffer.
LEMMA LineHandled ==
    ASSUME TypeOK, input # << >>, input' = Erased(input)
    PROVE  /\ input' = Tail(input) /\ input' \in Seq(ServerLine)
           /\ Head(input) \in ServerLine
           /\ Len(Reading(input, Reply))
                  = Len(Reply[Head(input)]) + Len(Reading(input', Reply))
<1>1. input \in Seq(ServerLine) /\ input' = Tail(input)
  BY DEF TypeOK, Erased
<1>2. Head(input) \in ServerLine /\ Tail(input) \in Seq(ServerLine)
  BY <1>1, HeadTailProperties
<1>3. Len(Reading(input, Reply)) = Len(Reply[Head(input)]) + Len(Reading(Tail(input), Reply))
  BY <1>1, LinesAreRead, ReadingLengths
<1> QED
  BY <1>1, <1>2, <1>3

\* The numbers of lists on their way are numbers.
LEMMA Counts ==
    ASSUME TypeOK
    PROVE  /\ Len(Reading(toServer, Request)) \in Nat
           /\ Len(Reading(input, Reply)) \in Nat
           /\ Len(Reading(toBot, Reply)) \in Nat
<1>1. Len(Reading(toServer, Request)) \in Nat
  BY LinesAreRead, ReadingLengths DEF TypeOK
<1>2. Len(Reading(input, Reply)) \in Nat
  BY LinesAreRead, ReadingLengths DEF TypeOK
<1>3. Len(Reading(toBot, Reply)) \in Nat
  BY LinesAreRead, ReadingLengths DEF TypeOK
<1> QED
  BY <1>1, <1>2, <1>3

-----------------------------------------------------------------------------
(* Every step keeps the invariant *)

\* A message of a human to a channel or to the bot is asked and delivered
\* (handlePrivmsg).
LEMMA HumanWritesKeeps ==
    ASSUME Inv, NEW h \in Humans, NEW target, NEW text \in Texts, HumanWrites(h, target, text)
    PROVE  Inv'
<1> DEFINE heard == Ircbot \in Hearers(h, target)
           x(t) == IF heard /\ h # Ircbot /\ target = t /\ text \in DirectCommands
                   THEN <<text>> ELSE << >>
<1>1. /\ TypeOK /\ Conversations /\ ListsOnTheirWay /\ ListsMayGo
      /\ HandlePrivmsg(h, target, text)
      /\ asked' = IF heard /\ text \in DirectCommands
                  THEN [asked EXCEPT ![target] = Append(@, text)] ELSE asked
      /\ toServer' = toServer /\ input' = input /\ responseTarget' = responseTarget
      /\ answered' = answered /\ due' = due
  BY DEF Inv, HumanWrites, bot
<1>2. /\ heard => target \in Places
      /\ toBot' \in Seq(ServerLine)
      /\ Len(Reading(toBot', Reply)) = Len(Reading(toBot, Reply))
      /\ \A t \in Places : Reading(toBot', QuestionAt(t)) = Reading(toBot, QuestionAt(t)) \o x(t)
  BY <1>1, PrivmsgToBot
<1>3. h # Ircbot
  BY BotAssumption
<1>4. asked \in [Places -> Seq(DirectCommands)]
  BY <1>1 DEF TypeOK
<1> HIDE DEF heard
<1>5. asked' \in [Places -> Seq(DirectCommands)]
  BY <1>1, <1>2, <1>4, AppendProperties
<1>6. ASSUME NEW t \in Places
      PROVE  x(t) \in Seq(DirectCommands) /\ asked'[t] = asked[t] \o x(t)
  <2>1. asked[t] \in Seq(DirectCommands)
    BY <1>4
  <2>2. CASE heard /\ target = t /\ text \in DirectCommands
    <3>1. x(t) = <<text>> /\ asked'[t] = Append(asked[t], text)
      BY <1>1, <1>3, <1>4, <2>2
    <3>2. Append(asked[t], text) = asked[t] \o <<text>>
      BY <2>1, <2>2, AppendIsConcat
    <3>3. <<text>> \in Seq(DirectCommands)
      BY <2>2
    <3> HIDE DEF x
    <3> QED
      BY <3>1, <3>2, <3>3
  <2>3. CASE ~(heard /\ target = t /\ text \in DirectCommands)
    <3>1. x(t) = << >> /\ asked'[t] = asked[t]
      BY <1>1, <1>2, <1>4, <2>3
    <3> HIDE DEF x
    <3> QED
      BY <2>1, <3>1, ConcatEmptySeq, EmptySeq
  <2> QED
    BY <2>2, <2>3
<1>7. TypeOK'
  BY <1>1, <1>2, <1>5 DEF TypeOK
<1> HIDE DEF x
<1>8. Conversations'
  <2> SUFFICES ASSUME NEW t \in Places PROVE Conversation(t)'
    BY DEF Conversations
  <2>1. Conversation(t)
    BY <1>1 DEF Conversations
  <2>2. /\ x(t) \in Seq(DirectCommands) /\ asked'[t] = asked[t] \o x(t)
        /\ answered'[t] = answered[t] /\ toServer' = toServer /\ input' = input
        /\ Reading(toBot', QuestionAt(t)) = Reading(toBot, QuestionAt(t)) \o x(t)
    BY <1>1, <1>2, <1>6
  <2> QED
    BY <1>1, <2>1, <2>2, HeardConversation
<1>9. ListsOnTheirWay' /\ ListsMayGo'
  BY <1>1, <1>2 DEF ListsOnTheirWay, ListsMayGo
<1> QED
  BY <1>7, <1>8, <1>9 DEF Inv

\* The lines that end the registration of the bot.
LEMMA StartKeeps ==
    ASSUME Inv, RegisterBot \/ JoinHome
    PROVE  Inv'
<1>1. /\ TypeOK /\ Conversations /\ ListsOnTheirWay /\ ListsMayGo
      /\ toBot' = toBot /\ input' = input /\ responseTarget' = responseTarget
      /\ asked' = asked /\ answered' = answered /\ due' = due
  BY DEF Inv, RegisterBot, JoinHome, bot
<1>2. PICK command \in {"USER", "JOIN"} : Take(command)
  BY DEF RegisterBot, JoinHome
<1>3. /\ toServer # << >> /\ toServer' = Tail(toServer) /\ toServer' \in Seq(BotLine)
      /\ Head(toServer) \in BotLine /\ Head(toServer).command = command
      /\ Len(Reading(toServer, Request))
             = Len(Request[Head(toServer)]) + Len(Reading(toServer', Request))
  BY <1>1, <1>2, LineTaken
<1>4. Request[Head(toServer)] = << >> /\ \A t : AnswerAt(t)[Head(toServer)] = << >>
  BY <1>2, <1>3, BotLineIs
<1>5. TypeOK'
  BY <1>1, <1>3 DEF TypeOK
<1>6. Conversations'
  <2> SUFFICES ASSUME NEW t \in Places PROVE Conversation(t)'
    BY DEF Conversations
  <2>1. Conversation(t)
    BY <1>1 DEF Conversations
  <2>2. answered'[t] = answered[t] \o AnswerAt(t)[Head(toServer)]
    <3>1. answered[t] \in Seq(DirectCommands)
      BY <1>1, ConversationParts
    <3> QED
      BY <1>1, <1>4, <3>1, ConcatEmptySeq
  <2> QED
    BY <1>1, <1>3, <2>1, <2>2, TakenConversation
<1>7. ListsOnTheirWay' /\ ListsMayGo'
  <2>1. Len(Reading(toServer', Request)) = Len(Reading(toServer, Request))
    <3>1. Len(Reading(toServer', Request)) \in Nat
      BY <1>5, Counts DEF TypeOK
    <3> QED
      BY <1>3, <1>4, <3>1
  <2> QED
    BY <1>1, <2>1 DEF ListsOnTheirWay, ListsMayGo
<1> QED
  BY <1>5, <1>6, <1>7 DEF Inv

\* The server handles a message of the bot.
LEMMA BotWritesKeeps ==
    ASSUME Inv, BotWrites
    PROVE  Inv'
<1> DEFINE line == Head(toServer)
<1>1. /\ TypeOK /\ Conversations /\ ListsOnTheirWay /\ ListsMayGo /\ Take("PRIVMSG")
      /\ HandlePrivmsg(Ircbot, line.target, line.text)
      /\ answered' = IF line.to \in DirectCommands
                     THEN [answered EXCEPT ![line.target] = Append(@, line.to)] ELSE answered
      /\ input' = input /\ responseTarget' = responseTarget /\ asked' = asked /\ due' = due
  BY DEF Inv, BotWrites, bot
<1>2. /\ toServer # << >> /\ toServer' = Tail(toServer) /\ toServer' \in Seq(BotLine)
      /\ line \in BotLine /\ line.command = "PRIVMSG"
      /\ Len(Reading(toServer, Request))
             = Len(Request[line]) + Len(Reading(toServer', Request))
  BY <1>1, LineTaken
<1> HIDE DEF line
<1>3. /\ line.target \in Places /\ line.to \in Commands /\ line.text = "answer"
      /\ Request[line] = << >>
      /\ \A t : AnswerAt(t)[line] = IF line.target = t /\ line.to \in DirectCommands
                                   THEN <<line.to>> ELSE << >>
  BY <1>2, BotLineIs
<1>4. /\ toBot' \in Seq(ServerLine)
      /\ Len(Reading(toBot', Reply)) = Len(Reading(toBot, Reply))
      /\ \A t \in Places : Reading(toBot', QuestionAt(t)) = Reading(toBot, QuestionAt(t)) \o << >>
  <2>1. HandlePrivmsg(Ircbot, line.target, "answer")
    BY <1>1, <1>3
  <2> QED
    BY <1>1, <2>1, PrivmsgToBot
<1>5. ASSUME NEW t \in Places
      PROVE  Reading(toBot', QuestionAt(t)) = Reading(toBot, QuestionAt(t))
  <2>1. Reading(toBot, QuestionAt(t)) \in Seq(DirectCommands)
    BY <1>1, ConversationParts
  <2> QED
    BY <1>4, <2>1, ConcatEmptySeq
<1>6. answered \in [Places -> Seq(DirectCommands)]
  BY <1>1 DEF TypeOK
<1>7. answered' \in [Places -> Seq(DirectCommands)]
  BY <1>1, <1>3, <1>6, AppendProperties
<1>8. ASSUME NEW t \in Places
      PROVE  answered'[t] = answered[t] \o AnswerAt(t)[line]
  <2>1. answered[t] \in Seq(DirectCommands)
    BY <1>6
  <2>2. CASE line.target = t /\ line.to \in DirectCommands
    <3>1. answered'[t] = Append(answered[t], line.to)
      BY <1>1, <1>6, <2>2
    <3>2. Append(answered[t], line.to) = answered[t] \o <<line.to>>
      BY <2>1, <2>2, AppendIsConcat
    <3> QED
      BY <1>3, <2>2, <3>1, <3>2
  <2>3. CASE ~(line.target = t /\ line.to \in DirectCommands)
    <3>1. AnswerAt(t)[line] = << >> /\ answered'[t] = answered[t]
      BY <1>1, <1>3, <1>6, <2>3
    <3> QED
      BY <2>1, <3>1, ConcatEmptySeq
  <2> QED
    BY <2>2, <2>3
<1>9. TypeOK'
  BY <1>1, <1>2, <1>4, <1>7 DEF TypeOK
<1>10. Conversations'
  <2> SUFFICES ASSUME NEW t \in Places PROVE Conversation(t)'
    BY DEF Conversations
  <2>1. Conversation(t)
    BY <1>1 DEF Conversations
  <2>2. answered'[t] = answered[t] \o AnswerAt(t)[Head(toServer)]
    BY <1>8 DEF line
  <2>3. /\ Reading(toBot', QuestionAt(t)) = Reading(toBot, QuestionAt(t))
        /\ asked'[t] = asked[t] /\ input' = input
    BY <1>1, <1>5
  <2> QED
    BY <1>1, <1>2, <2>1, <2>2, <2>3, TakenConversation
<1>11. ListsOnTheirWay' /\ ListsMayGo'
  <2>1. Len(Reading(toServer', Request)) = Len(Reading(toServer, Request))
    <3>1. Len(Reading(toServer', Request)) \in Nat
      BY <1>9, Counts DEF TypeOK
    <3> QED
      BY <1>2, <1>3, <3>1
  <2> QED
    BY <1>1, <1>4, <2>1 DEF ListsOnTheirWay, ListsMayGo
<1> QED
  BY <1>9, <1>10, <1>11 DEF Inv

\* The server sends a list.
LEMMA ListSent ==
    ASSUME Inv, HandleBotUsers \/ HandleBotChannels
    PROVE  Inv'
<1>1. /\ TypeOK /\ Conversations /\ ListsOnTheirWay /\ ListsMayGo
      /\ input' = input /\ responseTarget' = responseTarget
      /\ asked' = asked /\ answered' = answered /\ due' = due
  BY DEF Inv, HandleBotUsers, HandleBotChannels, bot
<1>2. PICK command \in {"BOTUSERS", "BOTCHANNELS"}, k \in {"900", "901"} :
          Take(command) /\ toBot' = Append(toBot, [kind |-> k])
  BY DEF HandleBotUsers, HandleBotChannels
<1>3. /\ toServer # << >> /\ toServer' = Tail(toServer) /\ toServer' \in Seq(BotLine)
      /\ Head(toServer) \in BotLine /\ Head(toServer).command = command
      /\ Len(Reading(toServer, Request))
             = Len(Request[Head(toServer)]) + Len(Reading(toServer', Request))
  BY <1>1, <1>2, LineTaken
<1>4. Request[Head(toServer)] = <<"list">> /\ \A t : AnswerAt(t)[Head(toServer)] = << >>
  BY <1>2, <1>3, BotLineIs
<1>5. /\ toBot' \in Seq(ServerLine)
      /\ Len(Reading(toBot', Reply)) = Len(Reading(toBot, Reply)) + 1
      /\ \A t \in Places : Reading(toBot', QuestionAt(t)) = Reading(toBot, QuestionAt(t))
  BY <1>1, <1>2, ReplyToBot
<1>6. TypeOK'
  BY <1>1, <1>3, <1>5 DEF TypeOK
<1>7. Conversations'
  <2> SUFFICES ASSUME NEW t \in Places PROVE Conversation(t)'
    BY DEF Conversations
  <2>1. Conversation(t)
    BY <1>1 DEF Conversations
  <2>2. answered'[t] = answered[t] \o AnswerAt(t)[Head(toServer)]
    <3>1. answered[t] \in Seq(DirectCommands)
      BY <1>1, ConversationParts
    <3> QED
      BY <1>1, <1>4, <3>1, ConcatEmptySeq
  <2>3. Reading(toBot', QuestionAt(t)) = Reading(toBot, QuestionAt(t))
    BY <1>5
  <2> QED
    BY <1>1, <1>3, <2>1, <2>2, <2>3, TakenConversation
<1>8. ListsOnTheirWay' /\ ListsMayGo'
  <2>1. Len(Reading(toServer, Request)) = 1 + Len(Reading(toServer', Request))
    BY <1>3, <1>4
  <2>2. Len(Reading(toServer', Request)) \in Nat
    BY <1>6, Counts DEF TypeOK
  <2>3. Len(Reading(input, Reply)) \in Nat /\ Len(Reading(toBot, Reply)) \in Nat
    BY <1>1, Counts
  <2>4. ListsOnTheirWay'
    BY <1>1, <1>5, <2>1, <2>2, <2>3 DEF ListsOnTheirWay
  <2> QED
    BY <1>1, <2>4 DEF ListsMayGo
<1> QED
  BY <1>6, <1>7, <1>8 DEF Inv

\* recv() moves lines from the connection to the bot's input, in their order
\* (main of bot/main.cpp).
LEMMA RecvKeeps ==
    ASSUME Inv, Recv
    PROVE  Inv'
<1>1. /\ TypeOK /\ Conversations /\ ListsOnTheirWay /\ ListsMayGo
      /\ input = << >> /\ toServer' = toServer /\ responseTarget' = responseTarget
      /\ asked' = asked /\ answered' = answered /\ due' = due
  BY DEF Inv, Recv
<1>2. PICK n \in 1..Len(toBot) : /\ input' = SubSeq(toBot, 1, n)
                                /\ toBot' = SubSeq(toBot, n + 1, Len(toBot))
  BY DEF Recv
<1>3. toBot \in Seq(ServerLine)
  BY <1>1 DEF TypeOK
<1>4. input' \in Seq(ServerLine) /\ toBot' \in Seq(ServerLine)
  BY <1>2, <1>3, LinesAreRead, ReadingParts
<1>5. TypeOK'
  BY <1>1, <1>4 DEF TypeOK
<1>6. Conversations'
  <2> SUFFICES ASSUME NEW t \in Places PROVE Conversation(t)'
    BY DEF Conversations
  <2>1. Conversation(t)
    BY <1>1 DEF Conversations
  <2> QED
    BY <1>1, <1>2, <2>1, ReceivedConversation
<1>7. ListsOnTheirWay' /\ ListsMayGo'
  <2>1. Len(Reading(toBot, Reply)) = Len(Reading(input', Reply)) + Len(Reading(toBot', Reply))
    BY <1>2, <1>3, LinesAreRead, ReadingLengths
  <2>2. Len(Reading(input', Reply)) \in Nat /\ Len(Reading(toBot', Reply)) \in Nat
    <3>1. Len(Reading(input', Reply)) \in Nat
      BY <1>4, LinesAreRead, ReadingLengths
    <3>2. Len(Reading(toBot', Reply)) \in Nat
      BY <1>4, LinesAreRead, ReadingLengths
    <3> QED
      BY <3>1, <3>2
  <2>3. Len(Reading(toServer, Request)) \in Nat
    BY <1>1, Counts
  <2>4. Len(Reading(input, Reply)) = 0
    <3>1. [kind |-> "900"] \in ServerLine
      BY LinesSent
    <3>2. Reading(<< >>, Reply) = << >>
      BY <3>1, LinesAreRead, ReadingOne
    <3> QED
      BY <1>1, <3>2
  <2>5. ListsOnTheirWay'
    BY <1>1, <2>1, <2>2, <2>3, <2>4 DEF ListsOnTheirWay
  <2> QED
    BY <1>1, <2>5 DEF ListsMayGo
<1> QED
  BY <1>5, <1>6, <1>7 DEF Inv

\* A list that the bot is about to pass on is due, and first.
LEMMA ListIsDue ==
    ASSUME Inv, Next900
    PROVE  due # << >> /\ responseTarget \in Head(due)
<1>1. /\ TypeOK /\ ListsOnTheirWay /\ ListsMayGo
      /\ input \in Seq(ServerLine) /\ input # << >> /\ Head(input).kind # "PRIVMSG"
      /\ due \in Seq(SUBSET Places)
  BY DEF Inv, TypeOK, Next900
<1>2. Head(input) \in ServerLine /\ Tail(input) \in Seq(ServerLine)
  BY <1>1, HeadTailProperties
<1>3. Len(Reading(input, Reply)) = Len(Reply[Head(input)]) + Len(Reading(Tail(input), Reply))
  BY <1>1, LinesAreRead, ReadingLengths
<1>4. Reply[Head(input)] = <<"list">>
  BY <1>1, <1>2, ServerLineIs
<1>5. Len(Reading(Tail(input), Reply)) \in Nat
  BY <1>2, LinesAreRead, ReadingLengths
<1>6. /\ Len(Reading(toServer, Request)) \in Nat /\ Len(Reading(toBot, Reply)) \in Nat
  BY <1>1, Counts
<1>7. Len(due) > 0
  BY <1>1, <1>3, <1>4, <1>5, <1>6 DEF ListsOnTheirWay
<1>8. due # << >> /\ 1 \in DOMAIN due /\ Head(due) = due[1]
  BY <1>1, <1>7
<1> QED
  BY <1>1, <1>8 DEF ListsMayGo

\* A 900 or 901 is passed on to the place that was heard of last
\* (handleMessage).
LEMMA PassOnListKeeps ==
    ASSUME Inv, PassOnList
    PROVE  Inv'
<1> DEFINE list == IF Head(input).kind = "900" THEN "!users" ELSE "!channels"
           line == [command |-> "PRIVMSG", target |-> responseTarget, text |-> "answer",
                    to |-> list]
<1>1. /\ TypeOK /\ Conversations /\ ListsOnTheirWay /\ ListsMayGo
      /\ Next900 /\ input # << >> /\ input' = Erased(input) /\ due' = Tail(due)
      /\ toBot' = toBot /\ responseTarget' = responseTarget
      /\ asked' = asked /\ answered' = answered
  BY DEF Inv, PassOnList, Next900
<1>2. toServer' = Append(toServer, line)
  BY DEF PassOnList, Answer
<1>3. list \in ListCommands
  BY DEF ListCommands
<1> HIDE DEF list
<1>4. line \in BotLine /\ line.command = "PRIVMSG" /\ line.to = list
  <2>1. responseTarget \in Places /\ list \in Commands
    BY <1>1, <1>3 DEF TypeOK, Commands
  <2> QED
    BY <2>1, LinesSent
<1> HIDE DEF line
<1>5. Request[line] = << >> /\ \A t : AnswerAt(t)[line] = << >>
  BY <1>3, <1>4, BotLineIs DEF ListCommands, DirectCommands
<1>6. /\ toServer' \in Seq(BotLine)
      /\ Len(Reading(toServer', Request)) = Len(Reading(toServer, Request)) + Len(Request[line])
      /\ \A t \in Places : Reading(toServer', AnswerAt(t))
                               = Reading(toServer, AnswerAt(t)) \o AnswerAt(t)[line]
  BY <1>1, <1>2, <1>4, LineToServer
<1>7. /\ input' = Tail(input) /\ input' \in Seq(ServerLine) /\ Head(input) \in ServerLine
      /\ Len(Reading(input, Reply)) = Len(Reply[Head(input)]) + Len(Reading(input', Reply))
  BY <1>1, LineHandled
<1>8. Reply[Head(input)] = <<"list">> /\ \A t : QuestionAt(t)[Head(input)] = << >>
  BY <1>1, <1>7, ServerLineIs DEF Next900
<1>9. /\ due \in Seq(SUBSET Places) /\ due # << >> /\ due' \in Seq(SUBSET Places)
      /\ Len(due) = Len(due') + 1 /\ Len(due') \in Nat
      /\ \A i \in DOMAIN due' : i + 1 \in DOMAIN due /\ due'[i] = due[i + 1]
  <2>1. due \in Seq(SUBSET Places) /\ due # << >>
    BY <1>1, ListIsDue DEF TypeOK
  <2> QED
    BY <1>1, <2>1
<1>10. TypeOK'
  BY <1>1, <1>6, <1>7, <1>9 DEF TypeOK
<1>11. Conversations'
  <2> SUFFICES ASSUME NEW t \in Places PROVE Conversation(t)'
    BY DEF Conversations
  <2>1. Conversation(t)
    BY <1>1 DEF Conversations
  <2>2. Reading(toServer', AnswerAt(t))
            = Reading(toServer, AnswerAt(t)) \o QuestionAt(t)[Head(input)]
    BY <1>5, <1>6, <1>8
  <2> QED
    BY <1>1, <1>7, <2>1, <2>2, HandledConversation
<1>12. ListsOnTheirWay'
  <2>1. Len(Reading(toServer', Request)) = Len(Reading(toServer, Request)) + 0
    BY <1>5, <1>6
  <2>2. Len(Reading(input, Reply)) = 1 + Len(Reading(input', Reply))
    BY <1>7, <1>8
  <2>3. Len(Reading(input', Reply)) \in Nat
    BY <1>7, LinesAreRead, ReadingLengths
  <2>4. Len(Reading(toServer, Request)) \in Nat /\ Len(Reading(toBot, Reply)) \in Nat
    BY <1>1, Counts
  <2> QED
    BY <1>1, <1>9, <2>1, <2>2, <2>3, <2>4 DEF ListsOnTheirWay
<1>13. ListsMayGo'
  BY <1>1, <1>9 DEF ListsMayGo
<1> QED
  BY <1>10, <1>11, <1>12, <1>13 DEF Inv

\* A message that is no command is read and, at most, remembered as the place
\* to answer to (handleMessage).
LEMMA IgnoreMessageKeeps ==
    ASSUME Inv, IgnoreMessage
    PROVE  Inv'
<1>1. /\ TypeOK /\ Conversations /\ ListsOnTheirWay /\ ListsMayGo
      /\ input # << >> /\ input' = Erased(input)
      /\ Head(input).kind \notin {"900", "901"} /\ ~Heeded(Head(input))
      /\ toBot' = toBot /\ toServer' = toServer /\ responseTarget' = responseTarget
      /\ asked' = asked /\ answered' = answered /\ due' = due
  BY DEF Inv, IgnoreMessage, Next900
<1>2. /\ input' = Tail(input) /\ input' \in Seq(ServerLine) /\ Head(input) \in ServerLine
      /\ Len(Reading(input, Reply)) = Len(Reply[Head(input)]) + Len(Reading(input', Reply))
  BY <1>1, LineHandled
<1>3. Head(input).kind = "PRIVMSG"
  BY <1>1, <1>2, ServerLineIs
<1>4. Reply[Head(input)] = << >> /\ \A t : QuestionAt(t)[Head(input)] = << >>
  <2>1. Head(input).from = Ircbot \/ Head(input).text \notin DirectCommands
    BY <1>1, <1>3 DEF Heeded, DirectCommands
  <2> QED
    BY <1>2, <1>3, <2>1, ServerLineIs
<1>5. TypeOK'
  BY <1>1, <1>2 DEF TypeOK
<1>6. Conversations'
  <2> SUFFICES ASSUME NEW t \in Places PROVE Conversation(t)'
    BY DEF Conversations
  <2>1. Conversation(t)
    BY <1>1 DEF Conversations
  <2>2. Reading(toServer', AnswerAt(t))
            = Reading(toServer, AnswerAt(t)) \o QuestionAt(t)[Head(input)]
    <3>1. Reading(toServer, AnswerAt(t)) \in Seq(DirectCommands)
      BY <1>1, ConversationParts
    <3> QED
      BY <1>1, <1>4, <3>1, ConcatEmptySeq
  <2> QED
    BY <1>1, <1>2, <2>1, <2>2, HandledConversation
<1>7. ListsOnTheirWay' /\ ListsMayGo'
  <2>1. Len(Reading(input', Reply)) \in Nat
    BY <1>2, LinesAreRead, ReadingLengths
  <2>2. Len(Reading(input, Reply)) = Len(Reading(input', Reply))
    BY <1>2, <1>4, <2>1
  <2> QED
    BY <1>1, <2>2 DEF ListsOnTheirWay, ListsMayGo
<1> QED
  BY <1>5, <1>6, <1>7 DEF Inv

\* What is written where moves every list that is due along.
LEMMA LaterDue ==
    ASSUME NEW d \in Seq(SUBSET Places), NEW place \in Places
    PROVE  LET later == [i \in DOMAIN d |-> d[i] \cup {place}]
           IN  /\ later \in Seq(SUBSET Places) /\ Len(later) = Len(d)
               /\ \A i \in DOMAIN later : place \in later[i]
               /\ Append(later, {place}) \in Seq(SUBSET Places)
               /\ Len(Append(later, {place})) = Len(d) + 1
               /\ \A i \in DOMAIN Append(later, {place}) : place \in Append(later, {place})[i]
<1> DEFINE later == [i \in DOMAIN d |-> d[i] \cup {place}]
<1>1. later \in [1..Len(d) -> SUBSET Places] /\ Len(d) \in Nat
      /\ \A i \in 1..Len(d) : place \in later[i]
  OBVIOUS
<1> HIDE DEF later
<1>2. later \in Seq(SUBSET Places) /\ Len(later) = Len(d)
  BY <1>1, FunctionIsSeq
<1>3. \A i \in DOMAIN later : place \in later[i]
  BY <1>1
<1>4. /\ Append(later, {place}) \in Seq(SUBSET Places)
      /\ Len(Append(later, {place})) = Len(d) + 1
      /\ \A i \in 1..Len(later) : Append(later, {place})[i] = later[i]
      /\ Append(later, {place})[Len(later) + 1] = {place}
  BY <1>2, AppendProperties
<1>5. \A i \in DOMAIN Append(later, {place}) : place \in Append(later, {place})[i]
  <2>1. DOMAIN Append(later, {place}) = 1..Len(later) + 1
    BY <1>2, <1>4
  <2> QED
    BY <1>1, <1>2, <1>4, <2>1
<1> QED
  BY <1>2, <1>3, <1>4, <1>5 DEF later

\* A command is answered, or its list is asked for (handleMessage).
LEMMA HandleMessageKeeps ==
    ASSUME Inv, HandleMessage
    PROVE  Inv'
<1> DEFINE line  == Head(input)
           later == [i \in DOMAIN due |-> due[i] \cup {line.target}]
           reply == [command |-> "PRIVMSG", target |-> line.target, text |-> "answer",
                     to |-> line.text]
<1>1. /\ TypeOK /\ Conversations /\ ListsOnTheirWay /\ ListsMayGo
      /\ input # << >> /\ Heeded(line) /\ input' = Erased(input)
      /\ responseTarget' = line.target
      /\ toBot' = toBot /\ asked' = asked /\ answered' = answered
  BY DEF Inv, HandleMessage
<1>2. /\ input' = Tail(input) /\ input' \in Seq(ServerLine) /\ line \in ServerLine
      /\ Len(Reading(input, Reply)) = Len(Reply[line]) + Len(Reading(input', Reply))
  BY <1>1, LineHandled
<1>3. line.from # Ircbot /\ line.kind = "PRIVMSG"
  BY <1>1 DEF Heeded
<1>4. \/ line.text \in DirectCommands /\ toServer' = Append(toServer, reply) /\ due' = later
      \/ /\ line.text = "!users" /\ toServer' = Append(toServer, [command |-> "BOTUSERS"])
         /\ due' = Append(later, {line.target})
      \/ /\ line.text = "!channels" /\ toServer' = Append(toServer, [command |-> "BOTCHANNELS"])
         /\ due' = Append(later, {line.target})
      \/ line.text \notin DirectCommands /\ toServer' = toServer /\ due' = later
  BY <1>3 DEF HandleMessage, Answer, AnswerTarget, DirectCommands
<1> HIDE DEF line
<1>5. /\ line.target \in Places /\ Reply[line] = << >>
      /\ \A t : QuestionAt(t)[line] = IF line.target = t /\ line.text \in DirectCommands
                                     THEN <<line.text>> ELSE << >>
  BY <1>2, <1>3, ServerLineIs
<1>6. due \in Seq(SUBSET Places) /\ toServer \in Seq(BotLine)
  BY <1>1 DEF TypeOK
<1>7. /\ later \in Seq(SUBSET Places) /\ Len(later) = Len(due)
      /\ \A i \in DOMAIN later : line.target \in later[i]
      /\ Append(later, {line.target}) \in Seq(SUBSET Places)
      /\ Len(Append(later, {line.target})) = Len(due) + 1
      /\ \A i \in DOMAIN Append(later, {line.target}) :
             line.target \in Append(later, {line.target})[i]
  BY <1>5, <1>6, LaterDue
<1> HIDE DEF later
<1>8. due' \in Seq(SUBSET Places) /\ ListsMayGo'
  BY <1>1, <1>4, <1>7 DEF ListsMayGo
\* What is added to the lines for the server, in each of the cases.
<1>9. /\ toServer' \in Seq(BotLine)
      /\ Len(due') - Len(due)
            = Len(Reading(toServer', Request)) - Len(Reading(toServer, Request))
      /\ \A t \in Places : Reading(toServer', AnswerAt(t))
                               = Reading(toServer, AnswerAt(t)) \o QuestionAt(t)[line]
  <2>1. CASE /\ line.text \in DirectCommands /\ toServer' = Append(toServer, reply)
             /\ due' = later
    <3>1. reply \in BotLine /\ reply.command = "PRIVMSG" /\ reply.target = line.target
          /\ reply.to = line.text
      BY <1>5, <2>1, LinesSent DEF Commands
    <3> HIDE DEF reply
    <3>2. /\ Request[reply] = << >>
          /\ \A t : AnswerAt(t)[reply] = IF line.target = t /\ line.text \in DirectCommands
                                        THEN <<line.text>> ELSE << >>
      BY <3>1, BotLineIs
    <3>3. /\ toServer' \in Seq(BotLine)
          /\ Len(Reading(toServer', Request)) = Len(Reading(toServer, Request)) + Len(Request[reply])
          /\ \A t \in Places : Reading(toServer', AnswerAt(t))
                                   = Reading(toServer, AnswerAt(t)) \o AnswerAt(t)[reply]
      BY <1>1, <2>1, <3>1, LineToServer
    <3>4. Len(due') - Len(due)
              = Len(Reading(toServer', Request)) - Len(Reading(toServer, Request))
      <4>1. Len(Reading(toServer, Request)) \in Nat /\ Len(due) \in Nat
        BY <1>1, <1>6, Counts
      <4> QED
        BY <1>7, <2>1, <3>2, <3>3, <4>1
    <3>5. \A t : AnswerAt(t)[reply] = QuestionAt(t)[line]
      BY <1>5, <3>2
    <3> QED
      BY <3>3, <3>4, <3>5
  <2>2. CASE \E c \in {"BOTUSERS", "BOTCHANNELS"} :
                /\ toServer' = Append(toServer, [command |-> c])
                /\ due' = Append(later, {line.target})
                /\ line.text \notin DirectCommands
    <3>1. PICK c \in {"BOTUSERS", "BOTCHANNELS"} :
                /\ toServer' = Append(toServer, [command |-> c])
                /\ due' = Append(later, {line.target})
                /\ line.text \notin DirectCommands
      BY <2>2
    <3> DEFINE request == [command |-> c]
    <3>2. request \in BotLine /\ request.command = c /\ toServer' = Append(toServer, request)
      BY <3>1, LinesSent
    <3> HIDE DEF request
    <3>3. Request[request] = <<"list">> /\ \A t : AnswerAt(t)[request] = << >>
      BY <3>2, BotLineIs
    <3>4. /\ toServer' \in Seq(BotLine)
          /\ Len(Reading(toServer', Request))
                = Len(Reading(toServer, Request)) + Len(Request[request])
          /\ \A t \in Places : Reading(toServer', AnswerAt(t))
                                   = Reading(toServer, AnswerAt(t)) \o AnswerAt(t)[request]
      BY <1>1, <3>2, LineToServer
    <3>5. Len(due') - Len(due)
              = Len(Reading(toServer', Request)) - Len(Reading(toServer, Request))
      <4>1. Len(Reading(toServer, Request)) \in Nat /\ Len(due) \in Nat
        BY <1>1, <1>6, Counts
      <4>2. Len(due') = Len(due) + 1
        BY <1>7, <3>1
      <4>3. Len(Request[request]) = 1
        BY <3>3
      <4>4. Len(Reading(toServer', Request)) = Len(Reading(toServer, Request)) + 1
        BY <3>4, <4>3
      <4> QED
        BY <4>1, <4>2, <4>4
    <3>6. \A t : AnswerAt(t)[request] = QuestionAt(t)[line]
      BY <1>5, <3>1, <3>3
    <3> QED
      BY <3>4, <3>5, <3>6
  <2>3. CASE line.text \notin DirectCommands /\ toServer' = toServer /\ due' = later
    <3>1. ASSUME NEW t \in Places
          PROVE  Reading(toServer', AnswerAt(t))
                     = Reading(toServer, AnswerAt(t)) \o QuestionAt(t)[line]
      <4>1. Reading(toServer, AnswerAt(t)) \in Seq(DirectCommands)
        BY <1>1, ConversationParts
      <4> QED
        BY <1>5, <2>3, <4>1, ConcatEmptySeq
    <3>2. Len(Reading(toServer, Request)) \in Nat /\ Len(due) \in Nat
      BY <1>1, <1>6, Counts
    <3> QED
      BY <1>6, <1>7, <2>3, <3>1, <3>2
  <2> QED
    BY <1>4, <2>1, <2>2, <2>3 DEF DirectCommands
<1>10. TypeOK'
  BY <1>1, <1>2, <1>5, <1>8, <1>9 DEF TypeOK
<1>11. Conversations'
  <2> SUFFICES ASSUME NEW t \in Places PROVE Conversation(t)'
    BY DEF Conversations
  <2>1. Conversation(t)
    BY <1>1 DEF Conversations
  <2>2. Reading(toServer', AnswerAt(t))
            = Reading(toServer, AnswerAt(t)) \o QuestionAt(t)[Head(input)]
    BY <1>9 DEF line
  <2> QED
    BY <1>1, <1>2, <2>1, <2>2, HandledConversation
<1>12. ListsOnTheirWay'
  <2>1. Len(Reading(input', Reply)) \in Nat
    BY <1>2, LinesAreRead, ReadingLengths
  <2>2. Len(Reading(input, Reply)) = Len(Reading(input', Reply))
    BY <1>2, <1>5, <2>1
  <2>3. Len(Reading(toServer', Request)) \in Nat
    BY <1>9, LinesAreRead, ReadingLengths
  <2>4. /\ Len(Reading(toServer, Request)) \in Nat /\ Len(Reading(toBot, Reply)) \in Nat
        /\ Len(due) \in Nat /\ Len(due') \in Nat
    BY <1>1, <1>6, <1>8, Counts
  <2> QED
    BY <1>1, <1>9, <2>1, <2>2, <2>3, <2>4 DEF ListsOnTheirWay
<1> QED
  BY <1>8, <1>10, <1>11, <1>12 DEF Inv

\* At the start nothing is asked, answered or due.
LEMMA InitKeeps == Init => Inv
<1> SUFFICES ASSUME Init PROVE Inv
  OBVIOUS
<1> DEFINE user == [command |-> "USER"]
           join == [command |-> "JOIN"]
<1>1. /\ toServer = <<user, join>> /\ toBot = << >> /\ input = << >> /\ due = << >>
      /\ responseTarget = Home
      /\ asked = [t \in Places |-> << >>] /\ answered = [t \in Places |-> << >>]
  BY DEF Init, Places
<1>2. user \in BotLine /\ join \in BotLine /\ user.command = "USER" /\ join.command = "JOIN"
  BY LinesSent
<1> HIDE DEF user, join
<1>3. /\ Request[user] = << >> /\ Request[join] = << >>
      /\ \A t : AnswerAt(t)[user] = << >> /\ AnswerAt(t)[join] = << >>
  BY <1>2, BotLineIs
<1>4. TypeOK
  BY <1>1, <1>2, BotAssumption DEF TypeOK, Places
<1>5. ASSUME NEW W, NEW F, Reads(F, BotLine, W), F[user] = << >>, F[join] = << >>
      PROVE  Reading(toServer, F) = << >>
  <2>1. Reading(<<user, join>>, F) = F[user] \o F[join]
    BY <1>2, <1>5, ReadingTwo
  <2> QED
    BY <1>1, <1>5, <2>1
<1>6. ASSUME NEW W, NEW F, Reads(F, ServerLine, W)
      PROVE  Reading(<< >>, F) = << >>
  <2>1. [kind |-> "900"] \in ServerLine
    BY LinesSent
  <2> QED
    BY <1>6, <2>1, ReadingOne
<1>7. Conversations
  <2> SUFFICES ASSUME NEW t \in Places PROVE Conversation(t)
    BY DEF Conversations
  <2>1. Reading(toServer, AnswerAt(t)) = << >>
    BY <1>3, <1>5, LinesAreRead
  <2>2. Reading(<< >>, QuestionAt(t)) = << >>
    BY <1>6, LinesAreRead
  <2>3. asked[t] = << >> /\ answered[t] = << >>
    BY <1>1
  <2> QED
    BY <1>1, <2>1, <2>2, <2>3 DEF Conversation
<1>8. ListsOnTheirWay
  <2>1. Reading(toServer, Request) = << >>
    BY <1>3, <1>5, LinesAreRead
  <2>2. Reading(<< >>, Reply) = << >>
    BY <1>6, LinesAreRead
  <2> QED
    BY <1>1, <2>1, <2>2 DEF ListsOnTheirWay
<1>9. ListsMayGo
  BY <1>1 DEF ListsMayGo
<1> QED
  BY <1>4, <1>7, <1>8, <1>9 DEF Inv

\* Steps that leave the queues and what was seen of them alone.
LEMMA OthersKeep ==
    ASSUME Inv, UNCHANGED <<toServer, toBot, bot, asked, answered, due>>
    PROVE  Inv'
  BY DEF Inv, TypeOK, Conversations, Conversation, ListsOnTheirWay, ListsMayGo, bot

\* The invariant is inductive: each step of the humans, the server and the bot
\* keeps it.
THEOREM InvNext == Inv /\ [Next]_vars => Inv'
<1> SUFFICES ASSUME Inv, [Next]_vars PROVE Inv'
  OBVIOUS
<1>1. ASSUME NEW h \in Humans, NEW target \in Targets, NEW text \in Texts,
             HumanWrites(h, target, text)
      PROVE  Inv'
  BY <1>1, HumanWritesKeeps
<1>2. ASSUME NEW c, NEW ch, Move(c, ch)
      PROVE  Inv'
  BY <1>2, OthersKeep DEF Move, bot
<1>3. CASE TakesLine
  BY <1>3, StartKeeps, BotWritesKeeps, ListSent DEF TakesLine
<1>4. CASE Recv
  BY <1>4, RecvKeeps
<1>5. CASE Handles
  BY <1>5, PassOnListKeeps, IgnoreMessageKeeps, HandleMessageKeeps DEF Handles
<1>6. CASE UNCHANGED vars
  BY <1>6, OthersKeep DEF vars
<1> QED
  BY <1>1, <1>2, <1>3, <1>4, <1>5, <1>6 DEF Next

\* The invariant holds in every state of every behaviour.
THEOREM InvCorrect == Spec => []Inv
  BY InitKeeps, InvNext, PTL DEF Spec

\* In every channel the bot's answers to the commands it answers at once are
\* those of the commands given there, in their order (handleMessage,
\* bot/main.cpp), whatever is asked elsewhere and however the lines are cut.
THEOREM AnswersAreInOrder == Spec => []AnswersFollowQuestions
<1>1. Inv => AnswersFollowQuestions
  <2> SUFFICES ASSUME Inv, NEW ch \in Channels PROVE IsPrefix(answered[ch], asked[ch])
    BY DEF AnswersFollowQuestions
  <2>1. ch \in Places /\ TypeOK /\ Conversation(ch)
    BY DEF Inv, Conversations, Places
  <2> DEFINE p == answered[ch]
             a == Reading(toServer, AnswerAt(ch))
             i == Reading(input, QuestionAt(ch))
             b == Reading(toBot, QuestionAt(ch))
  <2>2. /\ p \in Seq(DirectCommands) /\ a \in Seq(DirectCommands)
        /\ i \in Seq(DirectCommands) /\ b \in Seq(DirectCommands)
    BY <2>1, ConversationParts
  <2>3. asked[ch] = ((p \o a) \o i) \o b
    BY <2>1 DEF Conversation
  <2> HIDE DEF p, a, i, b
  <2>4. ((p \o a) \o i) \o b = p \o (a \o (i \o b))
    <3>1. i \o b \in Seq(DirectCommands) /\ p \o a \in Seq(DirectCommands)
      BY <2>2, ConcatProperties
    <3>2. Joined(p \o a, i, b)
      BY <2>2, <3>1, Joining
    <3>3. Joined(p, a, i \o b)
      BY <2>2, <3>1, Joining
    <3> QED
      BY <3>2, <3>3 DEF Joined
  <2>5. a \o (i \o b) \in Seq(DirectCommands)
    BY <2>2, ConcatProperties
  <2> DEFINE r == a \o (i \o b)
  <2> HIDE DEF r
  <2>6. IsPrefix(p, p \o r)
    BY <2>2, <2>5 DEF IsPrefix, r
  <2> QED
    BY <2>3, <2>4, <2>6 DEF r, p
<1> QED
  BY <1>1, InvCorrect, PTL

\* A list goes to where it was asked for or where a human has written since
\* (responseTarget, bot/main.cpp).
THEOREM ListsGoWhereTheyMay == Spec => ListsStayClose
<1>1. Inv /\ [Next]_vars => [PassOnList => responseTarget \in Head(due)]_vars
  <2> SUFFICES ASSUME Inv, PassOnList PROVE responseTarget \in Head(due)
    OBVIOUS
  <2>1. Next900
    BY DEF PassOnList
  <2> QED
    BY <2>1, ListIsDue
<1> QED
  BY <1>1, InvCorrect, PTL DEF Spec, ListsStayClose
=============================================================================
