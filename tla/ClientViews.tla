----------------------------- MODULE ClientViews -----------------------------
(***************************************************************************)
(* What the members of a channel are told.  Handlers announce what they do *)
(* in several messages, some before and some after the change itself: JOIN *)
(* and the list of names (353), PART, KICK, QUIT, NICK, and the MODE of    *)
(* promoteSuccessor and setChannelOperator.  Each client is given here the *)
(* picture it gets by applying, in order, the messages it is sent.         *)
(*                                                                         *)
(* IrcServer with one more variable; no command reads it.                  *)
(***************************************************************************)
EXTENDS IrcServer

VARIABLE views      \* views[c][fd]: channel c as the client fd was told of it, for
                    \* those that were told they are on it

View == [members : SUBSET Nick, ops : SUBSET Nick, halfs : SUBSET Nick]

Names(cl, S) == {cl[fd].nick : fd \in S}

-----------------------------------------------------------------------------
(* What a message does to the picture of one client *)

\* JOIN of another
Joined(view, n) == [view EXCEPT !.members = @ \cup {n}]

\* PART, KICK or QUIT of another
Gone(view, n) ==
    [members |-> view.members \ {n}, ops |-> view.ops \ {n}, halfs |-> view.halfs \ {n}]

\* NICK
Renamed(view, old, new) ==
    LET Rename(S) == IF old \in S THEN (S \ {old}) \cup {new} ELSE S
    IN  [members |-> Rename(view.members), ops |-> Rename(view.ops),
         halfs |-> Rename(view.halfs)]

\* MODE +o, -o, +h, -h
ModeOn(view, n, mode) ==
    CASE mode = "+o" -> [view EXCEPT !.ops = @ \cup {n}]
      [] mode = "-o" -> [view EXCEPT !.ops = @ \ {n}]
      [] mode = "+h" -> [view EXCEPT !.halfs = @ \cup {n}]
      [] mode = "-h" -> [view EXCEPT !.halfs = @ \ {n}]

\* 353: "@" before an operator, "%" before a half-operator that is not one.
Listed(cl, ch) ==
    [members |-> Names(cl, Range(ch.members)),
     ops     |-> Names(cl, ch.operators),
     halfs   |-> Names(cl, Range(ch.halfOperators) \ ch.operators)]

-----------------------------------------------------------------------------
(* The messages of the handlers; v is the pictures of one channel *)

\* A MODE on nickname n to all members of ch.
TellMode(ch, v, n, mode) ==
    [w \in DOMAIN v |-> IF HasClient(ch, w) THEN ModeOn(v[w], n, mode) ELSE v[w]]

\* Mutant of TellPromotion: -h is not announced.
TellPromotionOnly(cl, ch, excluded, v) ==
    IF PromoteSuccessor(cl, ch, excluded) = ch THEN v
    ELSE TellMode(ch, v, cl[Heir(cl, ch, excluded)].nick, "+o")

\* promoteSuccessor on ch: -h if the heir was half-operator, then +o.
TellPromotion(cl, ch, excluded, v) ==
    LET heir == Heir(cl, ch, excluded)
        n    == cl[heir].nick
        less == IF IsHalfOperator(ch, heir) THEN TellMode(ch, v, n, "-h") ELSE v
    IN  IF PromoteSuccessor(cl, ch, excluded) = ch THEN v ELSE TellMode(ch, less, n, "+o")

\* handleJoin that made ch: JOIN to the others, the names to the newcomer.
TellJoin(cl, ch, v, fd) ==
    [w \in DOMAIN v \cup {fd} |->
        IF w = fd THEN Listed(cl, ch)
        ELSE IF HasClient(ch, w) THEN Joined(v[w], cl[fd].nick) ELSE v[w]]

\* The others are told that fd left, fd knows it, a successor is announced.
TellLeave(ch, v, fd) ==
    LET told == [w \in DOMAIN v \ {fd} |-> Gone(v[w], clients[fd].nick)]
    IN  TellPromotion(clients, RemoveInvite(RemoveClient(ch, fd), fd), NoFd, told)

\* Every member of the channels fd is on hears a QUIT, once for each, and so
\* does ircbot; it removes the nickname from all their pictures.
HearsQuit(w, fd) ==
    \E c \in DOMAIN channels : OnChannel(fd, c) /\ (OnChannel(w, c) \/ clients[w].nick = Bot)

TellQuit(c, fd) ==
    LET told == [w \in DOMAIN views[c] \ {fd} |->
                    IF HearsQuit(w, fd) THEN Gone(views[c][w], clients[fd].nick)
                    ELSE views[c][w]]
    IN  IF OnChannel(fd, c)
        THEN TellPromotion(clients, RemoveInvite(RemoveClient(channels[c], fd), fd), NoFd, told)
        ELSE told

\* A lost connection is announced to nobody, but the successor is.  So that
\* the one omission does not hide others, the pictures are those of clients
\* that know of the loss.
TellLoss(c, fd) ==
    IF OnChannel(fd, c) THEN TellLeave(channels[c], views[c], fd) ELSE views[c]

\* Mutant of TellArrivals: retries are made without a word.
TellArrivalsSilently(ch, v, arrivals) == v

\* Those of arrivals enter one after the other: each joins the channel, and is
\* listed the names, as the previous ones left it.
TellArrivals(ch, v, arrivals) ==
    LET after[n \in 0..Len(arrivals)] ==
            IF n = 0 THEN [ch |-> ch, v |-> v]
            ELSE LET now == Admit(clients, after[n-1].ch, <<arrivals[n]>>)
                 IN  [ch |-> now, v |-> TellJoin(clients, now, after[n-1].v, arrivals[n])]
    IN  after[Len(arrivals)].v

\* setChannelOperator: the rank that really changes.
Announced(ch, mode, target) ==
    CASE mode = "-o" /\ ~IsOperator(ch, target) /\ IsHalfOperator(ch, target) -> "-h"
      [] mode = "+o" /\ HasOperator(ch) /\ ~IsOperator(ch, target) -> "+h"
      [] OTHER -> mode

-----------------------------------------------------------------------------
(* The commands, with what they announce *)

InitViews == Init /\ views = [c \in ChannelName |-> [fd \in {} |-> {}]]

Silent == UNCHANGED views

\* JOIN, or the default JOIN at the end of a registration.
AnnounceJoin(fd) ==
    views' = [c \in ChannelName |->
                 IF Enters(fd, c) THEN TellJoin(clients', channels'[c], views[c], fd)
                 ELSE views[c]]

\* NICK of a registered client, to itself and to those that share a channel.
AnnounceNick(fd, nick) ==
    LET Hears(w) == w = fd \/ \E c \in DOMAIN channels : OnChannel(fd, c) /\ OnChannel(w, c)
    IN  views' = [c \in ChannelName |->
                     [w \in DOMAIN views[c] |->
                         IF Hears(w) THEN Renamed(views[c][w], clients[fd].nick, nick)
                         ELSE views[c][w]]]

ConnectionTold(fd) ==
    \/ AcceptNewClient(fd) /\ Silent
    \/ HandleQuit(fd) /\ views' = [c \in ChannelName |-> TellQuit(c, fd)]
    \/ DisconnectClient(fd) /\ views' = [c \in ChannelName |-> TellLoss(c, fd)]

RegisteringTold(fd) ==
    \/ HandlePass(fd) /\ Silent
    \/ HandleUser(fd) /\ AnnounceJoin(fd)
    \/ \E nick \in Nick :
          \/ NickInUse(fd, nick) /\ Silent
          \/ HandleNick(fd, nick) /\ ~Registered(fd) /\ AnnounceJoin(fd)
          \/ HandleNick(fd, nick) /\ Registered(fd) /\ AnnounceNick(fd, nick)

JoiningTold(fd) ==
    \E names \in SUBSET ChannelName \ {{}} :
        \/ \E key \in Key \cup {NoKey} : HandleJoin(fd, names, key) /\ AnnounceJoin(fd)
        \/ /\ HandlePart(fd, names)
           /\ views' = [c \in ChannelName |->
                           IF c \in names /\ OnChannel(fd, c)
                           THEN TellLeave(channels[c], views[c], fd) ELSE views[c]]

RulingTold(fd, c) ==
    \/ \E topic \in Topic \cup {NoTopic} : HandleTopic(fd, c, topic) /\ Silent
    \/ \E target \in Fd :
          \/ /\ HandleKick(fd, c, target)
             /\ views' = [views EXCEPT ![c] = TellLeave(channels[c], @, target)]
          \/ HandleInvite(fd, c, target) /\ Silent
          \/ /\ GiveOperator(fd, c, target)
             /\ views' = [views EXCEPT ![c] =
                   TellMode(channels[c], @, clients[target].nick,
                            Announced(channels[c], "+o", target))]
          \/ /\ TakeOperator(fd, c, target)
             /\ views' = [views EXCEPT ![c] =
                   TellPromotion(clients, RemoveRanks(channels[c], target), target,
                      TellMode(channels[c], @, clients[target].nick,
                               Announced(channels[c], "-o", target)))]

\* The other modes of ChangingMode say nothing of members and ranks.
ChangingModeTold(fd, c) ==
    \/ \E value \in BOOLEAN : SetTopicRestricted(fd, c, value) /\ Silent
    \/ SetInviteOnly(fd, c) /\ Silent
    \/ /\ ClearInviteOnly(fd, c)
       /\ \E arrivals \in Ascending(Admissible(c)) :
             views' = [views EXCEPT ![c] =
                TellArrivals([channels[c] EXCEPT !.inviteOnly = FALSE], @, arrivals)]
    \/ \E key \in Key : SetKey(fd, c, key) /\ Silent
    \/ RemoveKey(fd, c) /\ Silent
    \/ \E limit \in Limit : SetLimit(fd, c, limit) /\ Silent
    \/ RemoveLimit(fd, c) /\ Silent

NextTold ==
    \E fd \in Fd :
        \/ ConnectionTold(fd)
        \/ RegisteringTold(fd)
        \/ JoiningTold(fd)
        \/ \E c \in ChannelName : RulingTold(fd, c) \/ ChangingModeTold(fd, c)

viewVars == <<vars, views>>

SpecTold == InitViews /\ [][NextTold]_viewVars

-----------------------------------------------------------------------------
(* Properties *)

\* a and b are the first two of the list s.
AreFirst(s, a, b) == Len(s) > 1 /\ s[1] = a /\ s[2] = b

\* The one operator a member need not have been told of: the first human to come
\* in is made operator without a MODE (handleJoin), and ircbot, alone there until
\* then, hears a JOIN only.  That is the eldest member and the next in order, for
\* as long as both stay.
Untold(fd, c) == {o \in channels[c].operators : AreFirst(channels[c].members, fd, o)}

\* Those that were told they are on a channel are its members, and each of them
\* sees who is on it and with which rank, after any sequence of commands: the
\* announcements of JOIN, PART, KICK, QUIT, NICK, MODE, of the succession, also
\* after a lost connection, and of those who come in unasked, at the end of a
\* registration and when -i opens a channel, add up to the state, but for the
\* operator Untold names.
ViewsTrue ==
    \A c \in ChannelName :
        /\ DOMAIN views[c] = {fd \in Fd : OnChannel(fd, c)}
        /\ \A fd \in DOMAIN views[c] :
              LET truth == Listed(clients, channels[c])
              IN  /\ views[c][fd].members = truth.members
                  /\ views[c][fd].halfs = truth.halfs
                  /\ views[c][fd].ops \subseteq truth.ops
                  /\ truth.ops \ views[c][fd].ops \subseteq Names(clients, Untold(fd, c))
=============================================================================
