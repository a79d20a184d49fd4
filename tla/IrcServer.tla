----------------------------- MODULE IrcServer -----------------------------
(***************************************************************************)
(* The server: the commands of all clients, interleaved line by line, and  *)
(* what must hold of its state whatever they send.                         *)
(***************************************************************************)
EXTENDS Registration, Mode

Init ==
    /\ clients      = [fd \in {} |-> NewClient]
    /\ channels     = [c \in {} |-> NewChannel]
    /\ pendingJoins = [c \in ChannelName |-> {}]

Connection(fd) ==
    \/ AcceptNewClient(fd)
    \/ DisconnectClient(fd)
    \/ HandleQuit(fd)

Registering(fd) ==
    \/ HandlePass(fd)
    \/ HandleUser(fd)
    \/ \E nick \in Nick : NickInUse(fd, nick) \/ HandleNick(fd, nick)

Joining(fd) ==
    \E names \in SUBSET ChannelName \ {{}} :
        \/ \E key \in Key \cup {NoKey} : HandleJoin(fd, names, key)
        \/ HandlePart(fd, names)

Ruling(fd, c) ==
    \/ \E topic \in Topic \cup {NoTopic} : HandleTopic(fd, c, topic)
    \/ \E target \in Fd :
          \/ HandleKick(fd, c, target)
          \/ HandleInvite(fd, c, target)
          \/ GiveOperator(fd, c, target)
          \/ TakeOperator(fd, c, target)

ChangingMode(fd, c) ==
    \/ \E value \in BOOLEAN : SetTopicRestricted(fd, c, value)
    \/ SetInviteOnly(fd, c)
    \/ ClearInviteOnly(fd, c)
    \/ \E key \in Key : SetKey(fd, c, key)
    \/ RemoveKey(fd, c)
    \/ \E limit \in Limit : SetLimit(fd, c, limit)
    \/ RemoveLimit(fd, c)

Next ==
    \E fd \in Fd :
        \/ Connection(fd)
        \/ Registering(fd)
        \/ Joining(fd)
        \/ \E c \in ChannelName : Ruling(fd, c) \/ ChangingMode(fd, c)

Spec == Init /\ [][Next]_vars

-----------------------------------------------------------------------------
(* Invariants *)

\* The three maps of class Server have their types: _clients from descriptors
\* to clients, _channels from names to channels, _pendingJoins from names to
\* sets of descriptors.
TypeOK ==
    /\ Live \subseteq Fd
    /\ clients \in [Live -> ClientRecord]
    /\ DOMAIN channels \subseteq ChannelName
    /\ channels \in [DOMAIN channels -> ChannelRecord]
    /\ pendingJoins \in [ChannelName -> SUBSET Fd]

\* No two connections bear the same nickname, registered or not (handleNick).
NicknamesUnique ==
    \A fd, other \in Live :
        clients[fd].nick = clients[other].nick => fd = other \/ clients[fd].nick = NoNick

\* A client is registered exactly when its password, nickname and user name
\* have been accepted: neither NICK nor USER can be the last to arrive without
\* ending the registration (completeRegistration).
RegisteredExactly ==
    \A fd \in Live :
        clients[fd].registered <=>
            clients[fd].pass /\ clients[fd].nick # NoNick /\ clients[fd].user

\* Everything a channel remembers of a descriptor is of the client that is
\* connected under it now: the next client accept() gives that descriptor to
\* inherits no membership, rank or invitation (disconnectClient).
NoStaleFd ==
    \A c \in DOMAIN channels :
        /\ \A fd \in Range(channels[c].members) : Registered(fd)
        /\ channels[c].invited \subseteq Live

\* A retry that -i will make for a client is of one that is connected and
\* registered and is not in the channel (_pendingJoins).
PendingAreOutside ==
    \A c \in ChannelName : \A fd \in pendingJoins[c] : Registered(fd) /\ ~OnChannel(fd, c)

\* A retry of joinPendingClients: the JOIN of a client it found, without key.
Retry(ch, fd) ==
    IF Registered(fd) /\ ~HasClient(ch, fd) /\ MayEnter(ch, fd, NoKey)
    THEN Admit(clients, ch, <<fd>>) ELSE ch

RetriesInTurn(ch, order) ==
    LET after[n \in 0..Len(order)] == IF n = 0 THEN ch ELSE Retry(after[n-1], order[n])
    IN  after[Len(order)]

\* -i lets in exactly those that would come in if each waiting client, in
\* ascending order of descriptors, repeated its JOIN without a key: Admissible
\* and Admit say at once what joinPendingClients does in a loop of handleJoin.
OpeningIsRetriesInTurn ==
    \A c \in DOMAIN channels :
        LET opened == [channels[c] EXCEPT !.inviteOnly = FALSE]
        IN  /\ Ascending(Admissible(c)) # {} /\ Ascending(pendingJoins[c]) # {}
            /\ \A arrivals \in Ascending(Admissible(c)), order \in Ascending(pendingJoins[c]) :
                  Admit(clients, opened, arrivals) = RetriesInTurn(opened, order)

\* A channel exists only while it has members: no command leaves an empty
\* one behind, with its modes, topic and invitations (getOrCreateChannel).
ChannelsInhabited == \A c \in DOMAIN channels : channels[c].members # << >>

\* Neither list whose order is kept, of members and of half-operators, names a
\* client twice: one erase removes it.
NoDuplicates ==
    \A c \in DOMAIN channels :
        IsInjective(channels[c].members) /\ IsInjective(channels[c].halfOperators)

\* Only members are operators or half-operators.
RanksAreMembers ==
    \A c \in DOMAIN channels :
        /\ channels[c].operators \subseteq Range(channels[c].members)
        /\ Range(channels[c].halfOperators) \subseteq Range(channels[c].members)

\* A half-operator is always under an operator: when the operator goes, by
\* PART, KICK, QUIT, -o or a lost connection, one takes over in the same step.
HalfOperatorsHaveOperator ==
    \A c \in DOMAIN channels : channels[c].halfOperators # << >> => HasOperator(channels[c])

\* A channel never has three operators.  It can have two: an operator alone
\* that renames itself ircbot lets the next human in as operator.
AtMostTwoOperators ==
    \A c \in DOMAIN channels :
        \A a, b, d \in channels[c].operators : a = b \/ b = d \/ a = d

-----------------------------------------------------------------------------
(* Action properties *)

Enters(fd, c) == ~OnChannel(fd, c) /\ OnChannel(fd, c)'
Leaves(fd, c) == OnChannel(fd, c) /\ ~OnChannel(fd, c)'

\* c is there before and after the step.
Lasts(c) == Exists(c) /\ Exists(c)'

\* Nobody comes into a channel that is +i without an invitation, except the
\* clients it refused when this very step opens it; not at the end of a
\* registration either (handleJoin, joinPendingClients, completeRegistration).
InviteOnlyGate ==
    [][\A c \in DOMAIN channels, fd \in Fd :
         Enters(fd, c) /\ channels[c].inviteOnly =>
            \/ IsInvited(channels[c], fd)
            \/ ~channels'[c].inviteOnly /\ fd \in pendingJoins[c]]_vars

\* The only way into a channel with a key is a JOIN that gives this key: of the
\* keys, or none, with which a JOIN of the one that comes in does what the step
\* did, this key is the only one.  So neither another key nor none will do, and
\* the retry at -i and the default JOIN of #general, which give none, let
\* nobody in (handleJoin).
KeyGate ==
    [][\A c \in DOMAIN channels, fd \in Fd :
         Enters(fd, c) /\ channels[c].key # NoKey =>
            {key \in Key \cup {NoKey} :
                \E names \in SUBSET ChannelName : HandleJoin(fd, names, key)}
               = {channels[c].key}]_vars

\* No step that lets clients in takes a channel past its limit, however many
\* of them -i admits at once.  (The limit may be set below the number of
\* members there are.)
LimitGate ==
    [][\A c \in DOMAIN channels :
         (\E fd \in Fd : Enters(fd, c)) /\ channels[c].limit # NoLimit =>
            Len(channels'[c].members) <= channels[c].limit]_vars

\* An invitation serves once: a client that comes in or goes out, by whatever
\* command, holds none afterwards, so one that was kicked from a +i channel
\* needs a new one (removeInvite in handleJoin, handlePart, handleKick).
InvitationIsSpent ==
    [][\A c \in DOMAIN channels, fd \in Fd :
         Lasts(c) /\ (Enters(fd, c) \/ Leaves(fd, c)) => fd \notin channels'[c].invited]_vars

\* A channel loses its last operator only if nobody who could take over stays:
\* no half-operator and no human member (promoteSuccessor).
OperatorLossNeedsNoHeir ==
    [][\A c \in DOMAIN channels :
         Lasts(c) /\ HasOperator(channels[c]) /\ ~HasOperator(channels'[c]) =>
            /\ channels'[c].halfOperators = << >>
            /\ ~\E m \in Range(channels'[c].members) : IsHuman(clients', m)]_vars

\* In channel c, a precedes b in the list s.
Precedes(s, a, b) == \E i, j \in DOMAIN s : i < j /\ s[i] = a /\ s[j] = b

\* A client becomes operator in two ways.  It enters, a new channel or not, as
\* the first human: it is human and no human precedes it.  Or it is a member
\* and no operator is left: then it is the eldest half-operator of those that
\* stay or, if none is there, it is human, never ircbot, and no human precedes
\* it but the operator just deposed (handleJoin, promoteSuccessor).
OperatorGain ==
    [][\A c \in DOMAIN channels' :
       \A h \in channels'[c].operators \ ChannelNamed(c).operators :
            \/ /\ Enters(h, c)
               /\ IsHuman(clients', h)
               /\ \A m \in Range(channels'[c].members) :
                     Precedes(channels'[c].members, m, h) => ~IsHuman(clients', m)
            \/ /\ OnChannel(h, c)
               /\ channels[c].operators \cap channels'[c].operators = {}
               /\ \A f \in Range(channels'[c].halfOperators) :
                     Precedes(channels[c].halfOperators, h, f)
               /\ IsHalfOperator(channels[c], h) \/
                     /\ IsHuman(clients, h)
                     /\ \A m \in Range(channels'[c].members) :
                           Precedes(channels[c].members, m, h) /\ IsHuman(clients, m) =>
                              IsOperator(channels[c], m)]_vars

\* Clients that stay keep their order of arrival, and half-operators their
\* order of promotion, whoever comes and goes: succession goes by them.
SeniorityKept ==
    [][\A c \in DOMAIN channels \cap DOMAIN channels' :
       \A a, b \in Range(channels[c].members) :
            /\ OnChannel(a, c)' /\ OnChannel(b, c)' /\ Precedes(channels[c].members, a, b)
                  => Precedes(channels'[c].members, a, b)
            /\ {a, b} \subseteq Range(channels'[c].halfOperators)
                  /\ Precedes(channels[c].halfOperators, a, b)
                  => Precedes(channels'[c].halfOperators, a, b)]_vars

\* When a channel is opened, nobody it had refused is left behind: each is in,
\* or the channel has a key, or is full (joinPendingClients).
NobodyLeftWaiting ==
    [][\A c \in DOMAIN channels :
         Lasts(c) /\ channels[c].inviteOnly /\ ~channels'[c].inviteOnly =>
            /\ pendingJoins'[c] = {}
            /\ \A fd \in pendingJoins[c] :
                  \/ OnChannel(fd, c)'
                  \/ channels[c].key # NoKey
                  \/ /\ channels[c].limit # NoLimit
                     /\ Len(channels'[c].members) >= channels[c].limit]_vars

-----------------------------------------------------------------------------
(* What the repository says and the code does not keep *)

\* "Once the channel has people" an operator is there and promoteSuccessor
\* replaces it (handleJoin).  False: ircbot, alone and never operator, renames
\* itself and is a human without rank, until another member joins and leaves.
PeopledChannelHasOperator ==
    \A c \in DOMAIN channels :
        (\E m \in Range(channels[c].members) : IsHuman(clients, m)) => HasOperator(channels[c])

\* The server joins a client that registers to #general when that channel is
\* not +i (README.md).  False: a key or a limit keeps it out.
DefaultJoin ==
    [][\A fd \in Live \cap Live' :
         /\ ~clients[fd].registered
         /\ clients'[fd].registered
         /\ ~ChannelNamed(General).inviteOnly
         => OnChannel(fd, General)']_vars
=============================================================================
