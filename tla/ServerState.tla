---------------------------- MODULE ServerState ----------------------------
(***************************************************************************)
(* The state of class Server (inc/Server.hpp) that its command handlers    *)
(* read and write: _clients, _channels and _pendingJoins.  The server is   *)
(* one thread, and a handler runs to its end before the next line is       *)
(* dispatched (Server::run, Server::extractCommands): each handler is one  *)
(* action.  Lines of several clients interleave in any order.              *)
(*                                                                         *)
(* A command the code refuses changes nothing but the output buffers,      *)
(* which are not part of this state: it is a stuttering step.              *)
(***************************************************************************)
EXTENDS Channel, Integers

CONSTANTS
    Nick,           \* nicknames isValidNickname accepts
    NoNick,         \* the empty nickname
    Bot,            \* "ircbot", which the server treats apart
    VariantOf,      \* <<n, r>>: isNicknameVariant takes n for a retry of r
    ChannelName,    \* channel names, all beginning with '#'
    General         \* "#general", joined when registration completes

ASSUME NickAssumption    == NoNick \notin Nick \cup {Bot}
ASSUME VariantAssumption == VariantOf \subseteq Nick \X Nick
ASSUME GeneralAssumption == General \in ChannelName

VARIABLES
    clients,        \* _clients: the open connections, by descriptor
    channels,       \* _channels: the existing channels, by name
    pendingJoins    \* _pendingJoins: who was refused by +i; {} for a name without an entry

vars == <<clients, channels, pendingJoins>>

-----------------------------------------------------------------------------
(* Clients *)

\* pass: _authenticated and _sentPass, which are only ever set together.
\* user: _username is not empty.
\* barred: the nicknames isNicknameVariant refuses given _rejectedNicknames.
ClientRecord ==
    [pass : BOOLEAN, nick : Nick \cup {NoNick}, user : BOOLEAN,
     registered : BOOLEAN, barred : SUBSET Nick]

NewClient ==
    [pass |-> FALSE, nick |-> NoNick, user |-> FALSE, registered |-> FALSE, barred |-> {}]

Live           == DOMAIN clients
Registered(fd) == fd \in Live /\ clients[fd].registered

\* The client a nickname in a command designates: the first that bears it in
\* the order of _clients, that is of the descriptors.
Designated(fd) ==
    /\ fd \in Live
    /\ clients[fd].nick # NoNick
    /\ \A other \in Live : clients[other].nick = clients[fd].nick => fd <= other

\* Among the clients cl, fd is connected under another nickname than ircbot.
IsHuman(cl, fd) == fd \in DOMAIN cl /\ cl[fd].nick # Bot

-----------------------------------------------------------------------------
(* Channels *)

Exists(c)     == c \in DOMAIN channels
OnChannel(fd, c) == Exists(c) /\ HasClient(channels[c], fd)

\* getOrCreateChannel: a missing channel counts as a new one.
ChannelNamed(c) == IF Exists(c) THEN channels[c] ELSE NewChannel
=============================================================================
