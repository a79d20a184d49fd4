------------------------------ MODULE History ------------------------------
(***************************************************************************)
(* IrcServer with what clients sent and the server did not keep: USER      *)
(* commands refused for want of a password, and the keys of the JOINs that *)
(* +i refused.  The two variables are written and never read.              *)
(***************************************************************************)
EXTENDS IrcServer

VARIABLES
    sentUser,   \* the connections that sent a USER with its four parameters
    askedWith   \* askedWith[c][fd]: the key of the last JOIN of fd for c

history == <<sentUser, askedWith>>

HistoryInit ==
    /\ Init
    /\ sentUser  = {}
    /\ askedWith = [c \in ChannelName |-> [fd \in Fd |-> NoKey]]

\* USER before PASS: 464, and the user name is forgotten.
HandleUserTooEarly(fd) ==
    /\ fd \in Live
    /\ ~clients[fd].pass
    /\ UNCHANGED vars

UserStep(fd) ==
    /\ HandleUser(fd) \/ HandleUserTooEarly(fd)
    /\ sentUser' = sentUser \cup {fd}
    /\ UNCHANGED askedWith

JoinStep(fd) ==
    \E names \in SUBSET ChannelName \ {{}}, key \in Key \cup {NoKey} :
        /\ HandleJoin(fd, names, key)
        /\ askedWith' = [c \in ChannelName |->
                            IF c \in names THEN [askedWith[c] EXCEPT ![fd] = key]
                            ELSE askedWith[c]]
        /\ UNCHANGED sentUser

HangUpStep(fd) ==
    /\ DisconnectClient(fd)
    /\ sentUser'  = sentUser \ {fd}
    /\ askedWith' = [c \in ChannelName |-> [askedWith[c] EXCEPT ![fd] = NoKey]]

OtherStep(fd) ==
    /\ \/ AcceptNewClient(fd)
       \/ HandlePass(fd)
       \/ \E nick \in Nick : NickInUse(fd, nick) \/ HandleNick(fd, nick)
       \/ \E names \in SUBSET ChannelName \ {{}} : HandlePart(fd, names)
       \/ \E c \in ChannelName : Ruling(fd, c) \/ ChangingMode(fd, c)
    /\ UNCHANGED history

HistoryNext == \E fd \in Fd : UserStep(fd) \/ JoinStep(fd) \/ HangUpStep(fd) \/ OtherStep(fd)

HistorySpec == HistoryInit /\ [][HistoryNext]_<<vars, history>>

-----------------------------------------------------------------------------
(* What the repository says and the code does not keep *)

\* "Registration ends once PASS, NICK and USER are all valid, whatever order
\* they arrived in" (completeRegistration).  False: a USER that precedes PASS is
\* refused, so PASS as the last of the three ends nothing.
RegistrationInAnyOrder ==
    \A fd \in sentUser :
        clients[fd].pass /\ clients[fd].nick # NoNick => clients[fd].registered

\* "Clients refused by +i retry their JOIN once the channel is opened"
\* (joinPendingClients).  False: their JOIN gave the key of the channel, the
\* retry gives none, and they stay out of a channel that has room for them.
RetryKeepsKey ==
    [][\A c \in DOMAIN channels \cap DOMAIN channels' :
         channels[c].inviteOnly /\ ~channels'[c].inviteOnly =>
            \A fd \in pendingJoins[c] :
               (askedWith[c][fd] = channels[c].key /\ channels[c].limit = NoLimit)
                  => OnChannel(fd, c)']_<<vars, history>>
=============================================================================
