---------------------------- MODULE Registration ----------------------------
(***************************************************************************)
(* Connections, and PASS, NICK and USER (src/Registration.cpp; addClient,  *)
(* acceptNewClient and disconnectClient of src/Server.cpp; handleQuit of   *)
(* src/Messages.cpp).                                                      *)
(***************************************************************************)
EXTENDS ChannelCommands

-----------------------------------------------------------------------------
(* Connections *)

\* accept() returns the lowest descriptor that is free, so a descriptor comes
\* back into use as soon as its client has gone.
AcceptNewClient(fd) ==
    /\ fd \notin Live
    /\ \A other \in Fd \ Live : fd <= other
    /\ clients' = [f \in Live \cup {fd} |-> IF f = fd THEN NewClient ELSE clients[f]]
    /\ UNCHANGED <<channels, pendingJoins>>

\* Mutant of WithoutPending: the entries of a lost client stay.
WithPending(fd) == pendingJoins

WithoutPending(fd) == [c \in ChannelName |-> pendingJoins[c] \ {fd}]

\* disconnectClient visits every channel, joined or not, for the invitations.
DisconnectClient(fd) ==
    /\ fd \in Live
    /\ Leave(fd, DOMAIN channels)
    /\ clients' = [f \in Live \ {fd} |-> clients[f]]
    /\ pendingJoins' = WithoutPending(fd)

\* QUIT leaves the joined channels one by one and calls disconnectClient,
\* which then finds invitations only: the end is that of a lost connection.
HandleQuit(fd) == DisconnectClient(fd)

-----------------------------------------------------------------------------
(* Registration *)

\* Mutant of CanRegister: the user name is not awaited.
CanRegisterWithoutUser(client) == ~client.registered /\ client.pass /\ client.nick # NoNick

CanRegister(client) ==
    /\ ~client.registered
    /\ client.pass
    /\ client.nick # NoNick
    /\ client.user

\* Given the clients cl that NICK or USER leaves, registers fd if it may and
\* joins it to #general, without a key, unless that channel is +i.
CompleteRegistration(cl, fd) ==
    IF CanRegister(cl[fd])
    THEN /\ clients' = [cl EXCEPT ![fd].registered = TRUE]
         /\ IF ChannelNamed(General).inviteOnly
            THEN UNCHANGED <<channels, pendingJoins>>
            ELSE Join(cl, fd, {General}, NoKey)
    ELSE /\ clients' = cl
         /\ UNCHANGED <<channels, pendingJoins>>

\* The right password, given once.  A wrong one (464) may be corrected.
HandlePass(fd) ==
    /\ fd \in Live
    /\ ~clients[fd].pass
    /\ clients' = [clients EXCEPT ![fd].pass = TRUE]
    /\ UNCHANGED <<channels, pendingJoins>>

\* Mutant of HeldByOther: only registered clients hold their nickname.
HeldByRegistered(fd, nick) ==
    \E other \in Live \ {fd} : clients[other].registered /\ clients[other].nick = nick

HeldByOther(fd, nick) == \E other \in Live \ {fd} : clients[other].nick = nick

\* An unregistered client may not take a variant of a nickname it was refused.
TakenForRetry(fd, nick) == ~clients[fd].registered /\ nick \in clients[fd].barred

\* 433 to an unregistered client: addRejectedNickname.
NickInUse(fd, nick) ==
    /\ fd \in Live
    /\ ~clients[fd].registered
    /\ ~TakenForRetry(fd, nick)
    /\ HeldByOther(fd, nick)
    /\ clients' = [clients EXCEPT ![fd].barred =
                      @ \cup {n \in Nick : <<n, nick>> \in VariantOf}]
    /\ UNCHANGED <<channels, pendingJoins>>

\* NICK needs no PASS: a client that never gave one may hold a nickname.
HandleNick(fd, nick) ==
    /\ fd \in Live
    /\ ~TakenForRetry(fd, nick)
    /\ ~HeldByOther(fd, nick)
    /\ clients[fd].nick # nick
    /\ CompleteRegistration([clients EXCEPT ![fd].nick = nick], fd)

HandleUser(fd) ==
    /\ fd \in Live
    /\ clients[fd].pass
    /\ ~clients[fd].user
    /\ CompleteRegistration([clients EXCEPT ![fd].user = TRUE], fd)
=============================================================================
