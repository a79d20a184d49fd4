-------------------------- MODULE ChannelCommands --------------------------
(***************************************************************************)
(* JOIN, PART, KICK, INVITE and TOPIC, and promoteSuccessor                *)
(* (src/ChannelCommands.cpp).                                              *)
(***************************************************************************)
EXTENDS ServerState

-----------------------------------------------------------------------------
(* Succession *)

NoFd == -1      \* the default excludedFd of promoteSuccessor

\* Mutants of Heir: ircbot may take over; the client just de-opped is never
\* chosen.
HeirAnyone(cl, ch, excluded) ==
    LET eligible == {i \in DOMAIN ch.members :
                        ch.members[i] # excluded /\ ch.members[i] \in DOMAIN cl}
    IN  IF ch.halfOperators # << >> THEN ch.halfOperators[1]
        ELSE IF eligible # {} THEN ch.members[Min(eligible)]
        ELSE excluded

HeirNeverExcluded(cl, ch, excluded) ==
    LET eligible == {i \in DOMAIN ch.members :
                        ch.members[i] # excluded /\ IsHuman(cl, ch.members[i])}
    IN  IF ch.halfOperators # << >> THEN ch.halfOperators[1]
        ELSE IF eligible # {} THEN ch.members[Min(eligible)]
        ELSE NoFd

\* Who takes over a channel without operator: the eldest half-operator, else
\* the eldest member that is human and not the client just de-opped, else the
\* de-opped client itself.
Heir(cl, ch, excluded) ==
    LET eligible == {i \in DOMAIN ch.members :
                        ch.members[i] # excluded /\ IsHuman(cl, ch.members[i])}
    IN  IF ch.halfOperators # << >> THEN ch.halfOperators[1]
        ELSE IF eligible # {} THEN ch.members[Min(eligible)]
        ELSE excluded

\* Mutant of PromoteSuccessor: the successor is not looked up in _clients.
PromoteUnchecked(cl, ch, excluded) ==
    LET heir == Heir(cl, ch, excluded)
    IN  IF HasOperator(ch) \/ ch.members = << >> THEN ch
        ELSE [ch EXCEPT !.halfOperators = Erase(@, heir), !.operators = @ \cup {heir}]

PromoteSuccessor(cl, ch, excluded) ==
    LET heir == Heir(cl, ch, excluded)
    IN  IF HasOperator(ch) \/ ch.members = << >> \/ heir \notin DOMAIN cl
        THEN ch
        ELSE [ch EXCEPT !.halfOperators = Erase(@, heir), !.operators = @ \cup {heir}]

-----------------------------------------------------------------------------
(* Leaving: PART, KICK, QUIT and a lost connection end alike on a channel. *)

\* Mutants of Departed: only joined channels are cleaned; nobody takes over.
DepartedIfJoined(ch, fd) ==
    IF HasClient(ch, fd)
    THEN PromoteSuccessor(clients, RemoveInvite(RemoveClient(ch, fd), fd), NoFd)
    ELSE ch

DepartedUnsucceeded(ch, fd) == RemoveInvite(RemoveClient(ch, fd), fd)

\* The channel once fd has gone and its successor is in place.
Departed(ch, fd) ==
    LET gone == RemoveInvite(RemoveClient(ch, fd), fd)
    IN  IF HasClient(ch, fd) THEN PromoteSuccessor(clients, gone, NoFd) ELSE gone

\* Mutant of Survives: an empty channel is kept.
SurvivesEmpty(c, fd) == TRUE

\* A channel its last member leaves is erased.
Survives(c, fd) == RemoveClient(channels[c], fd).members # << >>

\* fd leaves the channels of C; the others are as they were.
Leave(fd, C) ==
    channels' = [c \in {d \in DOMAIN channels : d \in C => Survives(d, fd)} |->
                    IF c \in C THEN Departed(channels[c], fd) ELSE channels[c]]

-----------------------------------------------------------------------------
(* Joining *)

\* Mutant of NeedsInvitation: a key replaces the invitation.
NeedsInvitationOrKey(ch, fd) == ch.inviteOnly /\ ~IsInvited(ch, fd) /\ ch.key = NoKey

\* 473, and the client is remembered in _pendingJoins.
NeedsInvitation(ch, fd) == ch.inviteOnly /\ ~IsInvited(ch, fd)

\* Mutant of MayEnter: a key is asked for and not compared.
MayEnterAnyKey(ch, fd, key) ==
    /\ ~NeedsInvitation(ch, fd)
    /\ ch.key # NoKey => key # NoKey
    /\ ch.limit # NoLimit => Len(ch.members) < ch.limit

\* The three tests of handleJoin, in the order invitation (473), key (475), limit (471).
MayEnter(ch, fd, key) ==
    /\ ~NeedsInvitation(ch, fd)
    /\ ch.key # NoKey => key = ch.key
    /\ ch.limit # NoLimit => Len(ch.members) < ch.limit

\* The clients of the sequence arrivals enter one after the other: among the
\* clients cl, the first human becomes operator of a channel without human.
Admit(cl, ch, arrivals) ==
    LET firstHuman == {i \in DOMAIN arrivals :
                          /\ IsHuman(cl, arrivals[i])
                          /\ \A j \in 1..(i-1) : ~IsHuman(cl, arrivals[j])}
    IN  [ch EXCEPT
            !.members   = @ \o arrivals,
            !.invited   = @ \ Range(arrivals),
            !.operators = IF \E m \in Range(ch.members) : IsHuman(cl, m) THEN @
                          ELSE @ \cup {arrivals[i] : i \in firstHuman}]

\* handleJoin for a registered fd and a list of names: the names of one JOIN
\* are distinct channels, and a repeated name finds the client a member or
\* refuses it again, so the list is a set.
Join(cl, fd, names, key) ==
    LET asked    == {c \in names : ~HasClient(ChannelNamed(c), fd)}
        refused  == {c \in asked : NeedsInvitation(ChannelNamed(c), fd)}
        entered  == {c \in asked : MayEnter(ChannelNamed(c), fd, key)}
    IN  /\ channels' = [c \in DOMAIN channels \cup entered |->
                            IF c \in entered THEN Admit(cl, ChannelNamed(c), <<fd>>)
                            ELSE channels[c]]
        /\ pendingJoins' = [c \in ChannelName |->
                            CASE c \in entered -> pendingJoins[c] \ {fd}
                              [] c \in refused -> pendingJoins[c] \cup {fd}
                              [] OTHER         -> pendingJoins[c]]

-----------------------------------------------------------------------------
(* The commands *)

HandleJoin(fd, names, key) ==
    /\ Registered(fd)
    /\ Join(clients, fd, names, key)
    /\ UNCHANGED clients

\* Names of channels that are missing (403) or not joined (442) are skipped.
HandlePart(fd, names) ==
    /\ Registered(fd)
    /\ Leave(fd, {c \in names : OnChannel(fd, c)})
    /\ UNCHANGED <<clients, pendingJoins>>

HandleKick(fd, c, target) ==
    /\ Registered(fd)
    /\ OnChannel(fd, c)
    /\ IsOperator(channels[c], fd)
    /\ Designated(target)
    /\ OnChannel(target, c)
    /\ Leave(target, {c})
    /\ UNCHANGED <<clients, pendingJoins>>

\* The guest may be any client that has a nickname, registered or not, and
\* even a member already.
HandleInvite(fd, c, target) ==
    /\ Registered(fd)
    /\ OnChannel(fd, c)
    /\ IsOperator(channels[c], fd)
    /\ Designated(target)
    /\ channels' = [channels EXCEPT ![c].invited = @ \cup {target}]
    /\ UNCHANGED <<clients, pendingJoins>>

HandleTopic(fd, c, topic) ==
    /\ Registered(fd)
    /\ OnChannel(fd, c)
    /\ channels[c].topicRestricted => IsOperator(channels[c], fd)
    /\ channels' = [channels EXCEPT ![c].topic = topic]
    /\ UNCHANGED <<clients, pendingJoins>>
=============================================================================
