-------------------------------- MODULE Mode --------------------------------
(***************************************************************************)
(* MODE (src/Mode.cpp): one action per mode.                               *)
(***************************************************************************)
EXTENDS ChannelCommands

\* A member that is operator or half-operator; +o and -o need an operator.
MayChangeMode(fd, c) ==
    /\ Registered(fd)
    /\ OnChannel(fd, c)
    /\ IsOperator(channels[c], fd) \/ IsHalfOperator(channels[c], fd)

SetTopicRestricted(fd, c, value) ==
    /\ MayChangeMode(fd, c)
    /\ channels' = [channels EXCEPT ![c].topicRestricted = value]
    /\ UNCHANGED <<clients, pendingJoins>>

SetInviteOnly(fd, c) ==
    /\ MayChangeMode(fd, c)
    /\ channels' = [channels EXCEPT ![c].inviteOnly = TRUE]
    /\ UNCHANGED <<clients, pendingJoins>>

\* What joinPendingClients finds: clients refused by +i, still connected and
\* registered, that have not come in meanwhile.
Waiting(c) == {w \in pendingJoins[c] : Registered(w) /\ ~OnChannel(w, c)}

\* Mutants of Admissible: the limit is compared with the members before -i; the
\* limit is never quite reached.
AdmissibleTogether(c) ==
    {w \in Waiting(c) :
        /\ channels[c].key = NoKey
        /\ channels[c].limit # NoLimit => Len(channels[c].members) < channels[c].limit}

AdmissibleButOne(c) ==
    {w \in Waiting(c) :
        /\ channels[c].key = NoKey
        /\ channels[c].limit # NoLimit =>
              Len(channels[c].members) + Cardinality({v \in Waiting(c) : v <= w})
                 < channels[c].limit}

\* Those whose second JOIN succeeds: it carries no key, and descriptors are
\* tried in ascending order until the limit is reached.
Admissible(c) ==
    {w \in Waiting(c) :
        /\ channels[c].key = NoKey
        /\ channels[c].limit # NoLimit =>
              Len(channels[c].members) + Cardinality({v \in Waiting(c) : v < w})
                 < channels[c].limit}

\* The elements of S in ascending order, as the only member of a set.
Ascending(S) ==
    {s \in [1..Cardinality(S) -> S] : \A i, j \in DOMAIN s : i < j => s[i] < s[j]}

\* -i, then joinPendingClients: every entry of the channel is dropped, and
\* those whose retry is refused now (475, 471) are not remembered again.
ClearInviteOnly(fd, c) ==
    /\ MayChangeMode(fd, c)
    /\ \E arrivals \in Ascending(Admissible(c)) :
          channels' = [channels EXCEPT
                         ![c] = Admit(clients, [@ EXCEPT !.inviteOnly = FALSE], arrivals)]
    /\ pendingJoins' = [pendingJoins EXCEPT ![c] = {}]
    /\ UNCHANGED clients

SetKey(fd, c, key) ==
    /\ MayChangeMode(fd, c)
    /\ channels' = [channels EXCEPT ![c].key = key]
    /\ UNCHANGED <<clients, pendingJoins>>

\* A limit of zero or less is refused (461).
SetLimit(fd, c, limit) ==
    /\ MayChangeMode(fd, c)
    /\ channels' = [channels EXCEPT ![c].limit = limit]
    /\ UNCHANGED <<clients, pendingJoins>>

RemoveKey(fd, c) ==
    /\ MayChangeMode(fd, c)
    /\ channels' = [channels EXCEPT ![c].key = NoKey]
    /\ UNCHANGED <<clients, pendingJoins>>

RemoveLimit(fd, c) ==
    /\ MayChangeMode(fd, c)
    /\ channels' = [channels EXCEPT ![c].limit = NoLimit]
    /\ UNCHANGED <<clients, pendingJoins>>

-----------------------------------------------------------------------------
(* setChannelOperator *)

MayChangeOperator(fd, c, target) ==
    /\ MayChangeMode(fd, c)
    /\ IsOperator(channels[c], fd)
    /\ Designated(target)
    /\ OnChannel(target, c)

\* Mutant of Granted: +o always makes an operator.
GrantedOperator(ch, target) == [ch EXCEPT !.operators = @ \cup {target}]

\* +o makes a half-operator of the target while the channel has an operator;
\* the target may be an operator and then holds both ranks.
Granted(ch, target) ==
    IF HasOperator(ch) THEN AddHalfOperator(ch, target)
    ELSE [ch EXCEPT !.operators = @ \cup {target}]

GiveOperator(fd, c, target) ==
    /\ MayChangeOperator(fd, c, target)
    /\ channels' = [channels EXCEPT ![c] = Granted(@, target)]
    /\ UNCHANGED <<clients, pendingJoins>>

\* -o, then promoteSuccessor, which spares the target if it can.
TakeOperator(fd, c, target) ==
    /\ MayChangeOperator(fd, c, target)
    /\ channels' = [channels EXCEPT
          ![c] = PromoteSuccessor(clients, RemoveRanks(@, target), target)]
    /\ UNCHANGED <<clients, pendingJoins>>
=============================================================================
