---------------------------- MODULE MCIrcServer ----------------------------
(* Values of the constants of IrcServer for TLC. *)
EXTENDS IrcServer

TwoFds   == 4..5
ThreeFds == 4..6

\* Human nicknames are interchangeable while none is a variant of another.
\* (Descriptors are not: they are ordered.)
HumanNicks == Permutations(Nick \ {Bot})

\* So are keys: they are only compared.
NicksAndKeys == HumanNicks \cup Permutations(Key)

\* isNicknameVariant strips underscores and digits from both before it
\* compares them: each is taken for a retry of the other.
Underscored == {<<"alice_", "alice">>, <<"alice", "alice_">>}

\* Bound of the runs that say nothing of topics: no channel is made -t.
TopicsRestricted == \A c \in DOMAIN channels' : channels'[c].topicRestricted

BoundedSpec == Init /\ [][Next /\ TopicsRestricted]_vars
=============================================================================
