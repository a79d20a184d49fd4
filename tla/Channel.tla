------------------------------ MODULE Channel ------------------------------
(***************************************************************************)
(* One channel: class Channel of inc/Channel.hpp and src/Channel.cpp.  A   *)
(* channel is a value, and each method that changes it is an operator from *)
(* the old value to the new one.                                           *)
(*                                                                         *)
(* _clients and _halfOperators keep their order, because the server elects *)
(* the eldest half-operator or the eldest member when the operator goes.   *)
(* _operators and _invited are vectors without duplicates whose order is   *)
(* never read: they are sets here.  A flag and its value (_keyEnabled and  *)
(* _key, _limitEnabled and _limit) are one field, since the code always    *)
(* assigns the two together.                                               *)
(***************************************************************************)
EXTENDS Naturals, FiniteSets, SequencesExt

CONSTANTS
    Fd,         \* the file descriptors accept() may return for a client
    Topic,      \* topics a client may set
    NoTopic,    \* the empty topic
    Key,        \* channel keys
    NoKey,      \* no key: of a channel, _keyEnabled is false; of a JOIN, no second parameter
    Limit       \* values of MODE +l that atoi turns into a positive integer

ASSUME FdAssumption    == Fd \subseteq Nat /\ IsFiniteSet(Fd)
ASSUME LimitAssumption == Limit \subseteq Nat \ {0}
ASSUME KeyAssumption   == NoKey \notin Key

NoLimit == 0    \* _limitEnabled is false: the code resets _limit to 0 with it

ChannelRecord ==
    [members         : Seq(Fd),     \* _clients, in order of arrival
     operators       : SUBSET Fd,   \* _operators
     halfOperators   : Seq(Fd),     \* _halfOperators, in order of promotion
     invited         : SUBSET Fd,   \* _invited
     topic           : Topic \cup {NoTopic},
     topicRestricted : BOOLEAN,
     inviteOnly      : BOOLEAN,
     key             : Key \cup {NoKey},
     limit           : Limit \cup {NoLimit}]

\* Channel::Channel(name): no member, +t, no other mode.
NewChannel ==
    [members |-> << >>, operators |-> {}, halfOperators |-> << >>, invited |-> {},
     topic |-> NoTopic, topicRestricted |-> TRUE, inviteOnly |-> FALSE,
     key |-> NoKey, limit |-> NoLimit]

-----------------------------------------------------------------------------
(* Queries *)

HasClient(ch, fd)      == fd \in Range(ch.members)
IsOperator(ch, fd)     == fd \in ch.operators
HasOperator(ch)        == ch.operators # {}
IsHalfOperator(ch, fd) == fd \in Range(ch.halfOperators)
IsInvited(ch, fd)      == fd \in ch.invited

-----------------------------------------------------------------------------
(* Updates *)

\* Mutant of Erase: the last element takes the place of the erased one.
EraseBySwap(s, e) ==
    IF \E k \in DOMAIN s : s[k] = e
    THEN LET k == CHOOSE k \in DOMAIN s : s[k] = e
         IN  SubSeq([s EXCEPT ![k] = s[Len(s)]], 1, Len(s) - 1)
    ELSE s

\* vector::erase at the first position std::find returns; s if e is not in s.
Erase(s, e) ==
    IF \E k \in DOMAIN s : s[k] = e
    THEN RemoveAt(s, CHOOSE k \in DOMAIN s : s[k] = e /\ \A j \in 1..(k-1) : s[j] # e)
    ELSE s

\* Mutant of AddHalfOperator: the test for a second entry is missing.
AddHalfOperatorAgain(ch, fd) == [ch EXCEPT !.halfOperators = Append(@, fd)]

AddHalfOperator(ch, fd) ==
    IF IsHalfOperator(ch, fd) THEN ch ELSE [ch EXCEPT !.halfOperators = Append(@, fd)]

\* removeOperator, then removeHalfOperator: -o takes both ranks.
RemoveRanks(ch, fd) ==
    [ch EXCEPT !.operators = @ \ {fd}, !.halfOperators = Erase(@, fd)]

\* Mutant of RemoveClient: the ranks stay.
RemoveClientOnly(ch, fd) == [ch EXCEPT !.members = Erase(@, fd)]

\* Channel::removeClient: a member that goes loses its ranks with it.
RemoveClient(ch, fd) == [RemoveRanks(ch, fd) EXCEPT !.members = Erase(@, fd)]

\* Mutant of RemoveInvite: the call is forgotten.
KeepInvite(ch, fd) == ch

RemoveInvite(ch, fd) == [ch EXCEPT !.invited = @ \ {fd}]
=============================================================================
