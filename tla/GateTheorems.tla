---------------------------- MODULE GateTheorems ----------------------------
(***************************************************************************)
(* Theorems about steps of the server: who may come into a channel, what   *)
(* becomes of invitations, and when a channel loses its last operator.     *)
(*                                                                         *)
(* A step changes the members of a channel that lasts in one of three      *)
(* ways (HowChannelsChange); each theorem looks at the three, and at the   *)
(* steps that only change ranks.                                           *)
(***************************************************************************)
EXTENDS ServerTheorems

-----------------------------------------------------------------------------
(* Order *)

\* Elements of s that are still in t have kept their order.
InOrder(s, t) ==
    \A a, b \in Range(s) \cap Range(t) : Precedes(s, a, b) => Precedes(t, a, b)

\* Orders add up, when nobody comes back who was not there in between.
LEMMA InOrderTrans ==
    ASSUME NEW s, NEW t, NEW u, InOrder(s, t), InOrder(t, u), Range(u) \subseteq Range(t)
    PROVE  InOrder(s, u)
BY DEF InOrder

\* Erase keeps the order of what it leaves, and invents none.
LEMMA EraseOrder ==
    ASSUME NEW S, NEW s \in Seq(S), IsInjective(s), NEW e
    PROVE  /\ InOrder(s, Erase(s, e))
           /\ \A a, b : Precedes(Erase(s, e), a, b) => Precedes(s, a, b)
<1>1. CASE ~\E k \in DOMAIN s : s[k] = e
  BY <1>1 DEF Erase, InOrder
<1>2. CASE \E k \in DOMAIN s : s[k] = e
  <2>1. PICK k \in 1..Len(s) : s[k] = e /\ Erase(s, e) = RemoveAt(s, k)
    BY <1>2, EraseFirst
  <2> DEFINE t == RemoveAt(s, k)
  <2>2. /\ Len(s) \in Nat /\ DOMAIN s = 1..Len(s)
        /\ DOMAIN t = 1..Len(s)-1
        /\ \A i \in 1..Len(s)-1 : t[i] = IF i < k THEN s[i] ELSE s[i+1]
    BY RemoveAtProperties, LenProperties
  <2>3. Range(t) = Range(s) \ {e}
    BY <2>1, EraseElements
  <2> HIDE DEF t
  <2>4. ASSUME NEW i \in DOMAIN s, s[i] # e
        PROVE  LET to == IF i < k THEN i ELSE i - 1
               IN  to \in DOMAIN t /\ t[to] = s[i]
    <3>1. i # k /\ i \in Nat /\ k \in Nat
      BY <2>1, <2>2, <2>4
    <3>2. CASE i < k
      BY <2>2, <3>1, <3>2
    <3>3. CASE i > k
      BY <2>2, <3>1, <3>3
    <3> QED
      BY <3>1, <3>2, <3>3
  <2>5. ASSUME NEW a, NEW b, a # e, b # e, Precedes(s, a, b)
        PROVE  Precedes(t, a, b)
    <3>1. PICK i, j \in DOMAIN s : i < j /\ s[i] = a /\ s[j] = b
      BY <2>5 DEF Precedes
    <3> DEFINE to(x) == IF x < k THEN x ELSE x - 1
    <3>2. /\ to(i) \in DOMAIN t /\ t[to(i)] = a
          /\ to(j) \in DOMAIN t /\ t[to(j)] = b
      BY <2>4, <2>5, <3>1
    <3>3. i # k /\ j # k
      BY <2>1, <2>5, <3>1
    <3>4. to(i) < to(j)
      BY <2>2, <3>1, <3>3
    <3> HIDE DEF to
    <3> QED
      BY <3>2, <3>4 DEF Precedes
  <2>6. ASSUME NEW a, NEW b, Precedes(t, a, b)
        PROVE  Precedes(s, a, b)
    <3>1. PICK i, j \in DOMAIN t : i < j /\ t[i] = a /\ t[j] = b
      BY <2>6 DEF Precedes
    <3> DEFINE from(x) == IF x < k THEN x ELSE x + 1
    <3>2. /\ from(i) \in DOMAIN s /\ s[from(i)] = a
          /\ from(j) \in DOMAIN s /\ s[from(j)] = b
      BY <2>2, <3>1
    <3>3. from(i) < from(j)
      BY <2>2, <3>1
    <3> HIDE DEF from
    <3> QED
      BY <3>2, <3>3 DEF Precedes
  <2> QED
    BY <2>1, <2>3, <2>5, <2>6 DEF t, InOrder
<1> QED
  BY <1>1, <1>2

\* What is appended changes no order.
LEMMA ConcatOrder ==
    ASSUME NEW S, NEW s \in Seq(S), NEW t \in Seq(S)
    PROVE  InOrder(s, s \o t)
<1> DEFINE u == s \o t
<1>1. /\ Len(s) \in Nat /\ DOMAIN s = 1..Len(s)
      /\ Len(t) \in Nat
      /\ DOMAIN u = 1..Len(s)+Len(t)
      /\ \A i \in DOMAIN u : u[i] = IF i <= Len(s) THEN s[i] ELSE t[i - Len(s)]
  BY LenProperties, ConcatProperties
<1> HIDE DEF u
<1>2. \A i \in DOMAIN s : i \in DOMAIN u /\ u[i] = s[i]
  BY <1>1
<1>3. InOrder(s, u)
  BY <1>2 DEF InOrder, Precedes
<1> QED
  BY <1>3 DEF u

\* One that is appended changes no order.
LEMMA AppendOrder ==
    ASSUME NEW S, NEW s \in Seq(S), NEW e \in S
    PROVE  InOrder(s, Append(s, e))
<1> DEFINE u == Append(s, e)
<1>1. \A i \in DOMAIN s : i \in DOMAIN u /\ u[i] = s[i]
  BY LenProperties
<1> HIDE DEF u
<1>2. InOrder(s, u)
  BY <1>1 DEF InOrder, Precedes
<1> QED
  BY <1>2 DEF u

-----------------------------------------------------------------------------
(* What a step does to a channel *)

\* h takes over rightfully in a channel where ch becomes next: no operator is
\* left, and it is the eldest of those who may.
Succeeds(h, ch, next) ==
    /\ HasClient(ch, h)
    /\ ch.operators \cap next.operators = {}
    /\ \A f \in Range(next.halfOperators) : Precedes(ch.halfOperators, h, f)
    /\ IsHalfOperator(ch, h) \/
          /\ IsHuman(clients, h)
          /\ \A m \in Range(next.members) :
                Precedes(ch.members, m, h) /\ IsHuman(clients, m) => IsOperator(ch, m)

\* h is human and, in the list s, no human precedes it.
EldestHuman(cl, s, h) ==
    /\ IsHuman(cl, h)
    /\ \A m \in Range(s) : Precedes(s, m, h) => ~IsHuman(cl, m)

\* The lists keep their order, and new operators are successors.
Orderly(ch, next) ==
    /\ InOrder(ch.members, next.members)
    /\ InOrder(ch.halfOperators, next.halfOperators)
    /\ \A h \in next.operators \ ch.operators : Succeeds(h, ch, next)

\* The same members, operators only replaced, and +i not taken away.
SameCompany(ch, next) ==
    /\ next.members = ch.members
    /\ ch.operators \subseteq next.operators \/ HasOperator(next)
    /\ ch.inviteOnly => next.inviteOnly
    /\ Orderly(ch, next)

Stays(c) == SameCompany(channels[c], channels'[c])

\* The clients a handler sees while fd is its own: the others are as they were,
\* and who is human is settled.
Between(cl, fd) ==
    /\ \A x \in Live \ {fd} : x \in DOMAIN cl /\ cl[x] = clients[x]
    /\ \A x : IsHuman(cl, x) <=> IsHuman(clients', x)

\* fd comes in by a JOIN with this key, its own or the server's.
Comes(c, fd, key) ==
    /\ fd \notin Range(channels[c].members)
    /\ MayEnter(channels[c], fd, key)
    /\ \E cl : Between(cl, fd) /\ channels'[c] = Admit(cl, channels[c], <<fd>>)

\* fd goes out, or is gone.
Goes(c, fd) ==
    /\ channels'[c] = Departed(channels[c], fd)
    /\ Survives(c, fd)
    /\ \A x \in Live \ {fd} : x \in Live' /\ clients'[x] = clients[x]

\* A JOIN command with a key, or a JOIN the server makes.
Asked(fd, key) ==
    \/ key = NoKey
    \/ \E names \in SUBSET ChannelName : HandleJoin(fd, names, key)

Changes(c) ==
    \/ Stays(c)
    \/ \E fd \in Live, key \in Key \cup {NoKey} : Comes(c, fd, key) /\ Asked(fd, key)
    \/ \E fd \in Fd : ClearInviteOnly(fd, c)
    \/ \E fd \in Live : Goes(c, fd)

\* Members and ranks are as they were.
LEMMA SameRanks ==
    ASSUME NEW ch, NEW next, next.members = ch.members, next.operators = ch.operators,
           next.halfOperators = ch.halfOperators, ch.inviteOnly => next.inviteOnly
    PROVE  SameCompany(ch, next)
<1>1. InOrder(ch.members, next.members) /\ InOrder(ch.halfOperators, next.halfOperators)
  BY DEF InOrder
<1>2. next.operators \ ch.operators = {} /\ ch.operators \subseteq next.operators
  OBVIOUS
<1>3. Orderly(ch, next)
  BY <1>1, <1>2 DEF Orderly
<1> QED
  BY <1>2, <1>3 DEF SameCompany

\* A channel no step touches.
LEMMA Untouched ==
    ASSUME NEW c, channels'[c] = channels[c]
    PROVE  Stays(c)
BY SameRanks DEF Stays

\* Who leaves channels changes each of them by going, or not at all
\* (handlePart, handleQuit, disconnectClient).
LEMMA LeaveChanges ==
    ASSUME NEW fd \in Live, NEW C, Leave(fd, C),
           \A x \in Live \ {fd} : x \in Live' /\ clients'[x] = clients[x],
           NEW c \in DOMAIN channels \cap DOMAIN channels'
    PROVE  Stays(c) \/ Goes(c, fd)
<1>1. CASE c \in C
  BY <1>1 DEF Leave, Goes
<1>2. CASE c \notin C
  BY <1>2, Untouched DEF Leave
<1> QED
  BY <1>1, <1>2

\* Who joins channels changes each of them by coming in, or not at all
\* (handleJoin).
LEMMA JoinChanges ==
    ASSUME NEW cl, NEW fd, NEW names, NEW key, Join(cl, fd, names, key),
           Between(cl, fd), NEW c \in DOMAIN channels \cap DOMAIN channels'
    PROVE  Stays(c) \/ Comes(c, fd, key)
<1> DEFINE entered == {d \in names : /\ ~HasClient(ChannelNamed(d), fd)
                                     /\ MayEnter(ChannelNamed(d), fd, key)}
<1>1. channels'[c] = IF c \in entered THEN Admit(cl, ChannelNamed(c), <<fd>>) ELSE channels[c]
  BY DEF Join
<1>2. ChannelNamed(c) = channels[c]
  BY DEF ChannelNamed, Exists
<1>3. CASE c \in entered
  BY <1>1, <1>2, <1>3 DEF Comes, HasClient
<1>4. CASE c \notin entered
  BY <1>1, <1>4, Untouched
<1> QED
  BY <1>3, <1>4

\* A command that replaces one channel by one with the same company moves
\* nobody.
LEMMA UpdateStays ==
    ASSUME NEW d \in DOMAIN channels, NEW ch, channels' = [channels EXCEPT ![d] = ch],
           SameCompany(channels[d], ch),
           NEW c \in DOMAIN channels
    PROVE  Stays(c)
<1>1. CASE c = d
  BY <1>1 DEF Stays
<1>2. CASE c # d
  BY <1>2, Untouched
<1> QED
  BY <1>1, <1>2

(* promoteSuccessor, once x has lost its ranks or has gone: less is what is  *)
(* left of ch.  Its choice is the rightful successor.                       *)
LEMMA PromoteOrderly ==
    ASSUME DOMAIN clients \subseteq Fd,
           NEW ch, Ranked(clients, ch), NEW less, Ranked(clients, less), NEW x,
           less.members = ch.members \/ less.members = Erase(ch.members, x),
           less.halfOperators = Erase(ch.halfOperators, x),
           less.operators = ch.operators \ {x},
           NEW excluded, \/ excluded \notin Fd
                         \/ /\ excluded = x /\ x \in Range(less.members)
                            /\ HasOperator(ch)
    PROVE  Orderly(ch, PromoteSuccessor(clients, less, excluded))
<1> DEFINE heir     == Heir(clients, less, excluded)
           next     == PromoteSuccessor(clients, less, excluded)
           eligible == {i \in DOMAIN less.members :
                          less.members[i] # excluded /\ IsHuman(clients, less.members[i])}
<1>1. /\ ch.members \in Seq(Fd) /\ IsInjective(ch.members)
      /\ ch.halfOperators \in Seq(Fd) /\ IsInjective(ch.halfOperators)
      /\ less.members \in Seq(Fd) /\ IsInjective(less.members)
      /\ less.halfOperators \in Seq(Fd) /\ IsInjective(less.halfOperators)
      /\ less \in ChannelRecord
  BY DEF Ranked, ChannelRecord
<1>2. /\ InOrder(ch.members, less.members)
      /\ \A a, b : Precedes(less.members, a, b) => Precedes(ch.members, a, b)
      /\ Range(less.members) \subseteq Range(ch.members)
  <2>1. CASE less.members = ch.members
    BY <2>1 DEF InOrder
  <2>2. CASE less.members = Erase(ch.members, x)
    BY <1>1, <2>2, EraseOrder, EraseElements
  <2> QED
    BY <2>1, <2>2
<1>3. /\ InOrder(ch.halfOperators, less.halfOperators)
      /\ \A a, b : Precedes(less.halfOperators, a, b) => Precedes(ch.halfOperators, a, b)
      /\ Range(less.halfOperators) \subseteq Range(ch.halfOperators)
  BY <1>1, EraseOrder, EraseElements
<1>4. CASE HasOperator(less) \/ less.members = << >> \/ heir \notin DOMAIN clients
  <2>1. next = less
    BY <1>4 DEF PromoteSuccessor
  <2>2. next.operators \ ch.operators = {}
    BY <2>1
  <2> QED
    BY <1>2, <1>3, <2>1, <2>2 DEF Orderly
<1>5. CASE ~HasOperator(less) /\ less.members # << >> /\ heir \in DOMAIN clients
  <2>1. next = [less EXCEPT !.halfOperators = Erase(@, heir), !.operators = @ \cup {heir}]
    BY <1>5 DEF PromoteSuccessor
  <2> HIDE DEF next
  <2>2. /\ next.members = less.members
        /\ next.halfOperators = Erase(less.halfOperators, heir)
        /\ next.operators = {heir}
    BY <1>1, <1>5, <2>1 DEF ChannelRecord, HasOperator
  <2>3. Range(next.halfOperators) = Range(less.halfOperators) \ {heir}
    BY <1>1, <2>2, EraseElements
  <2>4. InOrder(ch.halfOperators, next.halfOperators)
    <3>1. InOrder(less.halfOperators, next.halfOperators)
      BY <1>1, <2>2, EraseOrder
    <3> QED
      BY <1>3, <2>3, <3>1, InOrderTrans
  <2>5. ASSUME heir \notin ch.operators
        PROVE  Succeeds(heir, ch, next)
    <3>1. ch.operators \cap next.operators = {}
      BY <2>2, <2>5
    <3>2. excluded \in DOMAIN clients => excluded = x /\ x \in Range(less.members) /\ x \in ch.operators
      <4>1. excluded \in DOMAIN clients => excluded = x /\ x \in Range(less.members) /\ HasOperator(ch)
        OBVIOUS
      <4>2. HasOperator(ch) => x \in ch.operators
        BY <1>5 DEF HasOperator
      <4> QED
        BY <4>1, <4>2
    <3>3. HasClient(ch, heir)
      <4>1. heir \in Range(less.members)
        BY <1>5, <3>2, HeirIsMember
      <4> QED
        BY <1>2, <4>1 DEF HasClient
    <3>4. CASE less.halfOperators # << >>
      <4>1. heir = less.halfOperators[1]
        BY <3>4 DEF Heir
      <4> HIDE DEF heir
      <4>2. heir \in Range(ch.halfOperators)
        BY <1>1, <1>3, <3>4, <4>1, RangeFacts
      <4>3. ASSUME NEW f \in Range(next.halfOperators)
            PROVE  Precedes(ch.halfOperators, heir, f)
        <5>1. PICK i \in DOMAIN less.halfOperators : less.halfOperators[i] = f
          BY <2>3 DEF Range
        <5>2. /\ 1 \in DOMAIN less.halfOperators /\ i # 1
              /\ DOMAIN less.halfOperators = 1..Len(less.halfOperators)
              /\ Len(less.halfOperators) \in Nat
          BY <1>1, <2>3, <3>4, <4>1, <5>1, LenProperties, EmptySeq
        <5>3. 1 < i
          BY <5>2
        <5>4. Precedes(less.halfOperators, heir, f)
          BY <4>1, <5>1, <5>2, <5>3 DEF Precedes
        <5> QED
          BY <1>3, <5>4
      <4> QED
        BY <3>1, <3>3, <4>2, <4>3 DEF Succeeds, IsHalfOperator
    <3>5. CASE less.halfOperators = << >>
      <4>1. Range(next.halfOperators) = {}
        BY <1>1, <2>3, <3>5, RangeFacts
      <4>2. CASE eligible = {}
        <5>1. heir = excluded
          BY <3>5, <4>2 DEF Heir
        <5> QED
          BY <1>5, <2>5, <3>2, <5>1
      <4>3. CASE eligible # {}
        <5> DEFINE first == Min(eligible)
        <5>1. eligible \in SUBSET Nat
          BY <1>1, LenProperties
        <5>2. first \in eligible /\ \A i \in eligible : first <= i
          BY <4>3, <5>1, MinIsLeast
        <5>3. heir = less.members[first]
          BY <3>5, <4>3 DEF Heir
        <5> HIDE DEF first, heir
        <5>4. ASSUME NEW m \in Range(next.members), Precedes(ch.members, m, heir),
                     IsHuman(clients, m)
              PROVE  IsOperator(ch, m)
          <6>1. heir \in Range(less.members) /\ m \in Range(less.members)
            BY <2>2, <5>2, <5>3 DEF Range
          <6>2. Precedes(less.members, m, heir)
            BY <1>2, <5>4, <6>1 DEF InOrder
          <6>3. PICK i, j \in DOMAIN less.members :
                   i < j /\ less.members[i] = m /\ less.members[j] = heir
            BY <6>2 DEF Precedes
          <6>4. j = first
            BY <1>1, <5>2, <5>3, <6>3 DEF IsInjective
          <6>5. i \notin eligible
            <7>1. i \in Nat /\ first \in Nat
              BY <1>1, <5>1, <5>2, <6>3, LenProperties
            <7> QED
              BY <5>2, <6>3, <6>4, <7>1
          <6>6. m = excluded
            BY <5>4, <6>3, <6>5
          <6> QED
            BY <3>2, <5>4, <6>6 DEF IsHuman, IsOperator
        <5>5. IsHuman(clients, heir)
          BY <5>2, <5>3
        <5> QED
          BY <3>1, <3>3, <4>1, <5>4, <5>5 DEF Succeeds
      <4> QED
        BY <4>2, <4>3
    <3> QED
      BY <3>4, <3>5
  <2> HIDE DEF heir
  <2>6. \A h \in next.operators \ ch.operators : Succeeds(h, ch, next)
    BY <2>2, <2>5
  <2>7. Orderly(ch, next)
    BY <1>2, <2>2, <2>4, <2>6 DEF Orderly
  <2> QED
    BY <2>7 DEF next
<1> QED
  BY <1>4, <1>5

(* -o leaves an operator: the target itself if there is nobody else.        *)
LEMMA DeoppedReplaced ==
    ASSUME DOMAIN clients \subseteq Fd, NEW ch, Sound(clients, ch), HasOperator(ch),
           NEW target \in Range(ch.members)
    PROVE  LET next == PromoteSuccessor(clients, RemoveRanks(ch, target), target)
           IN  SameCompany(ch, next)
<1> DEFINE deopped == RemoveRanks(ch, target)
           heir    == Heir(clients, deopped, target)
           next    == PromoteSuccessor(clients, deopped, target)
<1>1. /\ Ranked(clients, deopped) /\ deopped \in ChannelRecord
      /\ deopped.members = ch.members
  <2>1. Ranked(clients, deopped) /\ deopped.members = ch.members
    BY DeoppedRanked DEF Sound
  <2> QED
    BY <2>1 DEF Ranked
<1>2. /\ deopped.inviteOnly = ch.inviteOnly
      /\ deopped.halfOperators = Erase(ch.halfOperators, target)
      /\ deopped.operators = ch.operators \ {target}
  BY DEF Sound, Ranked, ChannelRecord, RemoveRanks
<1>3. ch.members # << >> /\ Ranked(clients, ch) /\ target \in DOMAIN clients
  BY DEF Sound, Ranked
<1> HIDE DEF deopped
<1>4. Orderly(ch, next)
  <2>1. deopped.members = ch.members \/ deopped.members = Erase(ch.members, target)
    BY <1>1
  <2>2. \/ target \notin Fd
        \/ target = target /\ target \in Range(deopped.members) /\ HasOperator(ch)
    BY <1>1
  <2>3. Ranked(clients, ch) /\ Ranked(clients, deopped)
    BY <1>1, <1>3
  <2>4. /\ deopped.halfOperators = Erase(ch.halfOperators, target)
        /\ deopped.operators = ch.operators \ {target}
    BY <1>2
  <2> HIDE DEF next
  <2>5. Orderly(ch, PromoteSuccessor(clients, deopped, target))
    BY <2>1, <2>2, <2>3, <2>4, PromoteOrderly, Zenon
  <2> QED
    BY <2>5 DEF next
<1>5. heir \in DOMAIN clients
  <2> DEFINE eligible == {i \in DOMAIN deopped.members :
                            deopped.members[i] # target /\ IsHuman(clients, deopped.members[i])}
  <2>1. CASE deopped.halfOperators # << >>
    BY <1>1, <1>3, <2>1, HeirIsMember
  <2>2. CASE deopped.halfOperators = << >> /\ eligible # {}
    <3>1. eligible \in SUBSET Nat
      BY <1>1, LenProperties DEF ChannelRecord
    <3>2. Min(eligible) \in eligible
      BY <2>2, <3>1, MinIsLeast
    <3> QED
      BY <2>2, <3>2 DEF Heir, IsHuman
  <2>3. CASE deopped.halfOperators = << >> /\ eligible = {}
    BY <1>3, <2>3 DEF Heir
  <2> QED
    BY <2>1, <2>2, <2>3
<1>6. CASE HasOperator(deopped)
  <2>1. next = deopped
    BY <1>6 DEF PromoteSuccessor
  <2> HIDE DEF next
  <2>2. SameCompany(ch, next)
    BY <1>1, <1>2, <1>4, <1>6, <2>1 DEF SameCompany
  <2> QED
    BY <2>2 DEF next, deopped
<1>7. CASE ~HasOperator(deopped)
  <2>1. next = [deopped EXCEPT !.halfOperators = Erase(@, heir), !.operators = @ \cup {heir}]
    BY <1>1, <1>3, <1>5, <1>7 DEF PromoteSuccessor
  <2> HIDE DEF heir, next
  <2>2. /\ next.members = deopped.members /\ heir \in next.operators
        /\ next.inviteOnly = deopped.inviteOnly
    BY <1>1, <2>1 DEF ChannelRecord
  <2>3. SameCompany(ch, next)
    BY <1>1, <1>2, <1>4, <2>2 DEF HasOperator, SameCompany
  <2> QED
    BY <2>3 DEF next, deopped
<1> QED
  BY <1>6, <1>7 DEF deopped

\* Connecting, losing the connection and QUIT.
LEMMA ConnectionChanges ==
    ASSUME IInv, NEW fd \in Fd, Connection(fd), NEW c \in DOMAIN channels \cap DOMAIN channels'
    PROVE  Changes(c)
<1>1. CASE AcceptNewClient(fd)
  BY <1>1, Untouched DEF AcceptNewClient, Changes
<1>2. CASE DisconnectClient(fd)
  <2>1. /\ fd \in Live /\ Leave(fd, DOMAIN channels)
        /\ \A x \in Live \ {fd} : x \in Live' /\ clients'[x] = clients[x]
    BY <1>2 DEF DisconnectClient, Live
  <2> QED
    BY <2>1, LeaveChanges DEF Changes
<1> QED
  BY <1>1, <1>2 DEF Connection, HandleQuit

\* PASS, NICK and USER: if they touch a channel, they join #general.
LEMMA RegisteringJoins ==
    ASSUME IInv, NEW fd \in Fd, Registering(fd)
    PROVE  \/ channels' = channels
           \/ \E cl : fd \in Live /\ Between(cl, fd) /\ Join(cl, fd, {General}, NoKey)
<1> DEFINE Done == \/ channels' = channels
                   \/ \E cl : fd \in Live /\ Between(cl, fd) /\ Join(cl, fd, {General}, NoKey)
<1>1. Live \subseteq Fd /\ clients \in [Live -> ClientRecord]
  BY DEF IInv, TypeOK
<1>2. ASSUME NEW cl \in [Live -> ClientRecord], fd \in Live, CompleteRegistration(cl, fd),
             \A x \in Live \ {fd} : cl[x] = clients[x]
      PROVE  Done
  <2>1. CASE ~CanRegister(cl[fd])
    BY <1>2, <2>1 DEF CompleteRegistration
  <2>2. CASE CanRegister(cl[fd])
    <3>1. clients' = [cl EXCEPT ![fd].registered = TRUE]
      BY <1>2, <2>2 DEF CompleteRegistration
    <3>2. DOMAIN clients' = DOMAIN cl
      BY <3>1
    <3>3. ASSUME NEW x \in DOMAIN cl
          PROVE  clients'[x].nick = cl[x].nick
      BY <3>1 DEF ClientRecord
    <3>4. \A x : IsHuman(cl, x) <=> IsHuman(clients', x)
      BY <3>2, <3>3 DEF IsHuman
    <3>5. Between(cl, fd)
      BY <1>2, <3>4 DEF Between
    <3> QED
      BY <1>2, <2>2, <3>5 DEF CompleteRegistration
  <2> QED
    BY <2>1, <2>2
<1>3. CASE HandlePass(fd)
  BY <1>3 DEF HandlePass
<1>4. CASE HandleUser(fd)
  <2>1. fd \in Live /\ CompleteRegistration([clients EXCEPT ![fd].user = TRUE], fd)
    BY <1>4 DEF HandleUser
  <2>2. [clients EXCEPT ![fd].user = TRUE] \in [Live -> ClientRecord]
    BY <1>1 DEF ClientRecord
  <2>3. \A x \in Live \ {fd} : [clients EXCEPT ![fd].user = TRUE][x] = clients[x]
    BY DEF Live
  <2> QED
    BY <1>2, <2>1, <2>2, <2>3
<1>5. ASSUME NEW nick \in Nick, NickInUse(fd, nick)
      PROVE  Done
  BY <1>5 DEF NickInUse
<1>6. ASSUME NEW nick \in Nick, HandleNick(fd, nick)
      PROVE  Done
  <2>1. fd \in Live /\ CompleteRegistration([clients EXCEPT ![fd].nick = nick], fd)
    BY <1>6 DEF HandleNick
  <2>2. [clients EXCEPT ![fd].nick = nick] \in [Live -> ClientRecord]
    BY <1>1 DEF ClientRecord
  <2>3. \A x \in Live \ {fd} : [clients EXCEPT ![fd].nick = nick][x] = clients[x]
    BY DEF Live
  <2> QED
    BY <1>2, <2>1, <2>2, <2>3
<1> QED
  BY <1>3, <1>4, <1>5, <1>6 DEF Registering

\* PASS, NICK and USER; the end of registration joins #general.
LEMMA RegisteringChanges ==
    ASSUME IInv, NEW fd \in Fd, Registering(fd), NEW c \in DOMAIN channels \cap DOMAIN channels'
    PROVE  Changes(c)
<1>1. CASE channels' = channels
  BY <1>1, Untouched DEF Changes
<1>2. ASSUME NEW cl, fd \in Live, Between(cl, fd), Join(cl, fd, {General}, NoKey)
      PROVE  Changes(c)
  <2>1. Stays(c) \/ Comes(c, fd, NoKey)
    BY <1>2, JoinChanges
  <2>2. Asked(fd, NoKey)
    BY DEF Asked
  <2> QED
    BY <1>2, <2>1, <2>2 DEF Changes
<1> QED
  BY <1>1, <1>2, RegisteringJoins

\* JOIN and PART.
LEMMA JoiningChanges ==
    ASSUME IInv, NEW fd \in Fd, Joining(fd), NEW c \in DOMAIN channels \cap DOMAIN channels'
    PROVE  Changes(c)
<1>1. ASSUME NEW names \in SUBSET ChannelName, NEW key \in Key \cup {NoKey},
             HandleJoin(fd, names, key)
      PROVE  Changes(c)
  <2>1. fd \in Live /\ Join(clients, fd, names, key)
    BY <1>1 DEF HandleJoin, Registered
  <2>2. Between(clients, fd)
    BY <1>1 DEF HandleJoin, Between, Live
  <2>3. Stays(c) \/ Comes(c, fd, key)
    BY <2>1, <2>2, JoinChanges
  <2>4. Asked(fd, key)
    BY <1>1 DEF Asked
  <2> QED
    BY <2>1, <2>3, <2>4 DEF Changes
<1>2. ASSUME NEW names \in SUBSET ChannelName, HandlePart(fd, names)
      PROVE  Changes(c)
  <2>1. /\ fd \in Live /\ Leave(fd, {d \in names : OnChannel(fd, d)})
        /\ clients' = clients
    BY <1>2 DEF HandlePart, Registered
  <2>2. \A x \in Live \ {fd} : x \in Live' /\ clients'[x] = clients[x]
    BY <2>1 DEF Live
  <2> QED
    BY <2>1, <2>2, LeaveChanges DEF Changes
<1> QED
  BY <1>1, <1>2 DEF Joining

\* TOPIC, KICK, INVITE and MODE +o, -o.
LEMMA RulingChanges ==
    ASSUME IInv, NEW fd \in Fd, NEW d \in ChannelName, Ruling(fd, d),
           NEW c \in DOMAIN channels \cap DOMAIN channels'
    PROVE  Changes(c)
<1>1. \A e \in DOMAIN channels : channels[e] \in ChannelRecord /\ Sound(clients, channels[e])
  BY DEF IInv, TypeOK, AllSound
<1>2. ASSUME NEW topic, HandleTopic(fd, d, topic)
      PROVE  Changes(c)
  <2>1. d \in DOMAIN channels /\ channels' = [channels EXCEPT ![d].topic = topic]
    BY <1>2 DEF HandleTopic, OnChannel, Exists
  <2> DEFINE ch == [channels[d] EXCEPT !.topic = topic]
  <2>2. /\ ch.members = channels[d].members /\ ch.operators = channels[d].operators
        /\ ch.halfOperators = channels[d].halfOperators /\ ch.inviteOnly = channels[d].inviteOnly
    BY <1>1, <2>1 DEF ChannelRecord
  <2> HIDE DEF ch
  <2>3. SameCompany(channels[d], ch)
    BY <2>2, SameRanks
  <2> QED
    BY <2>1, <2>3, UpdateStays DEF Changes, ch
<1>3. ASSUME NEW target \in Fd, HandleKick(fd, d, target)
      PROVE  Changes(c)
  <2>1. target \in Live /\ Leave(target, {d}) /\ clients' = clients
    BY <1>3 DEF HandleKick, Designated
  <2>2. \A x \in Live \ {target} : x \in Live' /\ clients'[x] = clients[x]
    BY <2>1 DEF Live
  <2> QED
    BY <2>1, <2>2, LeaveChanges DEF Changes
<1>4. ASSUME NEW target \in Fd, HandleInvite(fd, d, target)
      PROVE  Changes(c)
  <2> DEFINE ch == [channels[d] EXCEPT !.invited = channels[d].invited \cup {target}]
  <2>1. d \in DOMAIN channels /\ channels' = [channels EXCEPT ![d] = ch]
    BY <1>4 DEF HandleInvite, OnChannel, Exists
  <2>2. /\ ch.members = channels[d].members /\ ch.operators = channels[d].operators
        /\ ch.halfOperators = channels[d].halfOperators /\ ch.inviteOnly = channels[d].inviteOnly
    BY <1>1, <2>1 DEF ChannelRecord
  <2> HIDE DEF ch
  <2>3. SameCompany(channels[d], ch)
    BY <2>2, SameRanks
  <2> QED
    BY <2>1, <2>3, UpdateStays DEF Changes
<1>5. ASSUME NEW target \in Fd, GiveOperator(fd, d, target)
      PROVE  Changes(c)
  <2> DEFINE ch == Granted(channels[d], target)
  <2>1. d \in DOMAIN channels /\ channels' = [channels EXCEPT ![d] = ch]
    BY <1>5 DEF GiveOperator, MayChangeOperator, MayChangeMode, OnChannel, Exists
  <2>2. SameCompany(channels[d], ch)
    <3>1. HasOperator(channels[d]) /\ channels[d] \in ChannelRecord
      BY <1>1, <1>5, <2>1 DEF GiveOperator, MayChangeOperator, IsOperator, HasOperator
    <3>2. ch.members = channels[d].members /\ ch.operators = channels[d].operators
          /\ ch.inviteOnly = channels[d].inviteOnly
      BY <3>1 DEF ChannelRecord, Granted, AddHalfOperator
    <3>3. ch.halfOperators \in {channels[d].halfOperators, Append(channels[d].halfOperators, target)}
      BY <3>1 DEF ChannelRecord, Granted, AddHalfOperator
    <3> HIDE DEF ch
    <3>4. InOrder(channels[d].halfOperators, ch.halfOperators)
      <4>1. channels[d].halfOperators \in Seq(Fd)
        BY <3>1 DEF ChannelRecord
      <4>2. InOrder(channels[d].halfOperators, Append(channels[d].halfOperators, target))
        BY <4>1, AppendOrder
      <4> QED
        BY <3>3, <4>2 DEF InOrder
    <3>5. InOrder(channels[d].members, ch.members) /\ ch.operators \ channels[d].operators = {}
      BY <3>2 DEF InOrder
    <3>6. Orderly(channels[d], ch)
      BY <3>4, <3>5 DEF Orderly
    <3> QED
      BY <3>2, <3>6 DEF SameCompany
  <2> HIDE DEF ch
  <2> QED
    BY <2>1, <2>2, UpdateStays DEF Changes
<1>6. ASSUME NEW target \in Fd, TakeOperator(fd, d, target)
      PROVE  Changes(c)
  <2> DEFINE ch == PromoteSuccessor(clients, RemoveRanks(channels[d], target), target)
  <2>1. d \in DOMAIN channels /\ channels' = [channels EXCEPT ![d] = ch]
        /\ target \in Range(channels[d].members)
    BY <1>6
    DEF TakeOperator, MayChangeOperator, MayChangeMode, OnChannel, Exists, HasClient
  <2>2. SameCompany(channels[d], ch)
    <3>1. HasOperator(channels[d])
      BY <1>6 DEF TakeOperator, MayChangeOperator, IsOperator, HasOperator
    <3>2. DOMAIN clients \subseteq Fd
      BY DEF IInv, TypeOK, Live
    <3> QED
      BY <1>1, <2>1, <3>1, <3>2, DeoppedReplaced
  <2> HIDE DEF ch
  <2> QED
    BY <2>1, <2>2, UpdateStays DEF Changes
<1> QED
  BY <1>2, <1>3, <1>4, <1>5, <1>6 DEF Ruling

\* The other modes, -i with its retries included.
LEMMA ModeChanges ==
    ASSUME IInv, NEW fd \in Fd, NEW d \in ChannelName, ChangingMode(fd, d),
           NEW c \in DOMAIN channels \cap DOMAIN channels'
    PROVE  Changes(c)
<1>1. \A e \in DOMAIN channels : channels[e] \in ChannelRecord
  BY DEF IInv, TypeOK
<1>2. d \in DOMAIN channels
  BY DEF ChangingMode, SetTopicRestricted, SetInviteOnly, ClearInviteOnly, SetKey, RemoveKey,
         SetLimit, RemoveLimit, MayChangeMode, OnChannel, Exists
<1>3. ASSUME NEW ch, channels' = [channels EXCEPT ![d] = ch],
             ch.members = channels[d].members, ch.operators = channels[d].operators,
             ch.halfOperators = channels[d].halfOperators,
             channels[d].inviteOnly => ch.inviteOnly
      PROVE  Changes(c)
  <2>1. SameCompany(channels[d], ch)
    BY <1>3, SameRanks
  <2> QED
    BY <1>2, <1>3, <2>1, UpdateStays DEF Changes
<1>4. ASSUME NEW value, SetTopicRestricted(fd, d, value)
      PROVE  Changes(c)
  BY <1>1, <1>2, <1>3, <1>4 DEF SetTopicRestricted, ChannelRecord
<1>5. CASE SetInviteOnly(fd, d)
  BY <1>1, <1>2, <1>3, <1>5 DEF SetInviteOnly, ChannelRecord
<1>6. CASE ClearInviteOnly(fd, d)
  <2>1. CASE c = d
    BY <1>6, <2>1 DEF Changes
  <2>2. CASE c # d
    BY <1>6, <2>2, Untouched DEF ClearInviteOnly, Changes
  <2> QED
    BY <2>1, <2>2
<1>7. ASSUME NEW key, SetKey(fd, d, key)
      PROVE  Changes(c)
  BY <1>1, <1>2, <1>3, <1>7 DEF SetKey, ChannelRecord
<1>8. ASSUME NEW limit, SetLimit(fd, d, limit)
      PROVE  Changes(c)
  BY <1>1, <1>2, <1>3, <1>8 DEF SetLimit, ChannelRecord
<1>9. CASE RemoveKey(fd, d)
  BY <1>1, <1>2, <1>3, <1>9 DEF RemoveKey, ChannelRecord
<1>10. CASE RemoveLimit(fd, d)
  BY <1>1, <1>2, <1>3, <1>10 DEF RemoveLimit, ChannelRecord
<1> QED
  BY <1>4, <1>5, <1>6, <1>7, <1>8, <1>9, <1>10 DEF ChangingMode

\* A step of the server changes the company of a channel in one of few ways:
\* one comes in, one goes, -i lets in those that were refused, or nobody moves.
LEMMA HowChannelsChange ==
    ASSUME IInv, Next, NEW c \in DOMAIN channels \cap DOMAIN channels'
    PROVE  Changes(c)
BY ConnectionChanges, RegisteringChanges, JoiningChanges, RulingChanges, ModeChanges DEF Next

-----------------------------------------------------------------------------
(* What the changes leave *)

\* What a channel is after a sequence of arrivals (addClient).
LEMMA AdmittedIs ==
    ASSUME NEW ch \in ChannelRecord, NEW cl, NEW arrivals \in Seq(Fd)
    PROVE  LET next == Admit(cl, ch, arrivals)
           IN  /\ Range(next.members) = Range(ch.members) \cup Range(arrivals)
               /\ Len(next.members) = Len(ch.members) + Len(arrivals)
               /\ next.invited = ch.invited \ Range(arrivals)
               /\ ch.operators \subseteq next.operators
               /\ next.inviteOnly = ch.inviteOnly
<1> DEFINE next == Admit(cl, ch, arrivals)
<1>1. ch.members \in Seq(Fd)
  BY DEF ChannelRecord
<1>2. /\ next.members = ch.members \o arrivals
      /\ next.invited = ch.invited \ Range(arrivals)
      /\ ch.operators \subseteq next.operators
      /\ next.inviteOnly = ch.inviteOnly
  BY DEF Admit, ChannelRecord
<1> HIDE DEF next
<1>3. Range(next.members) = Range(ch.members) \cup Range(arrivals)
      /\ Len(next.members) = Len(ch.members) + Len(arrivals)
  BY <1>1, <1>2, ConcatElements, ConcatProperties
<1> QED
  BY <1>2, <1>3 DEF next

\* What a channel is after one has come in (handleJoin).
LEMMA ComesIs ==
    ASSUME IInv, NEW c \in DOMAIN channels, NEW fd \in Live, NEW key, Comes(c, fd, key)
    PROVE  /\ Range(channels'[c].members) = Range(channels[c].members) \cup {fd}
           /\ Len(channels'[c].members) = Len(channels[c].members) + 1
           /\ fd \notin channels'[c].invited
           /\ channels[c].operators \subseteq channels'[c].operators
           /\ channels'[c].inviteOnly = channels[c].inviteOnly
<1> DEFINE arrivals == <<fd>>
<1>1. channels[c] \in ChannelRecord /\ fd \in Fd
  BY DEF IInv, TypeOK, Live
<1>2. arrivals \in Seq(Fd) /\ Range(arrivals) = {fd} /\ Len(arrivals) = 1
  BY <1>1 DEF Range
<1>3. PICK cl : channels'[c] = Admit(cl, channels[c], arrivals)
  BY DEF Comes
<1> HIDE DEF arrivals
<1> DEFINE ch   == channels[c]
           next == channels'[c]
<1>4. ch \in ChannelRecord /\ next = Admit(cl, ch, arrivals)
  BY <1>1, <1>3
<1> HIDE DEF ch, next
<1>5. /\ Range(next.members) = Range(ch.members) \cup Range(arrivals)
      /\ Len(next.members) = Len(ch.members) + Len(arrivals)
      /\ next.invited = ch.invited \ Range(arrivals)
      /\ ch.operators \subseteq next.operators
      /\ next.inviteOnly = ch.inviteOnly
  <2>1. arrivals \in Seq(Fd)
    BY <1>2
  <2> QED
    BY <2>1, <1>4, AdmittedIs
<1> QED
  BY <1>2, <1>5 DEF ch, next

\* Arrivals at -i are all that are admitted, each once.
LEMMA ArrivalsAreAdmissible ==
    ASSUME TypeOK, NEW c \in ChannelName, NEW arrivals \in Ascending(Admissible(c))
    PROVE  /\ Range(arrivals) = Admissible(c) /\ IsInjective(arrivals)
           /\ Len(arrivals) = Cardinality(Admissible(c))
           /\ IsFiniteSet(Admissible(c)) /\ Admissible(c) \subseteq Fd
           /\ Cardinality(Admissible(c)) \in Nat
           /\ Admissible(c) # {} => \E w \in Admissible(c) : \A v \in Admissible(c) : v <= w
<1> DEFINE A == Admissible(c)
           n == Cardinality(A)
<1>1. A \in SUBSET Fd /\ IsFiniteSet(A)
  BY FS_Subset, FdAssumption DEF Admissible, Waiting, TypeOK
<1>2. n \in Nat
  BY <1>1, FS_CardinalityType
<1>3. arrivals \in [1..n -> A] /\ \A i, j \in 1..n : i < j => arrivals[i] < arrivals[j]
  BY DEF Ascending
<1> HIDE DEF A
<1>4. \A x \in A : x \in Nat
  BY <1>1, FdAssumption
<1> HIDE DEF n
<1>5. arrivals \in Injection(1..n, A)
  <2>1. ASSUME NEW i \in 1..n, NEW j \in 1..n, arrivals[i] = arrivals[j]
        PROVE  i = j
    <3>1. arrivals[i] \in Nat /\ arrivals[j] \in Nat
      BY <1>3, <1>4
    <3>2. ~(i < j) /\ ~(j < i)
      BY <1>3, <2>1, <3>1
    <3> QED
      BY <1>2, <3>2
  <2> QED
    BY <1>3, <2>1 DEF Injection, IsInjective
<1>6. Cardinality(1..n) = Cardinality(A)
  BY <1>2, FS_Interval DEF n
<1>7. arrivals \in Surjection(1..n, A)
  BY <1>1, <1>5, <1>6, FS_Injection
<1>8. \A a \in A : \E i \in 1..n : arrivals[i] = a
  BY <1>7 DEF Surjection
<1>9. Range(arrivals) = A
  BY <1>3, <1>8 DEF Range
<1>10. Len(arrivals) = n
  <2>1. arrivals \in Seq(Fd)
    BY AscendingType
  <2>2. Len(arrivals) \in Nat /\ DOMAIN arrivals = 1..Len(arrivals)
    BY <2>1, LenProperties
  <2> QED
    BY <1>2, <1>3, <2>2
<1>11. ASSUME A # {}
       PROVE  \E w \in A : \A v \in A : v <= w
  <2>1. n \in 1..n
    BY <1>2, <1>8, <1>11
  <2>2. ASSUME NEW v \in A
        PROVE  v <= arrivals[n]
    <3>1. PICK i \in 1..n : arrivals[i] = v
      BY <1>8
    <3>2. arrivals[n] \in Nat /\ v \in Nat
      BY <1>3, <1>4, <2>1
    <3> QED
      BY <1>3, <2>1, <3>1, <3>2
  <2> QED
    BY <1>3, <2>1, <2>2
<1>12. IsInjective(arrivals)
  BY <1>5 DEF Injection
<1> QED
  BY <1>1, <1>2, <1>9, <1>10, <1>11, <1>12 DEF A, n

\* What a channel is after -i: everyone admissible is in
\* (joinPendingClients).
LEMMA OpenedIs ==
    ASSUME IInv, NEW c \in ChannelName, NEW fd \in Fd, ClearInviteOnly(fd, c)
    PROVE  /\ Range(channels'[c].members) = Range(channels[c].members) \cup Admissible(c)
           /\ Len(channels'[c].members) = Len(channels[c].members) + Cardinality(Admissible(c))
           /\ channels'[c].invited = channels[c].invited \ Admissible(c)
           /\ channels[c].operators \subseteq channels'[c].operators
           /\ channels'[c].inviteOnly = FALSE
           /\ IsFiniteSet(Admissible(c)) /\ Cardinality(Admissible(c)) \in Nat
           /\ Admissible(c) # {} => \E w \in Admissible(c) : \A v \in Admissible(c) : v <= w
<1> DEFINE open == [channels[c] EXCEPT !.inviteOnly = FALSE]
<1>1. c \in DOMAIN channels
  BY DEF ClearInviteOnly, MayChangeMode, OnChannel, Exists
<1>2. PICK arrivals \in Ascending(Admissible(c)) :
         channels' = [channels EXCEPT ![c] = Admit(clients, open, arrivals)]
  BY <1>1 DEF ClearInviteOnly
<1>3. /\ open \in ChannelRecord /\ open.members = channels[c].members
      /\ open.invited = channels[c].invited /\ open.operators = channels[c].operators
      /\ open.inviteOnly = FALSE
  BY <1>1 DEF IInv, TypeOK, ChannelRecord
<1>4. channels'[c] = Admit(clients, open, arrivals)
  BY <1>1, <1>2
<1> HIDE DEF open
<1>5. arrivals \in Seq(Fd)
  BY AscendingType DEF IInv
<1>6. /\ Range(channels'[c].members) = Range(open.members) \cup Range(arrivals)
      /\ Len(channels'[c].members) = Len(open.members) + Len(arrivals)
      /\ channels'[c].invited = open.invited \ Range(arrivals)
      /\ open.operators \subseteq channels'[c].operators
      /\ channels'[c].inviteOnly = open.inviteOnly
  BY <1>3, <1>4, <1>5, AdmittedIs
<1>7. /\ Range(arrivals) = Admissible(c) /\ Len(arrivals) = Cardinality(Admissible(c))
      /\ IsFiniteSet(Admissible(c)) /\ Cardinality(Admissible(c)) \in Nat
      /\ Admissible(c) # {} => \E w \in Admissible(c) : \A v \in Admissible(c) : v <= w
  BY ArrivalsAreAdmissible DEF IInv
<1> QED
  BY <1>3, <1>6, <1>7

\* What a channel is after one has gone (removeClient).
LEMMA DepartedIs ==
    ASSUME IInv, NEW c \in DOMAIN channels, NEW fd \in Live, Goes(c, fd)
    PROVE  /\ Range(channels'[c].members) = Range(channels[c].members) \ {fd}
           /\ fd \notin channels'[c].invited
           /\ channels'[c].inviteOnly = channels[c].inviteOnly
<1> DEFINE gone == RemoveInvite(RemoveClient(channels[c], fd), fd)
<1>1. Sound(clients, channels[c]) /\ channels[c] \in ChannelRecord /\ TypeOK
  BY DEF IInv, AllSound, TypeOK
<1>2. gone \in ChannelRecord /\ fd \notin gone.invited
      /\ gone.inviteOnly = channels[c].inviteOnly
  <2> DEFINE left == RemoveClient(channels[c], fd)
  <2>1. left \in ChannelRecord
    BY <1>1, RemoveClientType
  <2>2. left.inviteOnly = channels[c].inviteOnly
    BY <1>1 DEF RemoveClient, RemoveRanks, ChannelRecord
  <2> HIDE DEF left
  <2>3. gone = [left EXCEPT !.invited = left.invited \ {fd}]
    BY DEF RemoveInvite, left
  <2> HIDE DEF gone
  <2> QED
    BY <2>1, <2>2, <2>3 DEF ChannelRecord
<1> HIDE DEF gone
<1>3. /\ PromoteSuccessor(clients, gone, NoFd).invited = gone.invited
      /\ PromoteSuccessor(clients, gone, NoFd).inviteOnly = gone.inviteOnly
  BY <1>2 DEF PromoteSuccessor, ChannelRecord
<1>4. fd \notin Departed(channels[c], fd).invited
      /\ Departed(channels[c], fd).inviteOnly = channels[c].inviteOnly
  BY <1>2, <1>3 DEF Departed, gone
<1> QED
  BY <1>1, <1>4, DepartedMembers DEF Goes

\* What a step means for who is in the channel.
LEMMA WhoEnters ==
    ASSUME IInv, Next, NEW c \in DOMAIN channels, NEW fd \in Fd, Enters(fd, c)
    PROVE  \/ \E key \in Key \cup {NoKey} : Comes(c, fd, key) /\ Asked(fd, key) /\ fd \in Live
           \/ \E g \in Fd : ClearInviteOnly(g, c) /\ fd \in Admissible(c)
<1>1. c \in DOMAIN channels' /\ c \in ChannelName
      /\ fd \in Range(channels'[c].members) /\ fd \notin Range(channels[c].members)
  BY DEF Enters, OnChannel, Exists, HasClient, IInv, TypeOK
<1>2. Changes(c)
  BY <1>1, HowChannelsChange
<1>3. ~Stays(c)
  BY <1>1 DEF Stays, SameCompany
<1>4. ASSUME NEW f \in Live, Goes(c, f)
      PROVE  FALSE
  BY <1>1, <1>4, DepartedIs
<1>5. ASSUME NEW f \in Live, NEW key \in Key \cup {NoKey}, Comes(c, f, key), Asked(f, key)
      PROVE  f = fd
  BY <1>1, <1>5, ComesIs
<1>6. ASSUME NEW g \in Fd, ClearInviteOnly(g, c)
      PROVE  fd \in Admissible(c)
  BY <1>1, <1>6, OpenedIs
<1> QED
  BY <1>2, <1>3, <1>4, <1>5, <1>6 DEF Changes

\* What the limit is compared with.
LEMMA SizesAreNumbers ==
    ASSUME NEW ch \in ChannelRecord
    PROVE  Len(ch.members) \in Nat /\ ch.limit \in Nat
<1>1. ch.members \in Seq(Fd) /\ ch.limit \in Limit \cup {NoLimit}
  BY DEF ChannelRecord
<1>2. Len(ch.members) \in Nat
  BY <1>1, LenProperties
<1>3. Limit \subseteq Nat /\ NoLimit \in Nat
  BY LimitAssumption DEF NoLimit
<1>4. ch.limit \in Nat
  BY <1>1, <1>3
<1> QED
  BY <1>2, <1>4

-----------------------------------------------------------------------------
(* Theorems *)

(* Nobody comes into a +i channel without invitation, unless this step opens *)
(* it and it had refused the client: JOIN, the end of a registration and the *)
(* retries of joinPendingClients alike.                                      *)
THEOREM InviteOnlyHolds == Spec => InviteOnlyGate
<1>1. IInv /\ [Next]_vars =>
         [\A c \in DOMAIN channels, fd \in Fd :
            Enters(fd, c) /\ channels[c].inviteOnly =>
               \/ IsInvited(channels[c], fd)
               \/ ~channels'[c].inviteOnly /\ fd \in pendingJoins[c]]_vars
  <2> SUFFICES ASSUME IInv, Next, NEW c \in DOMAIN channels, NEW fd \in Fd,
                      Enters(fd, c), channels[c].inviteOnly
               PROVE  \/ IsInvited(channels[c], fd)
                      \/ ~channels'[c].inviteOnly /\ fd \in pendingJoins[c]
    OBVIOUS
  <2>1. ASSUME NEW key, Comes(c, fd, key)
        PROVE  IsInvited(channels[c], fd)
    BY <2>1 DEF Comes, MayEnter, NeedsInvitation
  <2>2. ASSUME NEW g \in Fd, ClearInviteOnly(g, c), fd \in Admissible(c)
        PROVE  ~channels'[c].inviteOnly /\ fd \in pendingJoins[c]
    <3>1. c \in ChannelName
      BY DEF IInv, TypeOK
    <3>2. channels'[c].inviteOnly = FALSE
      BY <2>2, <3>1, OpenedIs
    <3> QED
      BY <2>2, <3>2 DEF Admissible, Waiting
  <2> QED
    BY <2>1, <2>2, WhoEnters
<1> QED
  BY <1>1, InvCorrect, PTL DEF Spec, InviteOnlyGate

(* Of all keys, or none, only that of the channel lets a JOIN in; and what    *)
(* the server does by itself, the default JOIN and the retries, passes no    *)
(* key and lets nobody in.                                                   *)
THEOREM KeyHolds == Spec => KeyGate
<1>1. IInv /\ [Next]_vars =>
         [\A c \in DOMAIN channels, fd \in Fd :
            Enters(fd, c) /\ channels[c].key # NoKey =>
               {key \in Key \cup {NoKey} :
                   \E names \in SUBSET ChannelName : HandleJoin(fd, names, key)}
                  = {channels[c].key}]_vars
  <2> SUFFICES ASSUME IInv, Next, NEW c \in DOMAIN channels, NEW fd \in Fd,
                      Enters(fd, c), channels[c].key # NoKey
               PROVE  {key \in Key \cup {NoKey} :
                          \E names \in SUBSET ChannelName : HandleJoin(fd, names, key)}
                         = {channels[c].key}
    OBVIOUS
  <2>1. ASSUME NEW g \in Fd, ClearInviteOnly(g, c), fd \in Admissible(c)
        PROVE  FALSE
    BY <2>1 DEF Admissible
  <2>2. PICK key \in Key \cup {NoKey} : Comes(c, fd, key) /\ Asked(fd, key)
    BY <2>1, WhoEnters
  <2>3. key = channels[c].key
    BY <2>2 DEF Comes, MayEnter
  <2>4. \E names \in SUBSET ChannelName : HandleJoin(fd, names, channels[c].key)
    BY <2>2, <2>3 DEF Asked
  <2>5. ASSUME NEW other, NEW names \in SUBSET ChannelName, HandleJoin(fd, names, other)
        PROVE  other = channels[c].key
    <3>1. ~HasClient(channels[c], fd) /\ c \in DOMAIN channels' /\ HasClient(channels'[c], fd)
      BY DEF Enters, OnChannel, Exists
    <3> DEFINE entered == {d \in names : /\ ~HasClient(ChannelNamed(d), fd)
                                         /\ MayEnter(ChannelNamed(d), fd, other)}
    <3>2. channels'[c] = IF c \in entered THEN Admit(clients, ChannelNamed(c), <<fd>>)
                         ELSE channels[c]
      BY <2>5, <3>1 DEF HandleJoin, Join
    <3>3. c \in entered
      BY <3>1, <3>2
    <3> QED
      BY <3>3 DEF ChannelNamed, Exists, MayEnter
  <2> QED
    BY <2>2, <2>3, <2>4, <2>5
<1> QED
  BY <1>1, InvCorrect, PTL DEF Spec, KeyGate

(* A client that comes or goes holds no invitation afterwards.               *)
THEOREM InvitationsAreSpent == Spec => InvitationIsSpent
<1>1. IInv /\ [Next]_vars =>
         [\A c \in DOMAIN channels, fd \in Fd :
            Lasts(c) /\ (Enters(fd, c) \/ Leaves(fd, c)) => fd \notin channels'[c].invited]_vars
  <2> SUFFICES ASSUME IInv, Next, NEW c \in DOMAIN channels, NEW fd \in Fd,
                      Lasts(c), Enters(fd, c) \/ Leaves(fd, c)
               PROVE  fd \notin channels'[c].invited
    OBVIOUS
  <2>1. c \in DOMAIN channels \cap DOMAIN channels' /\ c \in ChannelName
    BY DEF Lasts, Exists, IInv, TypeOK
  <2>2. /\ Enters(fd, c) <=> /\ fd \notin Range(channels[c].members)
                             /\ fd \in Range(channels'[c].members)
        /\ Leaves(fd, c) <=> /\ fd \in Range(channels[c].members)
                             /\ fd \notin Range(channels'[c].members)
    BY <2>1 DEF Enters, Leaves, OnChannel, Exists, HasClient
  <2>3. ~Stays(c)
    BY <2>2 DEF Stays, SameCompany
  <2>4. ASSUME NEW f \in Live, NEW key \in Key \cup {NoKey}, Comes(c, f, key)
        PROVE  fd \notin channels'[c].invited
    BY <2>1, <2>2, <2>4, ComesIs
  <2>5. ASSUME NEW g \in Fd, ClearInviteOnly(g, c)
        PROVE  fd \notin channels'[c].invited
    BY <2>1, <2>2, <2>5, OpenedIs
  <2>6. ASSUME NEW f \in Live, Goes(c, f)
        PROVE  fd \notin channels'[c].invited
    BY <2>1, <2>2, <2>6, DepartedIs
  <2>7. Changes(c)
    BY <2>1, HowChannelsChange
  <2> QED
    BY <2>3, <2>4, <2>5, <2>6, <2>7 DEF Changes
<1> QED
  BY <1>1, InvCorrect, PTL DEF Spec, InvitationIsSpent

(* However many clients one step lets in, the channel is not past its limit:  *)
(* at -i the last to come in found the others, and a place free.             *)
THEOREM LimitHolds == Spec => LimitGate
<1>1. IInv /\ [Next]_vars =>
         [\A c \in DOMAIN channels :
            (\E fd \in Fd : Enters(fd, c)) /\ channels[c].limit # NoLimit =>
               Len(channels'[c].members) <= channels[c].limit]_vars
  <2> SUFFICES ASSUME IInv, Next, NEW c \in DOMAIN channels, NEW fd \in Fd,
                      Enters(fd, c), channels[c].limit # NoLimit
               PROVE  Len(channels'[c].members) <= channels[c].limit
    OBVIOUS
  <2> DEFINE present == Len(channels[c].members)
             limit   == channels[c].limit
  <2>1. c \in ChannelName /\ TypeOK /\ channels[c] \in ChannelRecord
    BY DEF IInv, TypeOK
  <2>2. present \in Nat /\ limit \in Nat
    BY <2>1, SizesAreNumbers
  <2>3. ASSUME NEW key \in Key \cup {NoKey}, Comes(c, fd, key), fd \in Live
        PROVE  Len(channels'[c].members) <= limit
    <3>1. present < limit
      BY <2>3 DEF Comes, MayEnter
    <3>2. Len(channels'[c].members) = present + 1
      BY <2>3, ComesIs
    <3> QED
      BY <2>2, <3>1, <3>2
  <2>4. ASSUME NEW g \in Fd, ClearInviteOnly(g, c), fd \in Admissible(c)
        PROVE  Len(channels'[c].members) <= limit
    <3> DEFINE A == Admissible(c)
    <3>1. /\ Len(channels'[c].members) = present + Cardinality(A)
          /\ IsFiniteSet(A) /\ Cardinality(A) \in Nat
          /\ \E w \in A : \A v \in A : v <= w
      BY <2>1, <2>4, OpenedIs
    <3>2. PICK w \in A : \A v \in A : v <= w
      BY <3>1
    <3> DEFINE before == {v \in Waiting(c) : v < w}
    <3>3. present + Cardinality(before) < limit
      BY DEF Admissible
    <3>4. Waiting(c) \subseteq Fd /\ A \subseteq Waiting(c)
      BY <2>1 DEF Waiting, Admissible, TypeOK
    <3> HIDE DEF A
    <3>5. A \ {w} \subseteq before
      <4>1. ASSUME NEW v \in A, v # w
            PROVE  v < w
        <5>1. v \in Nat /\ w \in Nat /\ v <= w
          BY <3>2, <3>4, FdAssumption
        <5> QED
          BY <4>1, <5>1
      <4> QED
        BY <3>4, <4>1
    <3>6. IsFiniteSet(before)
      BY <3>4, FS_Subset, FdAssumption
    <3> HIDE DEF before
    <3>7. /\ Cardinality(A \ {w}) = Cardinality(A) - 1
          /\ Cardinality(A \ {w}) <= Cardinality(before)
          /\ Cardinality(before) \in Nat
      BY <3>1, <3>5, <3>6, FS_RemoveElement, FS_Subset, FS_CardinalityType
    <3> HIDE DEF present, limit
    <3> QED
      BY <2>2, <3>1, <3>3, <3>7
  <2> QED
    BY <2>3, <2>4, WhoEnters
<1> QED
  BY <1>1, InvCorrect, PTL DEF Spec, LimitGate

(* -i forgets nobody it had refused: who is not in afterwards was kept out by *)
(* a key or by a limit that is now reached.                                  *)
THEOREM OpeningForgetsNobody == Spec => NobodyLeftWaiting
<1>1. IInv /\ [Next]_vars =>
         [\A c \in DOMAIN channels :
            Lasts(c) /\ channels[c].inviteOnly /\ ~channels'[c].inviteOnly =>
               /\ pendingJoins'[c] = {}
               /\ \A fd \in pendingJoins[c] :
                     \/ OnChannel(fd, c)'
                     \/ channels[c].key # NoKey
                     \/ /\ channels[c].limit # NoLimit
                        /\ Len(channels'[c].members) >= channels[c].limit]_vars
  <2> SUFFICES ASSUME IInv, Next, NEW c \in DOMAIN channels, Lasts(c),
                      channels[c].inviteOnly, ~channels'[c].inviteOnly
               PROVE  /\ pendingJoins'[c] = {}
                      /\ \A fd \in pendingJoins[c] :
                            \/ OnChannel(fd, c)'
                            \/ channels[c].key # NoKey
                            \/ /\ channels[c].limit # NoLimit
                               /\ Len(channels'[c].members) >= channels[c].limit
    OBVIOUS
  <2> DEFINE present == Len(channels[c].members)
             limit   == channels[c].limit
             A       == Admissible(c)
  <2>1. /\ c \in DOMAIN channels \cap DOMAIN channels' /\ c \in ChannelName
        /\ TypeOK /\ channels[c] \in ChannelRecord
    BY DEF Lasts, Exists, IInv, TypeOK
  <2>2. present \in Nat /\ limit \in Nat
    BY <2>1, SizesAreNumbers
  <2>3. PICK g \in Fd : ClearInviteOnly(g, c)
    <3>1. ~Stays(c)
      BY DEF Stays, SameCompany
    <3>2. ASSUME NEW f \in Live, NEW key, Comes(c, f, key)
          PROVE  FALSE
      BY <3>2, ComesIs
    <3>3. ASSUME NEW f \in Live, Goes(c, f)
          PROVE  FALSE
      BY <3>3, DepartedIs
    <3> QED
      BY <2>1, <3>1, <3>2, <3>3, HowChannelsChange DEF Changes
  <2>4. pendingJoins'[c] = {}
    BY <2>1, <2>3 DEF ClearInviteOnly, TypeOK
  <2>5. /\ Range(channels'[c].members) = Range(channels[c].members) \cup A
        /\ Len(channels'[c].members) = present + Cardinality(A)
        /\ IsFiniteSet(A) /\ Cardinality(A) \in Nat
    BY <2>1, <2>3, OpenedIs
  <2>6. ASSUME NEW fd \in pendingJoins[c], fd \notin A, channels[c].key = NoKey
        PROVE  limit # NoLimit /\ Len(channels'[c].members) >= limit
    <3> DEFINE left == {w \in Waiting(c) : w \notin A}
               before(w) == {v \in Waiting(c) : v < w}
    <3>1. fd \in Waiting(c)
      BY <2>1 DEF Waiting, IInv, PendingAreOutside
    <3>2. \A w \in left : limit # NoLimit /\ ~(present + Cardinality(before(w)) < limit)
      BY <2>6 DEF Admissible
    <3>3. Waiting(c) \subseteq Fd
      BY <2>1 DEF Waiting, TypeOK
    <3> HIDE DEF A
    <3>4. left \in SUBSET Nat /\ left # {}
      BY <2>6, <3>1, <3>3, FdAssumption
    <3>5. PICK w \in left : \A x \in left : w <= x
      BY <3>4, MinIsLeast
    <3>6. before(w) \subseteq A
      <4>1. ASSUME NEW v \in before(w), v \notin A
            PROVE  FALSE
        <5>1. v \in left /\ v < w
          BY <4>1
        <5>2. v \in Nat /\ w \in Nat /\ w <= v
          BY <3>4, <3>5, <5>1
        <5> QED
          BY <5>1, <5>2
      <4> QED
        BY <4>1
    <3>7. limit # NoLimit /\ ~(present + Cardinality(before(w)) < limit)
      BY <3>2
    <3> DEFINE first == before(w)
    <3> HIDE DEF before
    <3>8. first \subseteq A /\ ~(present + Cardinality(first) < limit)
      BY <3>6, <3>7
    <3> HIDE DEF first
    <3>9. Cardinality(first) <= Cardinality(A) /\ Cardinality(first) \in Nat
      BY <2>5, <3>8, FS_Subset, FS_CardinalityType
    <3> HIDE DEF present, limit
    <3> QED
      BY <2>2, <2>5, <3>7, <3>8, <3>9
  <2>7. \A fd \in A : OnChannel(fd, c)'
    BY <2>1, <2>5 DEF OnChannel, Exists, HasClient
  <2> QED
    BY <2>4, <2>6, <2>7
<1> QED
  BY <1>1, InvCorrect, PTL DEF Spec, NobodyLeftWaiting

(* A member that goes leaves the channel without operator only if nobody can  *)
(* take over: promoteSuccessor finds no half-operator, and no human.         *)
LEMMA DepartedRuled ==
    ASSUME IInv, NEW ch, Sound(clients, ch), HasOperator(ch), NEW fd \in Live,
           RemoveClient(ch, fd).members # << >>, ~HasOperator(Departed(ch, fd))
    PROVE  /\ Departed(ch, fd).halfOperators = << >>
           /\ \A m \in Range(Departed(ch, fd).members) :
                 m \in Live \ {fd} /\ ~IsHuman(clients, m)
<1> DEFINE gone == RemoveInvite(RemoveClient(ch, fd), fd)
           next == PromoteSuccessor(clients, gone, NoFd)
<1>1. /\ Ranked(clients, gone) /\ gone \in ChannelRecord
      /\ Range(gone.members) = Range(ch.members) \ {fd}
  <2>1. Ranked(clients, gone) /\ Range(gone.members) = Range(ch.members) \ {fd}
    BY GoneRanked DEF Sound, Live
  <2> QED
    BY <2>1 DEF Ranked
<1>2. gone.operators = ch.operators \ {fd} /\ gone.members = RemoveClient(ch, fd).members
  BY DEF Sound, Ranked, ChannelRecord, RemoveInvite, RemoveClient, RemoveRanks
<1>3. HasClient(ch, fd)
  <2>1. Departed(ch, fd) = gone \/ HasClient(ch, fd)
    BY DEF Departed
  <2>2. ~HasClient(ch, fd) => fd \notin ch.operators
    BY DEF HasClient, Sound, Ranked
  <2> HIDE DEF gone
  <2> QED
    BY <1>2, <2>1, <2>2 DEF HasOperator
<1>4. Departed(ch, fd) = next
  BY <1>3 DEF Departed
<1> HIDE DEF gone
<1> DEFINE heir     == Heir(clients, gone, NoFd)
           eligible == {i \in DOMAIN gone.members :
                          gone.members[i] # NoFd /\ IsHuman(clients, gone.members[i])}
<1>5. gone.members # << >>
  BY <1>2
<1>6. ~HasOperator(gone) /\ heir \notin DOMAIN clients
  <2>1. CASE HasOperator(gone)
    BY <1>4, <2>1 DEF PromoteSuccessor
  <2>2. CASE ~HasOperator(gone) /\ heir \in DOMAIN clients
    <3>1. next = [gone EXCEPT !.halfOperators = Erase(@, heir), !.operators = @ \cup {heir}]
      BY <1>5, <2>2 DEF PromoteSuccessor
    <3> HIDE DEF heir, next
    <3>2. heir \in next.operators
      BY <1>1, <3>1 DEF ChannelRecord
    <3> QED
      BY <1>4, <3>2 DEF HasOperator
  <2> QED
    BY <2>1, <2>2
<1>7. next = gone
  BY <1>6 DEF PromoteSuccessor
<1>8. gone.halfOperators = << >>
  <2>1. NoFd \notin DOMAIN clients
    BY FdAssumption DEF IInv, TypeOK, Live, NoFd
  <2> QED
    BY <1>1, <1>6, <2>1, HeirIsMember
<1>9. eligible = {}
  <2>1. SUFFICES ASSUME eligible # {} PROVE FALSE
    OBVIOUS
  <2>2. eligible \in SUBSET Nat
    BY <1>1, LenProperties DEF ChannelRecord
  <2>3. Min(eligible) \in eligible
    BY <2>1, <2>2, MinIsLeast
  <2>4. heir = gone.members[Min(eligible)]
    BY <1>8, <2>1 DEF Heir
  <2> QED
    BY <1>6, <2>3, <2>4 DEF IsHuman
<1>10. ASSUME NEW m \in Range(gone.members)
       PROVE  m \in Live \ {fd} /\ ~IsHuman(clients, m)
  <2>1. PICK i \in DOMAIN gone.members : gone.members[i] = m
    BY DEF Range
  <2>2. m \in Live /\ m # fd
    BY <1>1 DEF Ranked, Live
  <2>3. m # NoFd
    BY <2>2, FdAssumption DEF IInv, TypeOK, NoFd
  <2> QED
    BY <1>9, <2>1, <2>2, <2>3
<1> HIDE DEF next
<1> QED
  BY <1>4, <1>7, <1>8, <1>10

(* A channel that has an operator loses it only if nobody who stays could    *)
(* take over, whichever command it goes by.                                  *)
THEOREM OperatorsAreSucceeded == Spec => OperatorLossNeedsNoHeir
<1>1. IInv /\ [Next]_vars =>
         [\A c \in DOMAIN channels :
            Lasts(c) /\ HasOperator(channels[c]) /\ ~HasOperator(channels'[c]) =>
               /\ channels'[c].halfOperators = << >>
               /\ ~\E m \in Range(channels'[c].members) : IsHuman(clients', m)]_vars
  <2> SUFFICES ASSUME IInv, Next, NEW c \in DOMAIN channels, Lasts(c),
                      HasOperator(channels[c]), ~HasOperator(channels'[c])
               PROVE  /\ channels'[c].halfOperators = << >>
                      /\ \A m \in Range(channels'[c].members) : ~IsHuman(clients', m)
    OBVIOUS
  <2>1. c \in DOMAIN channels \cap DOMAIN channels' /\ c \in ChannelName
    BY DEF Lasts, Exists, IInv, TypeOK
  <2>2. ~Stays(c)
    BY DEF Stays, SameCompany, HasOperator
  <2>3. ASSUME NEW f \in Live, NEW key, Comes(c, f, key)
        PROVE  FALSE
    BY <2>3, ComesIs DEF HasOperator
  <2>4. ASSUME NEW g \in Fd, ClearInviteOnly(g, c)
        PROVE  FALSE
    BY <2>1, <2>4, OpenedIs DEF HasOperator
  <2>5. PICK fd \in Live : Goes(c, fd)
    BY <2>1, <2>2, <2>3, <2>4, HowChannelsChange DEF Changes
  <2>6. /\ channels'[c].halfOperators = << >>
        /\ \A m \in Range(channels'[c].members) : m \in Live \ {fd} /\ ~IsHuman(clients, m)
    <3>1. Sound(clients, channels[c])
      BY DEF IInv, AllSound
    <3> QED
      BY <2>5, <3>1, DepartedRuled DEF Goes, Survives
  <2>7. \A m \in Live \ {fd} : clients'[m] = clients[m]
    BY <2>5 DEF Goes
  <2> QED
    BY <2>6, <2>7 DEF IsHuman, Live
<1> QED
  BY <1>1, InvCorrect, PTL DEF Spec, OperatorLossNeedsNoHeir
-----------------------------------------------------------------------------
(* Seniority and succession *)

\* h became operator as OperatorGain says.
Gained(c, h) ==
    \/ Enters(h, c) /\ EldestHuman(clients', channels'[c].members, h)
    \/ Succeeds(h, channels[c], channels'[c])

\* What every step does to a channel that lasts.
Seniority(c) ==
    /\ InOrder(channels[c].members, channels'[c].members)
    /\ InOrder(channels[c].halfOperators, channels'[c].halfOperators)
    /\ \A h \in channels'[c].operators \ channels[c].operators : Gained(c, h)

\* Where members only go, or come last, seniority is kept.
LEMMA OrderlySeniority ==
    ASSUME NEW c, Orderly(channels[c], channels'[c])
    PROVE  Seniority(c)
BY DEF Orderly, Seniority, Gained

\* Those who come in go to the end of the list, and who of them becomes operator
\* is the first human there.
LEMMA AdmittedOrder ==
    ASSUME NEW ch \in ChannelRecord, NEW cl, NEW arrivals \in Seq(Fd), IsInjective(arrivals)
    PROVE  LET next == Admit(cl, ch, arrivals)
           IN  /\ InOrder(ch.members, next.members)
               /\ next.halfOperators = ch.halfOperators
               /\ \A h \in next.operators \ ch.operators :
                     h \in Range(arrivals) /\ EldestHuman(cl, next.members, h)
<1> DEFINE next == Admit(cl, ch, arrivals)
           first == {i \in DOMAIN arrivals :
                        /\ IsHuman(cl, arrivals[i])
                        /\ \A j \in 1..(i-1) : ~IsHuman(cl, arrivals[j])}
           new   == {arrivals[i] : i \in first}
           manned == \E m \in Range(ch.members) : IsHuman(cl, m)
           L == Len(ch.members)
<1>1. /\ next.members = ch.members \o arrivals
      /\ next.halfOperators = ch.halfOperators
      /\ next.operators = IF manned THEN ch.operators ELSE ch.operators \cup new
  BY DEF Admit, ChannelRecord
<1>2. ch.members \in Seq(Fd)
  BY DEF ChannelRecord
<1> HIDE DEF next
<1>3. InOrder(ch.members, next.members)
  BY <1>1, <1>2, ConcatOrder
<1>4. /\ L \in Nat /\ DOMAIN ch.members = 1..L
      /\ Len(arrivals) \in Nat /\ DOMAIN arrivals = 1..Len(arrivals)
      /\ DOMAIN next.members = 1..L+Len(arrivals)
      /\ \A i \in DOMAIN next.members :
            next.members[i] = IF i <= L THEN ch.members[i] ELSE arrivals[i - L]
  BY <1>1, <1>2, LenProperties, ConcatProperties
<1> HIDE DEF L
<1>5. ASSUME NEW h \in next.operators \ ch.operators
      PROVE  h \in Range(arrivals) /\ EldestHuman(cl, next.members, h)
  <2>1. ~manned /\ h \in new
    BY <1>1
  <2>2. PICK k \in DOMAIN arrivals :
           /\ h = arrivals[k] /\ IsHuman(cl, h)
           /\ \A j \in 1..(k-1) : ~IsHuman(cl, arrivals[j])
    BY <2>1
  <2>3. ASSUME NEW m, Precedes(next.members, m, h), IsHuman(cl, m)
        PROVE  FALSE
    <3>1. PICK i, j \in DOMAIN next.members : i < j /\ next.members[i] = m /\ next.members[j] = h
      BY <2>3 DEF Precedes
    <3>2. ~(i <= L)
      BY <1>4, <2>1, <2>3, <3>1 DEF Range
    <3>3. /\ i - L \in DOMAIN arrivals /\ arrivals[i - L] = m
          /\ j - L \in DOMAIN arrivals /\ arrivals[j - L] = h
      BY <1>4, <3>1, <3>2
    <3>4. j - L = k
      BY <2>2, <3>3 DEF IsInjective
    <3>5. i - L \in 1..(k-1)
      BY <1>4, <3>1, <3>3, <3>4
    <3> QED
      BY <2>2, <2>3, <3>3, <3>5
  <2> QED
    BY <2>2, <2>3 DEF EldestHuman, Range
<1> QED
  BY <1>1, <1>3, <1>5 DEF next

\* Coming in keeps the seniority of those that are in.
LEMMA ComesSeniority ==
    ASSUME IInv, NEW c \in DOMAIN channels \cap DOMAIN channels', NEW fd \in Live, NEW key,
           Comes(c, fd, key)
    PROVE  Seniority(c)
<1> DEFINE arrivals == <<fd>>
           ch       == channels[c]
           next     == channels'[c]
<1>1. ch \in ChannelRecord /\ fd \in Fd
  BY DEF IInv, TypeOK, Live
<1>2. arrivals \in Seq(Fd) /\ Range(arrivals) = {fd} /\ IsInjective(arrivals)
  BY <1>1 DEF Range, IsInjective
<1>3. PICK cl : Between(cl, fd) /\ next = Admit(cl, ch, arrivals)
  BY DEF Comes
<1>4. fd \notin Range(ch.members) /\ fd \in Range(next.members)
  BY ComesIs DEF Comes
<1> HIDE DEF arrivals, ch, next
<1>5. /\ InOrder(ch.members, next.members)
      /\ next.halfOperators = ch.halfOperators
      /\ \A h \in next.operators \ ch.operators :
            h \in Range(arrivals) /\ EldestHuman(cl, next.members, h)
  BY <1>1, <1>2, <1>3, AdmittedOrder
<1>6. InOrder(ch.halfOperators, next.halfOperators)
  BY <1>5 DEF InOrder
<1>7. Enters(fd, c)
  BY <1>4 DEF Enters, OnChannel, Exists, HasClient, ch, next
<1>8. \A h : EldestHuman(cl, next.members, h) => EldestHuman(clients', next.members, h)
  BY <1>3 DEF Between, EldestHuman
<1>9. \A h \in next.operators \ ch.operators : Gained(c, h)
  BY <1>2, <1>5, <1>7, <1>8 DEF Gained, next
<1> QED
  BY <1>5, <1>6, <1>9 DEF Seniority, ch, next

\* -i keeps the seniority of those that are in, in whatever order it lets the
\* others in.
LEMMA OpenedSeniority ==
    ASSUME IInv, NEW c \in ChannelName, NEW fd \in Fd, ClearInviteOnly(fd, c)
    PROVE  Seniority(c)
<1> DEFINE open == [channels[c] EXCEPT !.inviteOnly = FALSE]
           ch   == channels[c]
           next == channels'[c]
<1>1. c \in DOMAIN channels
  BY DEF ClearInviteOnly, MayChangeMode, OnChannel, Exists
<1>2. PICK arrivals \in Ascending(Admissible(c)) :
         channels' = [channels EXCEPT ![c] = Admit(clients, open, arrivals)]
  BY <1>1 DEF ClearInviteOnly
<1>3. /\ open \in ChannelRecord /\ open.members = ch.members
      /\ open.operators = ch.operators /\ open.halfOperators = ch.halfOperators
  BY <1>1 DEF IInv, TypeOK, ChannelRecord
<1>4. next = Admit(clients, open, arrivals) /\ c \in DOMAIN channels'
  BY <1>1, <1>2
<1>5. arrivals \in Seq(Fd) /\ Range(arrivals) = Admissible(c) /\ IsInjective(arrivals)
  <2>1. TypeOK
    BY DEF IInv
  <2> QED
    BY <2>1, AscendingType, ArrivalsAreAdmissible
<1>6. Range(next.members) = Range(ch.members) \cup Admissible(c)
  BY OpenedIs
<1>7. \A h \in Admissible(c) : ~OnChannel(h, c)
  BY DEF Admissible, Waiting
<1> HIDE DEF open, ch, next
<1>8. /\ InOrder(ch.members, next.members)
      /\ next.halfOperators = ch.halfOperators
      /\ \A h \in next.operators \ ch.operators :
            h \in Range(arrivals) /\ EldestHuman(clients, next.members, h)
  <2>1. /\ InOrder(open.members, next.members)
        /\ next.halfOperators = open.halfOperators
        /\ \A h \in next.operators \ open.operators :
              h \in Range(arrivals) /\ EldestHuman(clients, next.members, h)
    BY <1>3, <1>4, <1>5, AdmittedOrder
  <2> QED
    BY <1>3, <2>1
<1>9. InOrder(ch.halfOperators, next.halfOperators)
  BY <1>8 DEF InOrder
<1>10. ASSUME NEW h \in next.operators \ ch.operators
       PROVE  Gained(c, h)
  <2>1. h \in Admissible(c) /\ EldestHuman(clients, next.members, h)
    BY <1>5, <1>8
  <2>2. ~OnChannel(h, c) /\ h \in Range(next.members)
    BY <1>6, <1>7, <2>1
  <2>3. Enters(h, c)
    BY <1>4, <2>2 DEF Enters, OnChannel, Exists, HasClient, next
  <2>4. clients' = clients
    BY DEF ClearInviteOnly
  <2> QED
    BY <2>1, <2>3, <2>4 DEF Gained, EldestHuman, next
<1> QED
  BY <1>8, <1>9, <1>10 DEF Seniority, ch, next

\* Going keeps the seniority of those that stay, the promotion of a successor
\* included.
LEMMA GoesSeniority ==
    ASSUME IInv, NEW c \in DOMAIN channels, NEW fd \in Live, Goes(c, fd)
    PROVE  Seniority(c)
<1> DEFINE ch   == channels[c]
           gone == RemoveInvite(RemoveClient(ch, fd), fd)
<1>1. Sound(clients, ch) /\ Ranked(clients, ch) /\ ch \in ChannelRecord
  BY DEF IInv, AllSound, TypeOK, Sound
<1>2. DOMAIN clients \subseteq Fd /\ NoFd \notin Fd
  BY FdAssumption DEF IInv, TypeOK, Live, NoFd
<1>3. Ranked(clients, gone)
  BY <1>1, GoneRanked
<1>4. /\ gone.members = Erase(ch.members, fd)
      /\ gone.halfOperators = Erase(ch.halfOperators, fd)
      /\ gone.operators = ch.operators \ {fd}
  BY <1>1 DEF ChannelRecord, RemoveInvite, RemoveClient, RemoveRanks
<1> HIDE DEF ch, gone
<1>5. Orderly(ch, PromoteSuccessor(clients, gone, NoFd))
  BY <1>1, <1>2, <1>3, <1>4, PromoteOrderly
<1>6. Orderly(ch, gone)
  <2>1. /\ ch.members \in Seq(Fd) /\ IsInjective(ch.members)
        /\ ch.halfOperators \in Seq(Fd) /\ IsInjective(ch.halfOperators)
    BY <1>1 DEF Ranked, ChannelRecord
  <2>2. InOrder(ch.members, gone.members) /\ InOrder(ch.halfOperators, gone.halfOperators)
    BY <1>4, <2>1, EraseOrder
  <2>3. gone.operators \ ch.operators = {}
    BY <1>4
  <2> QED
    BY <2>2, <2>3 DEF Orderly
<1>7. channels'[c] \in {gone, PromoteSuccessor(clients, gone, NoFd)}
  BY DEF Goes, Departed, ch, gone
<1>8. Orderly(ch, channels'[c])
  BY <1>5, <1>6, <1>7
<1> QED
  BY <1>8, OrderlySeniority DEF ch

\* Every step keeps seniority.
LEMMA SeniorityNext ==
    ASSUME IInv, Next, NEW c \in DOMAIN channels \cap DOMAIN channels'
    PROVE  Seniority(c)
<1>1. c \in ChannelName
  BY DEF IInv, TypeOK
<1>2. CASE Stays(c)
  BY <1>2, OrderlySeniority DEF Stays, SameCompany
<1> QED
  BY <1>1, <1>2, HowChannelsChange, ComesSeniority, OpenedSeniority, GoesSeniority DEF Changes

(* Whoever comes and goes, those who stay keep their place in the two lists  *)
(* that decide the succession.                                              *)
THEOREM SeniorityIsKept == Spec => SeniorityKept
<1>1. IInv /\ [Next]_vars =>
         [\A c \in DOMAIN channels \cap DOMAIN channels' :
          \A a, b \in Range(channels[c].members) :
            /\ OnChannel(a, c)' /\ OnChannel(b, c)' /\ Precedes(channels[c].members, a, b)
                  => Precedes(channels'[c].members, a, b)
            /\ {a, b} \subseteq Range(channels'[c].halfOperators)
                  /\ Precedes(channels[c].halfOperators, a, b)
                  => Precedes(channels'[c].halfOperators, a, b)]_vars
  <2> SUFFICES ASSUME IInv, Next, NEW c \in DOMAIN channels \cap DOMAIN channels',
                      NEW a \in Range(channels[c].members),
                      NEW b \in Range(channels[c].members)
               PROVE  /\ OnChannel(a, c)' /\ OnChannel(b, c)' /\ Precedes(channels[c].members, a, b)
                            => Precedes(channels'[c].members, a, b)
                      /\ {a, b} \subseteq Range(channels'[c].halfOperators)
                            /\ Precedes(channels[c].halfOperators, a, b)
                            => Precedes(channels'[c].halfOperators, a, b)
    OBVIOUS
  <2>1. /\ InOrder(channels[c].members, channels'[c].members)
        /\ InOrder(channels[c].halfOperators, channels'[c].halfOperators)
    BY SeniorityNext DEF Seniority
  <2>2. OnChannel(a, c)' /\ OnChannel(b, c)' => {a, b} \subseteq Range(channels'[c].members)
    BY DEF OnChannel, HasClient
  <2>3. Precedes(channels[c].halfOperators, a, b) => {a, b} \subseteq Range(channels[c].halfOperators)
    BY DEF Precedes, Range
  <2> QED
    BY <2>1, <2>2, <2>3 DEF InOrder
<1> QED
  BY <1>1, InvCorrect, PTL DEF Spec, SeniorityKept

\* Only a JOIN makes a channel, and it makes it for one client.
LEMMA NewChannelIs ==
    ASSUME IInv, Next, NEW c \in DOMAIN channels' \ DOMAIN channels
    PROVE  \E fd \in Fd : \E cl : /\ Between(cl, fd)
                                 /\ channels'[c] = Admit(cl, NewChannel, <<fd>>)
<1> DEFINE Made(fd) == \E cl : Between(cl, fd) /\ channels'[c] = Admit(cl, NewChannel, <<fd>>)
<1>1. ASSUME NEW cl, NEW fd, NEW names, NEW key, Between(cl, fd), Join(cl, fd, names, key)
      PROVE  Made(fd)
  <2> DEFINE entered == {d \in names : /\ ~HasClient(ChannelNamed(d), fd)
                                       /\ MayEnter(ChannelNamed(d), fd, key)}
  <2>1. /\ DOMAIN channels' = DOMAIN channels \cup entered
        /\ channels'[c] = IF c \in entered THEN Admit(cl, ChannelNamed(c), <<fd>>)
                          ELSE channels[c]
    BY <1>1 DEF Join
  <2>2. channels'[c] = Admit(cl, ChannelNamed(c), <<fd>>)
    BY <2>1
  <2>3. ChannelNamed(c) = NewChannel
    BY DEF ChannelNamed, Exists
  <2> QED
    BY <1>1, <2>2, <2>3
<1> HIDE DEF Made
<1>2. ASSUME NEW fd, NEW C, Leave(fd, C)
      PROVE  FALSE
  BY <1>2 DEF Leave
<1>3. ASSUME NEW fd \in Fd, Connection(fd)
      PROVE  FALSE
  BY <1>2, <1>3 DEF Connection, AcceptNewClient, HandleQuit, DisconnectClient
<1>4. ASSUME NEW fd \in Fd, Registering(fd)
      PROVE  Made(fd)
  BY <1>1, <1>4, RegisteringJoins
<1>5. ASSUME NEW fd \in Fd, Joining(fd)
      PROVE  Made(fd)
  <2>1. ASSUME NEW names, NEW key, HandleJoin(fd, names, key)
        PROVE  Made(fd)
    <3>1. Between(clients, fd)
      BY <2>1 DEF HandleJoin, Between, Live
    <3> QED
      BY <1>1, <2>1, <3>1 DEF HandleJoin
  <2>2. ASSUME NEW names, HandlePart(fd, names)
        PROVE  FALSE
    BY <1>2, <2>2 DEF HandlePart
  <2> QED
    BY <1>5, <2>1, <2>2 DEF Joining
<1>6. ASSUME NEW fd \in Fd, NEW d \in ChannelName, Ruling(fd, d)
      PROVE  FALSE
  BY <1>2, <1>6 DEF Ruling, HandleTopic, HandleKick, HandleInvite, GiveOperator, TakeOperator
<1>7. ASSUME NEW fd \in Fd, NEW d \in ChannelName, ChangingMode(fd, d)
      PROVE  FALSE
  BY <1>7 DEF ChangingMode, SetTopicRestricted, SetInviteOnly, ClearInviteOnly, SetKey,
              RemoveKey, SetLimit, RemoveLimit
<1> QED
  BY <1>3, <1>4, <1>5, <1>6, <1>7 DEF Next, Made

\* The operator of a new channel is the human that made it.
LEMMA NewChannelGain ==
    ASSUME IInv, Next, NEW c \in DOMAIN channels' \ DOMAIN channels,
           NEW h \in channels'[c].operators
    PROVE  Enters(h, c) /\ EldestHuman(clients', channels'[c].members, h)
<1>0. PICK fd \in Fd : \E cl : /\ Between(cl, fd)
                             /\ channels'[c] = Admit(cl, NewChannel, <<fd>>)
  BY NewChannelIs
<1>1. PICK cl : Between(cl, fd) /\ channels'[c] = Admit(cl, NewChannel, <<fd>>)
  BY <1>0
<1> DEFINE arrivals == <<fd>>
           next     == channels'[c]
<1>2. arrivals \in Seq(Fd) /\ Range(arrivals) = {fd} /\ IsInjective(arrivals)
  BY DEF Range, IsInjective
<1>3. NewChannel \in ChannelRecord /\ NewChannel.operators = {}
  BY EmptySeq DEF NewChannel, ChannelRecord, NoLimit
<1>4. next = Admit(cl, NewChannel, arrivals)
  BY <1>1
<1> HIDE DEF arrivals, next
<1>5. \A x \in next.operators \ NewChannel.operators :
         x \in Range(arrivals) /\ EldestHuman(cl, next.members, x)
  BY <1>2, <1>3, <1>4, AdmittedOrder
<1>6. h \in next.operators
  BY DEF next
<1>7. h = fd /\ EldestHuman(cl, next.members, h)
  BY <1>2, <1>3, <1>5, <1>6
<1>8. Range(next.members) = Range(NewChannel.members) \cup Range(arrivals)
  <2>1. NewChannel \in ChannelRecord /\ arrivals \in Seq(Fd)
    BY <1>2, <1>3
  <2> QED
    BY <2>1, <1>4, AdmittedIs
<1>9. Enters(h, c)
  BY <1>2, <1>7, <1>8 DEF Enters, OnChannel, Exists, HasClient, next
<1> QED
  BY <1>1, <1>7, <1>9 DEF Between, EldestHuman, next

(* Nobody becomes operator but the human that comes in before any other, or  *)
(* the rightful successor: the eldest half-operator, else the eldest human.  *)
(* Whatever is sent, by whomever, and also when -i lets several in at once.  *)
THEOREM OperatorsGainRightfully == Spec => OperatorGain
<1> DEFINE Right(c, h) ==
              \/ /\ Enters(h, c)
                 /\ IsHuman(clients', h)
                 /\ \A m \in Range(channels'[c].members) :
                       Precedes(channels'[c].members, m, h) => ~IsHuman(clients', m)
              \/ /\ OnChannel(h, c)
                 /\ channels[c].operators \cap channels'[c].operators = {}
                 /\ \A f \in Range(channels'[c].halfOperators) :
                       Precedes(channels[c].halfOperators, h, f)
                 /\ IsHalfOperator(channels[c], h) \/
                       /\ IsHuman(clients, h)
                       /\ \A m \in Range(channels'[c].members) :
                             Precedes(channels[c].members, m, h) /\ IsHuman(clients, m) =>
                                IsOperator(channels[c], m)
<1>1. IInv /\ [Next]_vars =>
         [\A c \in DOMAIN channels' :
          \A h \in channels'[c].operators \ ChannelNamed(c).operators : Right(c, h)]_vars
  <2> SUFFICES ASSUME IInv, Next, NEW c \in DOMAIN channels',
                      NEW h \in channels'[c].operators \ ChannelNamed(c).operators
               PROVE  Right(c, h)
    OBVIOUS
  <2>1. CASE c \in DOMAIN channels
    <3>1. Gained(c, h)
      BY <2>1, SeniorityNext DEF Seniority, ChannelNamed, Exists
    <3>2. HasClient(channels[c], h) => OnChannel(h, c)
      BY <2>1 DEF OnChannel, Exists
    <3> QED
      BY <3>1, <3>2 DEF Gained, EldestHuman, Succeeds
  <2>2. CASE c \notin DOMAIN channels
    BY <2>2, NewChannelGain DEF EldestHuman
  <2> QED
    BY <2>1, <2>2
<1> QED
  BY <1>1, InvCorrect, PTL DEF Spec, OperatorGain
=============================================================================
