--------------------------- MODULE ServerTheorems ---------------------------
(***************************************************************************)
(* IrcServer is type correct and keeps its safety invariants, for any set  *)
(* of descriptors, nicknames, channels, keys, topics and limits.  First,   *)
(* what an erased and a concatenated list of a channel hold.               *)
(***************************************************************************)
EXTENDS IrcServer, Positions, SequenceTheorems, FiniteSetTheorems, TLAPS

-----------------------------------------------------------------------------
(* Erase *)

(* If e is in the list, Erase removes its first occurrence.                 *)
LEMMA EraseFirst ==
    ASSUME NEW S, NEW s \in Seq(S), NEW e, \E k \in DOMAIN s : s[k] = e
    PROVE  \E k \in 1..Len(s) : s[k] = e /\ Erase(s, e) = RemoveAt(s, k)
<1> DEFINE hits == {k \in DOMAIN s : s[k] = e}
<1>1. hits \in SUBSET Nat /\ hits # {}
  BY LenProperties
<1>2. Min(hits) \in hits /\ \A x \in hits : Min(hits) <= x
  BY <1>1, MinIsLeast
<1>3. \E k \in DOMAIN s : s[k] = e /\ \A j \in 1..(k-1) : s[j] # e
  <2>1. Min(hits) \in DOMAIN s /\ s[Min(hits)] = e
    BY <1>2
  <2>2. ASSUME NEW j \in 1..(Min(hits)-1) PROVE s[j] # e
    <3>1. Min(hits) \in Nat /\ Min(hits) \in 1..Len(s) /\ Len(s) \in Nat
      BY <1>1, <1>2, LenProperties
    <3> DEFINE m == Min(hits)
    <3> HIDE DEF m
    <3>2. j \in DOMAIN s /\ ~(m <= j)
      BY <2>2, <3>1, LenProperties DEF m
    <3> QED
      BY <1>2, <3>2 DEF m
  <2> QED
    BY <2>1, <2>2
<1> QED
  BY <1>3, LenProperties DEF Erase

(* What remains when the element at position k goes: the elements before it *)
(* where they were, those after it one place earlier.                       *)
LEMMA RemoveAtProperties ==
    ASSUME NEW S, NEW s \in Seq(S), NEW k \in 1..Len(s)
    PROVE  /\ RemoveAt(s, k) \in Seq(S)
           /\ Len(RemoveAt(s, k)) = Len(s) - 1
           /\ \A i \in 1..Len(s)-1 : RemoveAt(s, k)[i] = IF i < k THEN s[i] ELSE s[i+1]
<1> DEFINE front == SubSeq(s, 1, k-1)
           back  == SubSeq(s, k+1, Len(s))
<1>0. Len(s) \in Nat /\ k \in Nat /\ \A i \in 1..Len(s) : s[i] \in S
  BY LenProperties, ElementOfSeq
<1>1. /\ front \in Seq(S)
      /\ Len(front) = k - 1
      /\ \A i \in 1..k-1 : front[i] = s[i]
  <2>1. \A i \in 1..k-1 : s[i] \in S /\ 1 + i - 1 = i
    BY <1>0
  <2>2. \A i \in 1..(k-1)-1+1 : front[i] = s[1+i-1]
    BY <1>0, <2>1, SubSeqProperties
  <2> QED
    BY <1>0, <2>1, <2>2, SubSeqProperties
<1>2. /\ back \in Seq(S)
      /\ Len(back) = Len(s) - k
      /\ \A i \in 1..Len(s)-k : back[i] = s[k+i]
  <2>1. \A i \in k+1..Len(s) : s[i] \in S
    BY <1>0
  <2>2. \A i \in 1..Len(s)-(k+1)+1 : back[i] = s[k+1+i-1]
    BY <1>0, <2>1, SubSeqProperties
  <2>3. \A i \in 1..Len(s)-k : i \in 1..Len(s)-(k+1)+1 /\ k+1+i-1 = k+i
    BY <1>0
  <2> QED
    BY <1>0, <2>1, <2>2, <2>3, SubSeqProperties
<1> HIDE DEF front, back
<1>3. /\ front \o back \in Seq(S)
      /\ Len(front \o back) = Len(front) + Len(back)
      /\ \A i \in 1..Len(front)+Len(back) :
            (front \o back)[i] = IF i <= Len(front) THEN front[i] ELSE back[i - Len(front)]
  BY <1>1, <1>2, ConcatProperties
<1>4. RemoveAt(s, k) = front \o back
  BY DEF RemoveAt, front, back
<1>5. ASSUME NEW i \in 1..Len(s)-1
      PROVE  (front \o back)[i] = IF i < k THEN s[i] ELSE s[i+1]
  <2>1. CASE i < k
    BY <1>0, <1>1, <1>2, <1>3, <2>1
  <2>2. CASE ~(i < k)
    <3>1. (front \o back)[i] = back[i - (k-1)]
      BY <1>0, <1>1, <1>2, <1>3, <2>2
    <3>2. i - (k-1) \in 1..Len(s)-k /\ k + (i - (k-1)) = i + 1
      BY <1>0, <2>2
    <3> QED
      BY <1>2, <2>2, <3>1, <3>2
  <2> QED
    BY <2>1, <2>2
<1>6. Len(front \o back) = Len(s) - 1
  BY <1>0, <1>1, <1>2, <1>3
<1> QED
  BY <1>3, <1>4, <1>5, <1>6

(* Erase keeps the type of a list, whatever it is asked to remove.          *)
LEMMA EraseType ==
    ASSUME NEW S, NEW s \in Seq(S), NEW e
    PROVE  Erase(s, e) \in Seq(S)
<1>1. CASE \E k \in DOMAIN s : s[k] = e
  BY <1>1, EraseFirst, RemoveAtProperties
<1>2. CASE ~\E k \in DOMAIN s : s[k] = e
  BY <1>2 DEF Erase
<1> QED
  BY <1>1, <1>2

(* In a list without duplicates one Erase is enough: the element is gone,   *)
(* the others are there, and there are still no duplicates.                 *)
LEMMA EraseElements ==
    ASSUME NEW S, NEW s \in Seq(S), IsInjective(s), NEW e
    PROVE  /\ IsInjective(Erase(s, e))
           /\ Range(Erase(s, e)) = Range(s) \ {e}
<1>1. CASE ~\E k \in DOMAIN s : s[k] = e
  BY <1>1 DEF Erase, Range
<1>2. CASE \E k \in DOMAIN s : s[k] = e
  <2>1. PICK k \in 1..Len(s) : s[k] = e /\ Erase(s, e) = RemoveAt(s, k)
    BY <1>2, EraseFirst
  <2> DEFINE t == RemoveAt(s, k)
  <2>2. /\ Len(s) \in Nat /\ DOMAIN s = 1..Len(s)
        /\ DOMAIN t = 1..Len(s)-1
        /\ \A i \in 1..Len(s)-1 : t[i] = IF i < k THEN s[i] ELSE s[i+1]
    BY RemoveAtProperties, LenProperties
  <2> HIDE DEF t
  <2>3. \A i, j \in 1..Len(s) : s[i] = s[j] => i = j
    BY <2>2 DEF IsInjective
  <2>4. ASSUME NEW i \in DOMAIN t, NEW j \in DOMAIN t, t[i] = t[j] PROVE i = j
    <3>1. CASE i < k /\ j < k
      BY <2>2, <2>3, <2>4, <3>1
    <3>2. CASE i < k /\ ~(j < k)
      BY <2>2, <2>3, <2>4, <3>2
    <3>3. CASE ~(i < k) /\ j < k
      BY <2>2, <2>3, <2>4, <3>3
    <3>4. CASE ~(i < k) /\ ~(j < k)
      BY <2>2, <2>3, <2>4, <3>4
    <3> QED
      BY <3>1, <3>2, <3>3, <3>4
  <2>5. ASSUME NEW i \in DOMAIN t PROVE t[i] \in Range(s) \ {e}
    BY <2>1, <2>2, <2>3 DEF Range
  <2>6. ASSUME NEW i \in DOMAIN s, s[i] # e PROVE \E j \in DOMAIN t : t[j] = s[i]
    <3>1. CASE i < k
      BY <2>2, <3>1
    <3>2. CASE i > k
      <4>1. i - 1 \in DOMAIN t /\ t[i-1] = s[i]
        BY <2>2, <3>2
      <4> QED
        BY <4>1
    <3> QED
      BY <2>1, <2>2, <2>6, <3>1, <3>2
  <2>7. IsInjective(t)
    BY <2>4 DEF IsInjective
  <2>8. Range(t) = Range(s) \ {e}
    BY <2>5, <2>6 DEF Range
  <2> QED
    BY <2>1, <2>7, <2>8 DEF t
<1> QED
  BY <1>1, <1>2

-----------------------------------------------------------------------------
(* Concatenation *)

(* Two lists without duplicates and without a common element, one after the *)
(* other, hold the elements of both, once (Channel::addClient).             *)
LEMMA ConcatElements ==
    ASSUME NEW S, NEW s \in Seq(S), NEW t \in Seq(S)
    PROVE  /\ Range(s \o t) = Range(s) \cup Range(t)
           /\ IsInjective(s) /\ IsInjective(t) /\ Range(s) \cap Range(t) = {}
                => IsInjective(s \o t)
<1> DEFINE u == s \o t
<1>1. /\ Len(s) \in Nat /\ DOMAIN s = 1..Len(s)
      /\ Len(t) \in Nat /\ DOMAIN t = 1..Len(t)
      /\ DOMAIN u = 1..Len(s)+Len(t)
      /\ \A i \in DOMAIN u : u[i] = IF i <= Len(s) THEN s[i] ELSE t[i - Len(s)]
  BY LenProperties, ConcatProperties
<1> HIDE DEF u
<1>2. \A i \in DOMAIN u : i <= Len(s) => i \in DOMAIN s /\ u[i] = s[i]
  BY <1>1
<1>3. \A i \in DOMAIN u : ~(i <= Len(s)) => i - Len(s) \in DOMAIN t /\ u[i] = t[i - Len(s)]
  BY <1>1
<1>4. \A i \in DOMAIN s : i \in DOMAIN u /\ u[i] = s[i]
  BY <1>1
<1>5. \A i \in DOMAIN t : Len(s) + i \in DOMAIN u /\ u[Len(s) + i] = t[i]
  BY <1>1
<1>6. Range(u) = Range(s) \cup Range(t)
  <2>1. ASSUME NEW i \in DOMAIN u PROVE u[i] \in Range(s) \cup Range(t)
    BY <1>2, <1>3 DEF Range
  <2>2. ASSUME NEW i \in DOMAIN s PROVE s[i] \in Range(u)
    BY <1>4 DEF Range
  <2>3. ASSUME NEW i \in DOMAIN t PROVE t[i] \in Range(u)
    BY <1>5 DEF Range
  <2> QED
    BY <2>1, <2>2, <2>3 DEF Range
<1>7. ASSUME IsInjective(s), IsInjective(t), Range(s) \cap Range(t) = {}
      PROVE  IsInjective(u)
  <2>1. ASSUME NEW i \in DOMAIN u, NEW j \in DOMAIN u, u[i] = u[j] PROVE i = j
    <3>1. CASE i <= Len(s) /\ j <= Len(s)
      BY <1>2, <1>7, <2>1, <3>1 DEF IsInjective
    <3>2. CASE ~(i <= Len(s)) /\ ~(j <= Len(s))
      <4>1. i - Len(s) = j - Len(s)
        BY <1>3, <1>7, <2>1, <3>2 DEF IsInjective
      <4> QED
        BY <1>1, <4>1
    <3>3. CASE i <= Len(s) /\ ~(j <= Len(s))
      BY <1>2, <1>3, <1>7, <2>1, <3>3 DEF Range
    <3>4. CASE ~(i <= Len(s)) /\ j <= Len(s)
      BY <1>2, <1>3, <1>7, <2>1, <3>4 DEF Range
    <3> QED
      BY <3>1, <3>2, <3>3, <3>4
  <2> QED
    BY <2>1 DEF IsInjective
<1> QED
  BY <1>6, <1>7 DEF u

(* push_back of an element that is not there (Channel::addHalfOperator).    *)
LEMMA AppendElements ==
    ASSUME NEW S, NEW s \in Seq(S), NEW e \in S, e \notin Range(s), IsInjective(s)
    PROVE  /\ Append(s, e) \in Seq(S)
           /\ Range(Append(s, e)) = Range(s) \cup {e}
           /\ IsInjective(Append(s, e))
<1> DEFINE u == Append(s, e)
<1>1. /\ u \in Seq(S)
      /\ Len(s) \in Nat /\ DOMAIN s = 1..Len(s)
      /\ DOMAIN u = 1..Len(s)+1
      /\ \A i \in 1..Len(s) : u[i] = s[i]
      /\ u[Len(s)+1] = e
  BY LenProperties
<1> HIDE DEF u
<1>2. \A i \in DOMAIN u : i \in DOMAIN s \/ i = Len(s)+1
  BY <1>1
<1>3. Range(u) = Range(s) \cup {e}
  BY <1>1, <1>2 DEF Range
<1>4. \A i, j \in DOMAIN u : u[i] = u[j] => i = j
  BY <1>1, <1>2 DEF Range, IsInjective
<1> QED
  BY <1>1, <1>3, <1>4 DEF u, IsInjective

-----------------------------------------------------------------------------
(* Types of the operators *)

(* removeClient, and the removal of an invitation, keep the type of a channel. *)
LEMMA RemoveClientType ==
    ASSUME NEW ch \in ChannelRecord, NEW fd
    PROVE  /\ RemoveRanks(ch, fd) \in ChannelRecord
           /\ RemoveClient(ch, fd) \in ChannelRecord
           /\ RemoveInvite(ch, fd) \in ChannelRecord
<1>1. Erase(ch.members, fd) \in Seq(Fd) /\ Erase(ch.halfOperators, fd) \in Seq(Fd)
  BY EraseType DEF ChannelRecord
<1> QED
  BY <1>1 DEF ChannelRecord, RemoveRanks, RemoveClient, RemoveInvite

(* promoteSuccessor keeps the type of a channel.                           *)
LEMMA PromoteType ==
    ASSUME NEW cl, DOMAIN cl \subseteq Fd, NEW ch \in ChannelRecord, NEW excluded
    PROVE  PromoteSuccessor(cl, ch, excluded) \in ChannelRecord
<1> DEFINE heir == Heir(cl, ch, excluded)
<1> HIDE DEF heir
<1>1. Erase(ch.halfOperators, heir) \in Seq(Fd)
  BY EraseType DEF ChannelRecord
<1>2. ASSUME heir \in DOMAIN cl
      PROVE  [ch EXCEPT !.halfOperators = Erase(@, heir), !.operators = @ \cup {heir}]
                \in ChannelRecord
  BY <1>1, <1>2 DEF ChannelRecord
<1> QED
  BY <1>2 DEF PromoteSuccessor, heir

(* A departure keeps the type of a channel.                                *)
LEMMA DepartedType ==
    ASSUME TypeOK, NEW ch \in ChannelRecord, NEW fd
    PROVE  Departed(ch, fd) \in ChannelRecord
<1> DEFINE gone == RemoveInvite(RemoveClient(ch, fd), fd)
<1>1. gone \in ChannelRecord
  BY RemoveClientType
<1>2. PromoteSuccessor(clients, gone, NoFd) \in ChannelRecord
  BY <1>1, PromoteType DEF TypeOK, Live
<1> QED
  BY <1>1, <1>2 DEF Departed

(* Letting clients in keeps the type of a channel.                         *)
LEMMA AdmitType ==
    ASSUME NEW cl, NEW ch \in ChannelRecord, NEW arrivals \in Seq(Fd)
    PROVE  Admit(cl, ch, arrivals) \in ChannelRecord
<1>1. ch.members \o arrivals \in Seq(Fd)
  BY ConcatProperties DEF ChannelRecord
<1>2. \A i \in DOMAIN arrivals : arrivals[i] \in Fd
  BY LenProperties, ElementOfSeq
<1> QED
  BY <1>1, <1>2 DEF ChannelRecord, Admit

(* getOrCreateChannel returns a channel.                                   *)
LEMMA ChannelNamedType ==
    ASSUME TypeOK, NEW c
    PROVE  ChannelNamed(c) \in ChannelRecord
<1>1. NewChannel \in ChannelRecord
  BY EmptySeq DEF NewChannel, ChannelRecord, NoLimit
<1> QED
  BY <1>1 DEF ChannelNamed, Exists, TypeOK

-----------------------------------------------------------------------------
(* Types of the effects *)

(* Who leaves, from whichever channels: _channels keeps its type.           *)
LEMMA LeaveType ==
    ASSUME TypeOK, NEW fd, NEW C, Leave(fd, C)
    PROVE  /\ DOMAIN channels' \subseteq DOMAIN channels
           /\ channels' \in [DOMAIN channels' -> ChannelRecord]
<1>1. \A c \in DOMAIN channels : channels[c] \in ChannelRecord
  BY DEF TypeOK
<1>2. \A c \in DOMAIN channels : Departed(channels[c], fd) \in ChannelRecord
  BY <1>1, DepartedType
<1> QED
  BY <1>1, <1>2 DEF Leave

(* A JOIN, or the default JOIN of a registration.                           *)
LEMMA JoinType ==
    ASSUME TypeOK, NEW cl, NEW fd \in Fd, NEW names \in SUBSET ChannelName, NEW key,
           Join(cl, fd, names, key)
    PROVE  /\ DOMAIN channels' \subseteq ChannelName
           /\ channels' \in [DOMAIN channels' -> ChannelRecord]
           /\ pendingJoins' \in [ChannelName -> SUBSET Fd]
<1>1. \A c \in DOMAIN channels : channels[c] \in ChannelRecord
  BY DEF TypeOK
<1>2. \A c : Admit(cl, ChannelNamed(c), <<fd>>) \in ChannelRecord
  <2>1. <<fd>> \in Seq(Fd)
    OBVIOUS
  <2> QED
    BY <2>1, ChannelNamedType, AdmitType
<1>3. DOMAIN channels' \subseteq ChannelName /\ channels' \in [DOMAIN channels' -> ChannelRecord]
  BY <1>1, <1>2 DEF Join, TypeOK
<1>4. pendingJoins' \in [ChannelName -> SUBSET Fd]
  BY DEF Join, TypeOK
<1> QED
  BY <1>3, <1>4

(* The end of NICK and USER keeps the types of the three maps.             *)
LEMMA CompleteRegistrationType ==
    ASSUME TypeOK, NEW cl \in [Live -> ClientRecord], NEW fd \in Live,
           CompleteRegistration(cl, fd)
    PROVE  TypeOK'
<1>1. fd \in Fd /\ {General} \in SUBSET ChannelName
  BY GeneralAssumption DEF TypeOK
<1>2. CASE CanRegister(cl[fd])
  <2>1. clients' = [cl EXCEPT ![fd].registered = TRUE]
    BY <1>2 DEF CompleteRegistration
  <2>2. clients' \in [Live -> ClientRecord]
    BY <2>1 DEF ClientRecord
  <2>3. CASE ChannelNamed(General).inviteOnly
    BY <1>2, <2>2, <2>3 DEF CompleteRegistration, TypeOK, Live
  <2>4. CASE ~ChannelNamed(General).inviteOnly
    <3>1. Join(cl, fd, {General}, NoKey)
      BY <1>2, <2>4 DEF CompleteRegistration
    <3> QED
      BY <1>1, <2>2, <3>1, JoinType DEF TypeOK, Live
  <2> QED
    BY <2>3, <2>4
<1>3. CASE ~CanRegister(cl[fd])
  BY <1>3 DEF CompleteRegistration, TypeOK, Live
<1> QED
  BY <1>2, <1>3

(* One channel takes another value.                                         *)
LEMMA ChannelUpdateType ==
    ASSUME TypeOK, NEW c \in DOMAIN channels, NEW ch \in ChannelRecord,
           channels' = [channels EXCEPT ![c] = ch],
           clients' = clients, pendingJoins' \in [ChannelName -> SUBSET Fd]
    PROVE  TypeOK'
BY DEF TypeOK, Live

(* The arrivals at -i form a sequence of descriptors.                      *)
LEMMA AscendingType ==
    ASSUME TypeOK, NEW c, NEW arrivals \in Ascending(Admissible(c)), c \in ChannelName
    PROVE  arrivals \in Seq(Fd)
<1> DEFINE n == Cardinality(Admissible(c))
<1>1. Admissible(c) \in SUBSET Fd
  BY DEF Admissible, Waiting, TypeOK
<1>2. n \in Nat
  BY <1>1, FS_Subset, FS_CardinalityType, FdAssumption
<1>3. arrivals \in [1..n -> Fd]
  BY <1>1 DEF Ascending
<1> HIDE DEF n
<1> QED
  BY <1>2, <1>3

-----------------------------------------------------------------------------
(* Type correctness *)

(* The server starts with maps of the right types.                         *)
LEMMA TypeInit == Init => TypeOK
BY DEF Init, TypeOK, Live

(* accept, QUIT and a lost connection keep the types of the three maps.    *)
LEMMA TypeConnection ==
    ASSUME TypeOK, NEW fd \in Fd, Connection(fd)
    PROVE  TypeOK'
<1>1. CASE AcceptNewClient(fd)
  <2>1. NewClient \in ClientRecord
    BY DEF NewClient, ClientRecord
  <2> QED
    BY <1>1, <2>1 DEF AcceptNewClient, TypeOK, Live
<1>2. CASE DisconnectClient(fd)
  BY <1>2, LeaveType DEF DisconnectClient, WithoutPending, TypeOK, Live
<1> QED
  BY <1>1, <1>2 DEF Connection, HandleQuit

(* PASS, NICK and USER keep the types.                                     *)
LEMMA TypeRegistering ==
    ASSUME TypeOK, NEW fd \in Fd, Registering(fd)
    PROVE  TypeOK'
<1>1. CASE HandlePass(fd)
  BY <1>1 DEF HandlePass, TypeOK, Live, ClientRecord
<1>2. CASE HandleUser(fd)
  <2>1. fd \in Live /\ [clients EXCEPT ![fd].user = TRUE] \in [Live -> ClientRecord]
    BY <1>2 DEF HandleUser, TypeOK, ClientRecord
  <2> QED
    BY <1>2, <2>1, CompleteRegistrationType DEF HandleUser
<1>3. ASSUME NEW nick \in Nick, NickInUse(fd, nick) PROVE TypeOK'
  BY <1>3 DEF NickInUse, TypeOK, Live, ClientRecord
<1>4. ASSUME NEW nick \in Nick, HandleNick(fd, nick) PROVE TypeOK'
  <2>1. fd \in Live /\ [clients EXCEPT ![fd].nick = nick] \in [Live -> ClientRecord]
    BY <1>4 DEF HandleNick, TypeOK, ClientRecord
  <2> QED
    BY <1>4, <2>1, CompleteRegistrationType DEF HandleNick
<1> QED
  BY <1>1, <1>2, <1>3, <1>4 DEF Registering

(* JOIN and PART keep the types.                                           *)
LEMMA TypeJoining ==
    ASSUME TypeOK, NEW fd \in Fd, Joining(fd)
    PROVE  TypeOK'
<1>1. ASSUME NEW names \in SUBSET ChannelName, NEW key, HandleJoin(fd, names, key)
      PROVE  TypeOK'
  BY <1>1, JoinType DEF HandleJoin, TypeOK, Live
<1>2. ASSUME NEW names, HandlePart(fd, names)
      PROVE  TypeOK'
  BY <1>2, LeaveType DEF HandlePart, TypeOK, Live
<1> QED
  BY <1>1, <1>2 DEF Joining

(* TOPIC, KICK, INVITE, +o and -o keep the types.                          *)
LEMMA TypeRuling ==
    ASSUME TypeOK, NEW fd \in Fd, NEW c \in ChannelName, Ruling(fd, c)
    PROVE  TypeOK'
<1>0. \A d \in DOMAIN channels : channels[d] \in ChannelRecord
  BY DEF TypeOK
<1>1. ASSUME NEW topic \in Topic \cup {NoTopic}, HandleTopic(fd, c, topic)
      PROVE  TypeOK'
  <2>1. c \in DOMAIN channels /\ [channels[c] EXCEPT !.topic = topic] \in ChannelRecord
    BY <1>0, <1>1 DEF HandleTopic, OnChannel, Exists, ChannelRecord
  <2> QED
    BY <1>1, <2>1, ChannelUpdateType DEF HandleTopic, TypeOK
<1>2. ASSUME NEW target \in Fd, HandleKick(fd, c, target) PROVE TypeOK'
  BY <1>2, LeaveType DEF HandleKick, TypeOK, Live
<1>3. ASSUME NEW target \in Fd, HandleInvite(fd, c, target) PROVE TypeOK'
  <2> DEFINE ch == [channels[c] EXCEPT !.invited = @ \cup {target}]
  <2>1. c \in DOMAIN channels /\ ch \in ChannelRecord
    BY <1>0, <1>3 DEF HandleInvite, OnChannel, Exists, ChannelRecord
  <2> QED
    BY <1>3, <2>1, ChannelUpdateType DEF HandleInvite, TypeOK
<1>4. ASSUME NEW target \in Fd, GiveOperator(fd, c, target) PROVE TypeOK'
  <2>1. c \in DOMAIN channels
    BY <1>4 DEF GiveOperator, MayChangeOperator, OnChannel, Exists
  <2>2. Granted(channels[c], target) \in ChannelRecord
    <3>1. Append(channels[c].halfOperators, target) \in Seq(Fd)
      BY <1>0, <2>1 DEF ChannelRecord
    <3> QED
      BY <1>0, <2>1, <3>1 DEF Granted, AddHalfOperator, ChannelRecord
  <2> QED
    BY <1>4, <2>1, <2>2, ChannelUpdateType DEF GiveOperator, TypeOK
<1>5. ASSUME NEW target \in Fd, TakeOperator(fd, c, target) PROVE TypeOK'
  <2>1. c \in DOMAIN channels
    BY <1>5 DEF TakeOperator, MayChangeOperator, OnChannel, Exists
  <2>2. RemoveRanks(channels[c], target) \in ChannelRecord
    BY <1>0, <2>1, RemoveClientType
  <2>3. PromoteSuccessor(clients, RemoveRanks(channels[c], target), target) \in ChannelRecord
    BY <2>2, PromoteType DEF TypeOK, Live
  <2> QED
    BY <1>5, <2>1, <2>3, ChannelUpdateType DEF TakeOperator, TypeOK
<1> QED
  BY <1>1, <1>2, <1>3, <1>4, <1>5 DEF Ruling

(* The other modes keep the types.                                         *)
LEMMA TypeChangingMode ==
    ASSUME TypeOK, NEW fd \in Fd, NEW c \in ChannelName, ChangingMode(fd, c)
    PROVE  TypeOK'
<1>1. c \in DOMAIN channels /\ channels[c] \in ChannelRecord
  BY DEF ChangingMode, SetTopicRestricted, SetInviteOnly, ClearInviteOnly, SetKey,
         RemoveKey, SetLimit, RemoveLimit, MayChangeMode, OnChannel, Exists, TypeOK
<1>2. ASSUME NEW value \in BOOLEAN, SetTopicRestricted(fd, c, value) PROVE TypeOK'
  BY <1>1, <1>2, ChannelUpdateType,
     [channels[c] EXCEPT !.topicRestricted = value] \in ChannelRecord
  DEF SetTopicRestricted, ChannelRecord, TypeOK
<1>3. CASE SetInviteOnly(fd, c)
  BY <1>1, <1>3, ChannelUpdateType,
     [channels[c] EXCEPT !.inviteOnly = TRUE] \in ChannelRecord
  DEF SetInviteOnly, ChannelRecord, TypeOK
<1>4. CASE ClearInviteOnly(fd, c)
  <2> DEFINE open == [channels[c] EXCEPT !.inviteOnly = FALSE]
  <2>1. open \in ChannelRecord
    BY <1>1 DEF ChannelRecord
  <2>2. PICK arrivals \in Ascending(Admissible(c)) :
           channels' = [channels EXCEPT ![c] = Admit(clients, open, arrivals)]
    BY <1>1, <1>4 DEF ClearInviteOnly
  <2>3. Admit(clients, open, arrivals) \in ChannelRecord
    BY <2>1, AscendingType, AdmitType
  <2>4. clients' = clients /\ pendingJoins' \in [ChannelName -> SUBSET Fd]
    BY <1>4 DEF ClearInviteOnly, TypeOK
  <2> QED
    BY <1>1, <2>2, <2>3, <2>4, ChannelUpdateType
<1>5. ASSUME NEW key \in Key, SetKey(fd, c, key) PROVE TypeOK'
  BY <1>1, <1>5, ChannelUpdateType, [channels[c] EXCEPT !.key = key] \in ChannelRecord
  DEF SetKey, ChannelRecord, TypeOK
<1>6. CASE RemoveKey(fd, c)
  BY <1>1, <1>6, ChannelUpdateType, [channels[c] EXCEPT !.key = NoKey] \in ChannelRecord
  DEF RemoveKey, ChannelRecord, TypeOK
<1>7. ASSUME NEW limit \in Limit, SetLimit(fd, c, limit) PROVE TypeOK'
  BY <1>1, <1>7, ChannelUpdateType, [channels[c] EXCEPT !.limit = limit] \in ChannelRecord
  DEF SetLimit, ChannelRecord, TypeOK
<1>8. CASE RemoveLimit(fd, c)
  BY <1>1, <1>8, ChannelUpdateType, [channels[c] EXCEPT !.limit = NoLimit] \in ChannelRecord
  DEF RemoveLimit, ChannelRecord, TypeOK
<1> QED
  BY <1>2, <1>3, <1>4, <1>5, <1>6, <1>7, <1>8 DEF ChangingMode

(* Every step keeps the types.                                             *)
LEMMA TypeNext == TypeOK /\ [Next]_vars => TypeOK'
<1>1. ASSUME TypeOK, NEW fd \in Fd,
             \/ Connection(fd) \/ Registering(fd) \/ Joining(fd)
             \/ \E c \in ChannelName : Ruling(fd, c) \/ ChangingMode(fd, c)
      PROVE  TypeOK'
  BY <1>1, TypeConnection, TypeRegistering, TypeJoining, TypeRuling, TypeChangingMode
<1>2. ASSUME TypeOK, UNCHANGED vars PROVE TypeOK'
  BY <1>2 DEF TypeOK, Live, vars
<1> QED
  BY <1>1, <1>2 DEF Next

(* The three maps of class Server keep their types whatever clients send.   *)
THEOREM TypeCorrect == Spec => []TypeOK
BY TypeInit, TypeNext, PTL DEF Spec

-----------------------------------------------------------------------------
(* The invariant of one channel *)

(* The lists of ch agree with each other and with the clients cl; what a    *)
(* channel is between the removal of a member and the election of the next  *)
(* operator.                                                                *)
Ranked(cl, ch) ==
    /\ ch \in ChannelRecord
    /\ IsInjective(ch.members)
    /\ IsInjective(ch.halfOperators)
    /\ ch.operators \subseteq Range(ch.members)
    /\ Range(ch.halfOperators) \subseteq Range(ch.members)
    /\ \A m \in Range(ch.members) : m \in DOMAIN cl /\ cl[m].registered
    /\ ch.invited \subseteq DOMAIN cl
    /\ \A a, b, d \in ch.operators : a = b \/ b = d \/ a = d

(* What a channel is between two commands.                                  *)
Sound(cl, ch) ==
    /\ Ranked(cl, ch)
    /\ ch.members # << >>
    /\ ch.halfOperators # << >> => ch.operators # {}

(* What Range means for a sequence.                                        *)
LEMMA RangeFacts ==
    ASSUME NEW S, NEW s \in Seq(S)
    PROVE  /\ Range(s) \subseteq S
           /\ s # << >> => s[1] \in Range(s)
           /\ s = << >> <=> Range(s) = {}
<1>1. DOMAIN s = 1..Len(s) /\ Len(s) \in Nat /\ \A i \in 1..Len(s) : s[i] \in S
  BY LenProperties, ElementOfSeq
<1>2. s # << >> => 1 \in DOMAIN s
  BY <1>1, EmptySeq
<1> QED
  BY <1>1, <1>2 DEF Range

(* A new channel, before its first member comes in.                         *)
LEMMA NewChannelRanked ==
    ASSUME NEW cl
    PROVE  Ranked(cl, NewChannel) /\ NewChannel.halfOperators = << >>
<1>1. NewChannel \in ChannelRecord
  BY EmptySeq DEF NewChannel, ChannelRecord, NoLimit
<1>2. Range(NewChannel.members) = {} /\ Range(NewChannel.halfOperators) = {}
  BY DEF NewChannel, Range
<1>3. IsInjective(NewChannel.members) /\ IsInjective(NewChannel.halfOperators)
  BY DEF NewChannel, IsInjective
<1> QED
  BY <1>1, <1>2, <1>3 DEF Ranked, NewChannel

(* A channel stays in order if its members stay registered and its guests   *)
(* connected, whatever else changes of the clients.                         *)
LEMMA SoundFrame ==
    ASSUME NEW cl, NEW cm, NEW ch, Sound(cl, ch),
           \A m \in Range(ch.members) : m \in DOMAIN cm /\ (cl[m].registered => cm[m].registered),
           ch.invited \subseteq DOMAIN cm
    PROVE  Sound(cm, ch)
BY DEF Sound, Ranked

(* Removing a member takes it from every list and leaves the others.        *)
LEMMA GoneRanked ==
    ASSUME NEW cl, NEW cm, NEW ch, Ranked(cl, ch), NEW fd,
           \A x \in DOMAIN cl \ {fd} : x \in DOMAIN cm /\ cm[x] = cl[x]
    PROVE  LET gone == RemoveInvite(RemoveClient(ch, fd), fd)
           IN  /\ Ranked(cm, gone)
               /\ Range(gone.members) = Range(ch.members) \ {fd}
<1> DEFINE gone == RemoveInvite(RemoveClient(ch, fd), fd)
<1>0. ch.members \in Seq(Fd) /\ ch.halfOperators \in Seq(Fd)
  BY DEF Ranked, ChannelRecord
<1>1. gone \in ChannelRecord
  BY RemoveClientType DEF Ranked
<1>2. /\ gone.members = Erase(ch.members, fd)
      /\ gone.halfOperators = Erase(ch.halfOperators, fd)
      /\ gone.operators = ch.operators \ {fd}
      /\ gone.invited = ch.invited \ {fd}
  BY DEF Ranked, ChannelRecord, RemoveInvite, RemoveClient, RemoveRanks
<1>3. IsInjective(gone.members) /\ Range(gone.members) = Range(ch.members) \ {fd}
  BY <1>0, <1>2, EraseElements DEF Ranked
<1>4. IsInjective(gone.halfOperators) /\ Range(gone.halfOperators) = Range(ch.halfOperators) \ {fd}
  BY <1>0, <1>2, EraseElements DEF Ranked
<1> HIDE DEF gone
<1>5. Ranked(cm, gone)
  BY <1>1, <1>2, <1>3, <1>4 DEF Ranked
<1> QED
  BY <1>3, <1>5 DEF gone

(* -o takes the ranks of the target and nothing else.                       *)
LEMMA DeoppedRanked ==
    ASSUME NEW cl, NEW ch, Ranked(cl, ch), NEW fd
    PROVE  Ranked(cl, RemoveRanks(ch, fd)) /\ RemoveRanks(ch, fd).members = ch.members
<1> DEFINE rest == RemoveRanks(ch, fd)
<1>0. ch.halfOperators \in Seq(Fd)
  BY DEF Ranked, ChannelRecord
<1>1. rest \in ChannelRecord
  BY RemoveClientType DEF Ranked
<1>2. /\ rest.members = ch.members
      /\ rest.halfOperators = Erase(ch.halfOperators, fd)
      /\ rest.operators = ch.operators \ {fd}
      /\ rest.invited = ch.invited
  BY DEF Ranked, ChannelRecord, RemoveRanks
<1>3. IsInjective(rest.halfOperators) /\ Range(rest.halfOperators) = Range(ch.halfOperators) \ {fd}
  BY <1>0, <1>2, EraseElements DEF Ranked
<1> HIDE DEF rest
<1>4. Ranked(cl, rest)
  BY <1>1, <1>2, <1>3 DEF Ranked
<1> QED
  BY <1>2, <1>4 DEF rest

(* The successor is a member, and there is one if there is a half-operator. *)
LEMMA HeirIsMember ==
    ASSUME NEW cl, NEW ch, Ranked(cl, ch), NEW excluded,
           excluded \in DOMAIN cl => excluded \in Range(ch.members)
    PROVE  /\ Heir(cl, ch, excluded) \in DOMAIN cl
                => Heir(cl, ch, excluded) \in Range(ch.members)
           /\ ch.halfOperators # << >> => Heir(cl, ch, excluded) \in DOMAIN cl
<1> DEFINE eligible == {i \in DOMAIN ch.members :
                          ch.members[i] # excluded /\ IsHuman(cl, ch.members[i])}
<1>0. ch.members \in Seq(Fd) /\ ch.halfOperators \in Seq(Fd)
  BY DEF Ranked, ChannelRecord
<1>1. CASE ch.halfOperators # << >>
  <2>1. ch.halfOperators[1] \in Range(ch.members)
    BY <1>0, <1>1, RangeFacts DEF Ranked
  <2> QED
    BY <1>1, <2>1 DEF Heir, Ranked
<1>2. CASE ch.halfOperators = << >> /\ eligible # {}
  <2>1. eligible \in SUBSET Nat
    BY <1>0, LenProperties
  <2>2. Min(eligible) \in DOMAIN ch.members
    BY <1>2, <2>1, MinIsLeast
  <2>3. ch.members[Min(eligible)] \in Range(ch.members)
    BY <2>2 DEF Range
  <2> QED
    BY <1>2, <2>3 DEF Heir
<1>3. CASE ch.halfOperators = << >> /\ eligible = {}
  BY <1>3 DEF Heir
<1> QED
  BY <1>1, <1>2, <1>3

(* promoteSuccessor restores the invariant of a channel that has members.   *)
LEMMA PromoteSound ==
    ASSUME NEW cl, DOMAIN cl \subseteq Fd, NEW ch, Ranked(cl, ch), ch.members # << >>,
           NEW excluded, excluded \in DOMAIN cl => excluded \in Range(ch.members)
    PROVE  /\ Sound(cl, PromoteSuccessor(cl, ch, excluded))
           /\ PromoteSuccessor(cl, ch, excluded).members = ch.members
           /\ PromoteSuccessor(cl, ch, excluded).invited = ch.invited
<1> DEFINE heir == Heir(cl, ch, excluded)
           next == [ch EXCEPT !.halfOperators = Erase(@, heir), !.operators = @ \cup {heir}]
<1>0. ch.halfOperators \in Seq(Fd)
  BY DEF Ranked, ChannelRecord
<1>1. CASE HasOperator(ch) \/ heir \notin DOMAIN cl
  <2>1. PromoteSuccessor(cl, ch, excluded) = ch
    BY <1>1 DEF PromoteSuccessor
  <2>2. ch.halfOperators # << >> => ch.operators # {}
    BY <1>1, HeirIsMember DEF HasOperator
  <2> QED
    BY <2>1, <2>2 DEF Sound
<1>2. CASE ~HasOperator(ch) /\ heir \in DOMAIN cl
  <2>1. PromoteSuccessor(cl, ch, excluded) = next
    BY <1>2 DEF PromoteSuccessor
  <2>2. heir \in Range(ch.members)
    BY <1>2, HeirIsMember
  <2>3. ch.operators = {}
    BY <1>2 DEF HasOperator
  <2>4. next \in ChannelRecord
    BY <2>1, PromoteType DEF Ranked
  <2> HIDE DEF heir
  <2>5. /\ next.members = ch.members
        /\ next.halfOperators = Erase(ch.halfOperators, heir)
        /\ next.operators = {heir}
        /\ next.invited = ch.invited
    BY <2>3 DEF Ranked, ChannelRecord
  <2>6. /\ IsInjective(next.halfOperators)
        /\ Range(next.halfOperators) = Range(ch.halfOperators) \ {heir}
    BY <1>0, <2>5, EraseElements DEF Ranked
  <2> HIDE DEF next
  <2>7. Sound(cl, next)
    BY <2>2, <2>4, <2>5, <2>6 DEF Sound, Ranked
  <2> QED
    BY <2>1, <2>5, <2>7
<1> QED
  BY <1>1, <1>2

(* A channel that survives a departure is sound among the clients that are  *)
(* left, and has lost that member only.                                     *)
LEMMA DepartedSound ==
    ASSUME TypeOK, NEW ch, Sound(clients, ch), NEW fd, NEW cm,
           \A x \in Live \ {fd} : x \in DOMAIN cm /\ cm[x] = clients[x],
           RemoveClient(ch, fd).members # << >>
    PROVE  Sound(cm, Departed(ch, fd))
<1> DEFINE gone == RemoveInvite(RemoveClient(ch, fd), fd)
<1>1. Ranked(clients, gone) /\ Ranked(cm, gone) /\ Range(gone.members) = Range(ch.members) \ {fd}
  BY GoneRanked DEF Sound, Live
<1>2. gone.members # << >>
  <2>1. RemoveClient(ch, fd) \in ChannelRecord
    BY RemoveClientType DEF Sound, Ranked
  <2> QED
    BY <2>1 DEF RemoveInvite, ChannelRecord
<1>3. CASE HasClient(ch, fd)
  <2> DEFINE next == PromoteSuccessor(clients, gone, NoFd)
  <2>1. DOMAIN clients \subseteq Fd /\ NoFd \notin DOMAIN clients
    BY FdAssumption DEF TypeOK, Live, NoFd
  <2> HIDE DEF gone
  <2>2. Sound(clients, next) /\ next.members = gone.members /\ next.invited = gone.invited
    BY <1>1, <1>2, <2>1, PromoteSound
  <2> HIDE DEF next
  <2>3. Sound(cm, next)
    BY <1>1, <2>2 DEF Sound, Ranked
  <2> QED
    BY <1>3, <2>3 DEF Departed, gone, next
<1>4. CASE ~HasClient(ch, fd)
  <2>1. Departed(ch, fd) = gone
    BY <1>4 DEF Departed
  <2>2. fd \notin Range(ch.members) /\ fd \notin Range(ch.halfOperators)
    BY <1>4 DEF HasClient, Sound, Ranked
  <2>3. Erase(ch.halfOperators, fd) = ch.halfOperators
    BY <2>2 DEF Erase, Range
  <2>4. gone.halfOperators = ch.halfOperators /\ gone.operators = ch.operators
    BY <2>2, <2>3
    DEF Sound, Ranked, ChannelRecord, RemoveInvite, RemoveClient, RemoveRanks
  <2> HIDE DEF gone
  <2>5. Sound(cm, gone)
    BY <1>1, <1>2, <2>4 DEF Sound
  <2> QED
    BY <2>1, <2>5
<1> QED
  BY <1>3, <1>4

(* A departure takes the client, and nobody else, from the members.         *)
LEMMA DepartedMembers ==
    ASSUME TypeOK, NEW ch, Sound(clients, ch), NEW fd
    PROVE  Range(Departed(ch, fd).members) = Range(ch.members) \ {fd}
<1> DEFINE gone == RemoveInvite(RemoveClient(ch, fd), fd)
<1>1. Ranked(clients, gone) /\ Range(gone.members) = Range(ch.members) \ {fd}
  BY GoneRanked DEF Sound, Live
<1>2. PromoteSuccessor(clients, gone, NoFd).members = gone.members
  <2> HIDE DEF gone
  <2> QED
    BY <1>1 DEF PromoteSuccessor, Ranked, ChannelRecord
<1> QED
  BY <1>1, <1>2 DEF Departed

(* Clients that are registered and not members come in: the channel stays   *)
(* in order.  Two operators at most: a newcomer becomes one only where no   *)
(* human is, and there all members bear the one nickname ircbot.            *)
LEMMA AdmitSound ==
    ASSUME NEW cl, NEW cm, NEW ch, Ranked(cm, ch),
           ch.halfOperators # << >> => ch.operators # {},
           NEW arrivals \in Seq(Fd), IsInjective(arrivals),
           ch.members # << >> \/ arrivals # << >>,
           Range(arrivals) \cap Range(ch.members) = {},
           \A m \in Range(arrivals) : m \in DOMAIN cm /\ cm[m].registered,
           \A a, b \in Range(ch.members) :
              a \in DOMAIN cl /\ (cl[a].nick = Bot /\ cl[b].nick = Bot => a = b)
    PROVE  /\ Sound(cm, Admit(cl, ch, arrivals))
           /\ Range(Admit(cl, ch, arrivals).members) = Range(ch.members) \cup Range(arrivals)
<1> DEFINE firstHuman == {i \in DOMAIN arrivals :
                            /\ IsHuman(cl, arrivals[i])
                            /\ \A j \in 1..(i-1) : ~IsHuman(cl, arrivals[j])}
           first == {arrivals[i] : i \in firstHuman}
           next  == Admit(cl, ch, arrivals)
           peopled == \E m \in Range(ch.members) : IsHuman(cl, m)
<1>0. ch \in ChannelRecord /\ ch.members \in Seq(Fd)
  BY DEF Ranked, ChannelRecord
<1>1. next \in ChannelRecord
  BY <1>0, AdmitType
<1>2. /\ next.members = ch.members \o arrivals
      /\ next.halfOperators = ch.halfOperators
      /\ next.invited = ch.invited \ Range(arrivals)
      /\ next.operators = IF peopled THEN ch.operators ELSE ch.operators \cup first
  BY <1>0 DEF Admit, ChannelRecord
<1>3. IsInjective(next.members) /\ Range(next.members) = Range(ch.members) \cup Range(arrivals)
  BY <1>0, <1>2, ConcatElements DEF Ranked
<1>4. next.members # << >>
  BY <1>0, <1>2, ConcatEqualIffEmpty
<1>5. first \subseteq Range(arrivals) /\ \A a, b \in first : a = b
  <2>1. first \subseteq Range(arrivals)
    BY DEF Range
  <2>2. ASSUME NEW i \in firstHuman, NEW j \in firstHuman PROVE i = j
    <3>1. i \in Nat \ {0} /\ j \in Nat \ {0}
      BY LenProperties
    <3>2. ~(i < j) /\ ~(j < i)
      BY <2>2, <3>1
    <3> QED
      BY <3>1, <3>2
  <2> QED
    BY <2>1, <2>2
<1> HIDE DEF next, first
<1>6. \A a, b, d \in next.operators : a = b \/ b = d \/ a = d
  <2>1. CASE peopled
    BY <1>2, <2>1 DEF Ranked
  <2>2. CASE ~peopled
    <3>1. \A a, b \in ch.operators : a = b
      BY <2>2 DEF Ranked, IsHuman
    <3> QED
      BY <1>2, <1>5, <2>2, <3>1
  <2> QED
    BY <2>1, <2>2
<1>7. next.operators \subseteq Range(next.members)
  BY <1>2, <1>3, <1>5 DEF Ranked
<1>8. next.halfOperators # << >> => next.operators # {}
  BY <1>2
<1> HIDE DEF peopled
<1>9. Sound(cm, next)
  BY <1>1, <1>2, <1>3, <1>4, <1>6, <1>7, <1>8 DEF Sound, Ranked
<1> QED
  BY <1>3, <1>9 DEF next

-----------------------------------------------------------------------------
(* The inductive invariant *)

AllSound == \A c \in DOMAIN channels : Sound(clients, channels[c])

IInv ==
    /\ TypeOK
    /\ NicknamesUnique
    /\ AllSound
    /\ PendingAreOutside

(* AllSound says of each channel what the invariants of IrcServer say.      *)
LEMMA SoundChannels ==
    ASSUME TypeOK, AllSound
    PROVE  /\ NoStaleFd
           /\ ChannelsInhabited
           /\ NoDuplicates
           /\ RanksAreMembers
           /\ HalfOperatorsHaveOperator
           /\ AtMostTwoOperators
BY DEF AllSound, Sound, Ranked, NoStaleFd, ChannelsInhabited, NoDuplicates, RanksAreMembers,
       HalfOperatorsHaveOperator, HasOperator, AtMostTwoOperators, Registered, Live

(* Whatever fd leaves, the channels that survive are sound among the        *)
(* clients that are left, and nobody came in.                               *)
LEMMA LeaveSound ==
    ASSUME TypeOK, AllSound, NEW fd, NEW C, Leave(fd, C),
           \A x \in Live \ {fd} : x \in Live' /\ clients'[x] = clients[x],
           clients' = clients \/ C = DOMAIN channels
    PROVE  /\ AllSound'
           /\ \A c \in DOMAIN channels' :
                 /\ c \in DOMAIN channels
                 /\ Range(channels'[c].members) \subseteq Range(channels[c].members)
                 /\ c \in C => fd \notin Range(channels'[c].members)
<1>1. ASSUME NEW c \in DOMAIN channels'
      PROVE  /\ c \in DOMAIN channels
             /\ c \in C => RemoveClient(channels[c], fd).members # << >>
             /\ channels'[c] = IF c \in C THEN Departed(channels[c], fd) ELSE channels[c]
  BY <1>1 DEF Leave, Survives
<1>2. ASSUME NEW c \in DOMAIN channels'
      PROVE  /\ Sound(clients', channels'[c])
             /\ Range(channels'[c].members) \subseteq Range(channels[c].members)
             /\ c \in C => fd \notin Range(channels'[c].members)
  <2>1. c \in DOMAIN channels /\ Sound(clients, channels[c])
    BY <1>1 DEF AllSound
  <2>2. CASE c \in C
    <3>1. Sound(clients', Departed(channels[c], fd))
      BY <1>1, <2>1, <2>2, DepartedSound DEF Live
    <3>2. Range(Departed(channels[c], fd).members) = Range(channels[c].members) \ {fd}
      BY <2>1, DepartedMembers
    <3> QED
      BY <1>1, <2>2, <3>1, <3>2
  <2>3. CASE c \notin C
    BY <1>1, <2>1, <2>3
  <2> QED
    BY <2>2, <2>3
<1> QED
  BY <1>1, <1>2 DEF AllSound

(* fd comes into the channels that take it: they are sound among the new    *)
(* clients, and nobody waits for a channel it is in.                        *)
LEMMA JoinSound ==
    ASSUME IInv, NEW cl, NEW fd \in Live, NEW names \in SUBSET ChannelName, NEW key,
           Join(cl, fd, names, key),
           DOMAIN cl = Live,
           \A a, b \in Live : cl[a].nick = Bot /\ cl[b].nick = Bot => a = b,
           \A x \in Live : x \in Live' /\ (clients[x].registered => clients'[x].registered),
           clients'[fd].registered
    PROVE  AllSound' /\ PendingAreOutside'
<1> DEFINE asked   == {c \in names : ~HasClient(ChannelNamed(c), fd)}
           entered == {c \in asked : MayEnter(ChannelNamed(c), fd, key)}
           refused == {c \in asked : NeedsInvitation(ChannelNamed(c), fd)}
<1>0. fd \in Fd
  BY DEF IInv, TypeOK
<1>1. /\ DOMAIN channels' = DOMAIN channels \cup entered
      /\ \A c \in entered : channels'[c] = Admit(cl, ChannelNamed(c), <<fd>>)
      /\ \A c \in DOMAIN channels \ entered : channels'[c] = channels[c]
  BY DEF Join
<1>2. /\ \A c \in entered : pendingJoins'[c] = pendingJoins[c] \ {fd}
      /\ \A c \in refused : pendingJoins'[c] = pendingJoins[c] \cup {fd}
      /\ \A c \in ChannelName \ (entered \cup refused) : pendingJoins'[c] = pendingJoins[c]
      /\ entered \cap refused = {}
  <2>1. entered \cap refused = {}
    BY DEF MayEnter
  <2>2. entered \cup refused \subseteq ChannelName
    OBVIOUS
  <2>3. pendingJoins' = [c \in ChannelName |->
                           CASE c \in entered -> pendingJoins[c] \ {fd}
                             [] c \in refused -> pendingJoins[c] \cup {fd}
                             [] OTHER         -> pendingJoins[c]]
    BY DEF Join
  <2> HIDE DEF entered, refused
  <2> QED
    BY <2>1, <2>2, <2>3
<1>3. \A c \in DOMAIN channels : Sound(clients, channels[c]) /\ Sound(clients', channels[c])
  BY SoundFrame DEF IInv, AllSound, Sound, Ranked, Live
<1>4. ASSUME NEW c \in entered
      PROVE  /\ Sound(clients', channels'[c])
             /\ Range(channels'[c].members) = Range(ChannelNamed(c).members) \cup {fd}
  <2> DEFINE ch == ChannelNamed(c)
  <2>1. /\ Ranked(clients', ch)
        /\ ch.halfOperators # << >> => ch.operators # {}
        /\ Range(ch.members) \subseteq Live
    <3>1. CASE Exists(c)
      BY <1>3, <3>1 DEF ChannelNamed, Exists, Sound, Ranked, Live
    <3>2. CASE ~Exists(c)
      <4>1. Range(NewChannel.members) = {}
        BY DEF NewChannel, Range
      <4> QED
        BY <3>2, <4>1, NewChannelRanked DEF ChannelNamed
    <3> QED
      BY <3>1, <3>2
  <2>2. fd \notin Range(ch.members)
    BY DEF HasClient
  <2>3. <<fd>> \in Seq(Fd) /\ <<fd>> # << >> /\ Range(<<fd>>) = {fd} /\ IsInjective(<<fd>>)
    BY <1>0 DEF Range, IsInjective
  <2> DEFINE arrivals == <<fd>>
  <2> HIDE DEF ch, arrivals, entered
  <2>4. \A a, b \in Range(ch.members) :
          a \in DOMAIN cl /\ (cl[a].nick = Bot /\ cl[b].nick = Bot => a = b)
    BY <2>1
  <2>5. \A m \in Range(arrivals) : m \in DOMAIN clients' /\ clients'[m].registered
    BY <2>3 DEF arrivals, Live
  <2>6. /\ arrivals \in Seq(Fd) /\ IsInjective(arrivals) /\ arrivals # << >>
        /\ Range(arrivals) \cap Range(ch.members) = {}
    BY <2>2, <2>3 DEF arrivals
  <2>7. /\ Sound(clients', Admit(cl, ch, arrivals))
        /\ Range(Admit(cl, ch, arrivals).members) = Range(ch.members) \cup Range(arrivals)
    BY <2>1, <2>4, <2>5, <2>6, AdmitSound
  <2> QED
    BY <1>1, <2>3, <2>7 DEF ch, arrivals
<1>5. AllSound'
  BY <1>1, <1>3, <1>4 DEF AllSound
<1>6. ASSUME NEW c \in ChannelName, NEW x \in pendingJoins'[c]
      PROVE  Registered(x)' /\ ~OnChannel(x, c)'
  <2>1. x \in pendingJoins[c] => Registered(x) /\ ~OnChannel(x, c)
    BY DEF IInv, PendingAreOutside
  <2>2. Registered(x) => Registered(x)'
    BY DEF Registered
  <2>3. Registered(fd)'
    BY DEF Registered
  <2>4. CASE c \in entered
    <3>1. x \in pendingJoins[c] /\ x # fd
      BY <1>2, <2>4
    <3>2. x \notin Range(ChannelNamed(c).members)
      <4>1. Range(NewChannel.members) = {}
        BY DEF NewChannel, Range
      <4> QED
        BY <2>1, <3>1, <4>1 DEF OnChannel, HasClient, ChannelNamed, Exists
    <3> QED
      BY <1>4, <2>1, <2>2, <2>4, <3>1, <3>2 DEF OnChannel, HasClient, Exists
  <2>5. CASE c \in refused
    <3>1. x \in pendingJoins[c] \/ x = fd
      BY <1>2, <2>5
    <3>2. ~OnChannel(fd, c)
      BY <2>5 DEF OnChannel, ChannelNamed
    <3>3. OnChannel(x, c)' => OnChannel(x, c)
      BY <1>1, <1>2, <2>5 DEF OnChannel, Exists, HasClient
    <3> QED
      BY <2>1, <2>2, <2>3, <3>1, <3>2, <3>3
  <2>6. CASE c \notin entered \cup refused
    <3>1. OnChannel(x, c)' => OnChannel(x, c)
      BY <1>1, <2>6 DEF OnChannel, Exists, HasClient
    <3> QED
      BY <1>2, <2>1, <2>2, <2>6, <3>1
  <2> QED
    BY <2>4, <2>5, <2>6
<1> QED
  BY <1>5, <1>6 DEF PendingAreOutside

(* A change of modes or topic touches no list.                              *)
LEMMA ModeSound ==
    ASSUME NEW cl, NEW ch, Sound(cl, ch), NEW cn \in ChannelRecord,
           cn.members = ch.members, cn.operators = ch.operators,
           cn.halfOperators = ch.halfOperators, cn.invited = ch.invited
    PROVE  Sound(cl, cn)
BY DEF Sound, Ranked

(* One channel takes another sound value, with the same members or none     *)
(* waiting for it.                                                          *)
LEMMA UpdateSound ==
    ASSUME IInv, NEW c \in DOMAIN channels, NEW ch, Sound(clients, ch),
           channels' = [channels EXCEPT ![c] = ch],
           clients' = clients,
           \/ pendingJoins' = pendingJoins /\ Range(ch.members) = Range(channels[c].members)
           \/ pendingJoins' = [pendingJoins EXCEPT ![c] = {}]
    PROVE  AllSound' /\ PendingAreOutside'
<1>1. AllSound'
  BY DEF IInv, AllSound
<1>2. \A x : Registered(x)' <=> Registered(x)
  BY DEF Registered, Live
<1>3. ASSUME NEW d \in ChannelName, NEW x \in pendingJoins'[d]
      PROVE  Registered(x)' /\ ~OnChannel(x, d)'
  <2>1. x \in pendingJoins[d] /\ (d = c => Range(ch.members) = Range(channels[c].members))
    BY DEF IInv, TypeOK
  <2>2. Registered(x) /\ ~OnChannel(x, d)
    BY <2>1 DEF IInv, PendingAreOutside
  <2>3. OnChannel(x, d)' => OnChannel(x, d)
    BY <2>1 DEF OnChannel, Exists, HasClient
  <2> QED
    BY <1>2, <2>2, <2>3
<1> QED
  BY <1>1, <1>3 DEF PendingAreOutside

(* Channels and waiting clients are as they were, clients lose nothing.     *)
LEMMA FrameSound ==
    ASSUME IInv, channels' = channels, pendingJoins' = pendingJoins,
           \A x \in Live : x \in Live' /\ (clients[x].registered => clients'[x].registered)
    PROVE  AllSound' /\ PendingAreOutside'
<1>1. ASSUME NEW c \in DOMAIN channels PROVE Sound(clients', channels[c])
  <2>1. Sound(clients, channels[c])
    BY DEF IInv, AllSound
  <2> QED
    BY <2>1, SoundFrame DEF Sound, Ranked, Live
<1>2. PendingAreOutside'
  BY DEF IInv, PendingAreOutside, Registered, OnChannel, Exists, HasClient
<1> QED
  BY <1>1, <1>2 DEF AllSound

(* Connecting and disconnecting keep channels and retries sound.           *)
LEMMA StepConnection ==
    ASSUME IInv, NEW fd \in Fd, Connection(fd)
    PROVE  AllSound' /\ PendingAreOutside'
<1>1. CASE AcceptNewClient(fd)
  <2>1. \A x \in Live : x \in Live' /\ clients'[x] = clients[x]
    BY <1>1 DEF AcceptNewClient, Live
  <2>2. channels' = channels /\ pendingJoins' = pendingJoins
    BY <1>1 DEF AcceptNewClient
  <2> QED
    BY <2>1, <2>2, FrameSound
<1>2. CASE DisconnectClient(fd)
  <2>1. \A x \in Live \ {fd} : x \in Live' /\ clients'[x] = clients[x]
    BY <1>2 DEF DisconnectClient, Live
  <2>2. /\ AllSound'
        /\ \A c \in DOMAIN channels' :
              /\ c \in DOMAIN channels
              /\ Range(channels'[c].members) \subseteq Range(channels[c].members)
    BY <1>2, <2>1, LeaveSound DEF IInv, DisconnectClient
  <2>3. ASSUME NEW c \in ChannelName, NEW x \in pendingJoins'[c]
        PROVE  Registered(x)' /\ ~OnChannel(x, c)'
    <3>1. x \in pendingJoins[c] \ {fd}
      BY <1>2 DEF DisconnectClient, WithoutPending
    <3>2. Registered(x) /\ ~OnChannel(x, c)
      BY <3>1 DEF IInv, PendingAreOutside
    <3> QED
      BY <2>1, <2>2, <3>1, <3>2 DEF Registered, OnChannel, Exists, HasClient
  <2> QED
    BY <2>2, <2>3 DEF PendingAreOutside
<1> QED
  BY <1>1, <1>2 DEF Connection, HandleQuit

(* The end of NICK and of USER, in which fd takes the value cl gives it.    *)
LEMMA CompleteRegistrationSound ==
    ASSUME IInv, NEW cl, NEW fd \in Live, CompleteRegistration(cl, fd),
           DOMAIN cl = Live,
           cl \in [Live -> ClientRecord],
           \A x \in Live : cl[x].registered = clients[x].registered,
           \A a, b \in Live : cl[a].nick = Bot /\ cl[b].nick = Bot => a = b
    PROVE  AllSound' /\ PendingAreOutside'
<1>1. \A x \in Live : x \in Live' /\ (clients[x].registered => clients'[x].registered)
  BY DEF CompleteRegistration, Live, ClientRecord
<1>2. CASE channels' = channels /\ pendingJoins' = pendingJoins
  BY <1>1, <1>2, FrameSound
<1>3. CASE /\ clients' = [cl EXCEPT ![fd].registered = TRUE]
           /\ Join(cl, fd, {General}, NoKey)
  <2>1. clients'[fd].registered
    BY <1>3 DEF ClientRecord
  <2>2. {General} \in SUBSET ChannelName
    BY GeneralAssumption
  <2> QED
    BY <1>1, <1>3, <2>1, <2>2, JoinSound
<1> QED
  BY <1>2, <1>3 DEF CompleteRegistration

(* PASS, NICK and USER keep channels and retries sound.                    *)
LEMMA StepRegistering ==
    ASSUME IInv, NEW fd \in Fd, Registering(fd)
    PROVE  AllSound' /\ PendingAreOutside'
<1>0. /\ clients \in [Live -> ClientRecord]
      /\ \A a, b \in Live : clients[a].nick = Bot /\ clients[b].nick = Bot => a = b
  BY NickAssumption DEF IInv, TypeOK, NicknamesUnique
<1>1. CASE HandlePass(fd) \/ \E nick \in Nick : NickInUse(fd, nick)
  <2>1. channels' = channels /\ pendingJoins' = pendingJoins
    BY <1>1 DEF HandlePass, NickInUse
  <2>2. Live' = Live /\ \A x \in Live : clients'[x].registered = clients[x].registered
    BY <1>0, <1>1 DEF HandlePass, NickInUse, Live, ClientRecord
  <2> QED
    BY <2>1, <2>2, FrameSound
<1>2. CASE HandleUser(fd)
  <2> DEFINE cl == [clients EXCEPT ![fd].user = TRUE]
  <2>1. /\ fd \in Live
        /\ DOMAIN cl = Live
        /\ cl \in [Live -> ClientRecord]
        /\ \A x \in Live : cl[x].registered = clients[x].registered /\ cl[x].nick = clients[x].nick
    BY <1>0, <1>2 DEF HandleUser, ClientRecord
  <2> HIDE DEF cl
  <2>2. CompleteRegistration(cl, fd)
    BY <1>2 DEF HandleUser, cl
  <2> QED
    BY <1>0, <2>1, <2>2, CompleteRegistrationSound
<1>3. ASSUME NEW nick \in Nick, HandleNick(fd, nick) PROVE AllSound' /\ PendingAreOutside'
  <2> DEFINE cl == [clients EXCEPT ![fd].nick = nick]
  <2>1. /\ fd \in Live
        /\ DOMAIN cl = Live
        /\ cl \in [Live -> ClientRecord]
        /\ \A x \in Live : cl[x].registered = clients[x].registered
        /\ cl[fd].nick = nick
        /\ \A x \in Live \ {fd} : cl[x].nick = clients[x].nick /\ cl[x].nick # nick
    BY <1>0, <1>3 DEF HandleNick, HeldByOther, ClientRecord
  <2> HIDE DEF cl
  <2>2. CompleteRegistration(cl, fd)
    BY <1>3 DEF HandleNick, cl
  <2>3. \A a, b \in Live : cl[a].nick = Bot /\ cl[b].nick = Bot => a = b
    BY <1>0, <2>1
  <2> QED
    BY <2>1, <2>2, <2>3, CompleteRegistrationSound
<1> QED
  BY <1>1, <1>2, <1>3 DEF Registering

(* JOIN and PART keep channels and retries sound.                          *)
LEMMA StepJoining ==
    ASSUME IInv, NEW fd \in Fd, Joining(fd)
    PROVE  AllSound' /\ PendingAreOutside'
<1>1. ASSUME NEW names \in SUBSET ChannelName, NEW key, HandleJoin(fd, names, key)
      PROVE  AllSound' /\ PendingAreOutside'
  <2>1. /\ fd \in Live /\ clients' = clients /\ clients'[fd].registered
        /\ Join(clients, fd, names, key)
    BY <1>1 DEF HandleJoin, Registered
  <2>2. \A a, b \in Live : clients[a].nick = Bot /\ clients[b].nick = Bot => a = b
    BY NickAssumption DEF IInv, NicknamesUnique
  <2> QED
    BY <2>1, <2>2, JoinSound DEF Live
<1>2. ASSUME NEW names, HandlePart(fd, names)
      PROVE  AllSound' /\ PendingAreOutside'
  <2>1. /\ clients' = clients /\ pendingJoins' = pendingJoins
        /\ Leave(fd, {c \in names : OnChannel(fd, c)})
    BY <1>2 DEF HandlePart
  <2>2. /\ AllSound'
        /\ \A c \in DOMAIN channels' :
              /\ c \in DOMAIN channels
              /\ Range(channels'[c].members) \subseteq Range(channels[c].members)
    BY <2>1, LeaveSound DEF IInv, Live
  <2>3. PendingAreOutside'
    BY <2>1, <2>2 DEF IInv, PendingAreOutside, Registered, Live, OnChannel, Exists, HasClient
  <2> QED
    BY <2>2, <2>3
<1> QED
  BY <1>1, <1>2 DEF Joining

(* +o: the issuer is an operator, so the target becomes a half-operator.    *)
LEMMA StepGiveOperator ==
    ASSUME IInv, NEW fd \in Fd, NEW c \in ChannelName, NEW target \in Fd,
           GiveOperator(fd, c, target)
    PROVE  AllSound' /\ PendingAreOutside'
<1> DEFINE ch == channels[c]
           next == Granted(ch, target)
<1>1. /\ c \in DOMAIN channels
      /\ HasOperator(ch)
      /\ target \in Range(ch.members)
      /\ channels' = [channels EXCEPT ![c] = next]
      /\ clients' = clients /\ pendingJoins' = pendingJoins
  BY DEF GiveOperator, MayChangeOperator, IsOperator, HasOperator, OnChannel, Exists, HasClient
<1>2. Sound(clients, ch) /\ ch \in ChannelRecord
  BY <1>1 DEF IInv, AllSound, Sound, Ranked
<1>3. Sound(clients, next) /\ next.members = ch.members
  <2>1. CASE IsHalfOperator(ch, target)
    BY <1>1, <1>2, <2>1 DEF Granted, AddHalfOperator
  <2>2. CASE ~IsHalfOperator(ch, target)
    <3> DEFINE halves == Append(ch.halfOperators, target)
    <3>1. /\ halves \in Seq(Fd)
          /\ Range(halves) = Range(ch.halfOperators) \cup {target}
          /\ IsInjective(halves)
      BY <1>2, <2>2, AppendElements DEF IsHalfOperator, Sound, Ranked, ChannelRecord
    <3> HIDE DEF halves
    <3>2. next = [ch EXCEPT !.halfOperators = halves]
      BY <1>1, <2>2 DEF Granted, AddHalfOperator, halves
    <3> HIDE DEF next, ch
    <3>3. /\ next \in ChannelRecord
          /\ next.members = ch.members /\ next.halfOperators = halves
          /\ next.operators = ch.operators /\ next.invited = ch.invited
      BY <1>2, <3>1, <3>2 DEF ChannelRecord
    <3> QED
      BY <1>1, <1>2, <3>1, <3>3 DEF Sound, Ranked, HasOperator
  <2> QED
    BY <2>1, <2>2
<1> HIDE DEF next
<1> QED
  BY <1>1, <1>3, UpdateSound

(* -o: the ranks go, and promoteSuccessor finds an heir among the members.  *)
LEMMA StepTakeOperator ==
    ASSUME IInv, NEW fd \in Fd, NEW c \in ChannelName, NEW target \in Fd,
           TakeOperator(fd, c, target)
    PROVE  AllSound' /\ PendingAreOutside'
<1> DEFINE ch == channels[c]
           rest == RemoveRanks(ch, target)
           next == PromoteSuccessor(clients, rest, target)
<1>1. /\ c \in DOMAIN channels
      /\ target \in Range(ch.members)
      /\ channels' = [channels EXCEPT ![c] = next]
      /\ clients' = clients /\ pendingJoins' = pendingJoins
  BY DEF TakeOperator, MayChangeOperator, OnChannel, Exists, HasClient
<1>2. Sound(clients, ch)
  BY <1>1 DEF IInv, AllSound
<1>3. Ranked(clients, rest) /\ rest.members = ch.members
  BY <1>2, DeoppedRanked DEF Sound
<1>4. rest.members # << >> /\ target \in Range(rest.members) /\ DOMAIN clients \subseteq Fd
  BY <1>1, <1>2, <1>3 DEF Sound, IInv, TypeOK, Live
<1> HIDE DEF rest
<1>5. Sound(clients, next) /\ next.members = ch.members
  BY <1>3, <1>4, PromoteSound
<1> HIDE DEF next
<1> QED
  BY <1>1, <1>5, UpdateSound

(* TOPIC, KICK, INVITE, +o and -o keep channels and retries sound.         *)
LEMMA StepRuling ==
    ASSUME IInv, TypeOK', NEW fd \in Fd, NEW c \in ChannelName, Ruling(fd, c)
    PROVE  AllSound' /\ PendingAreOutside'
<1>1. ASSUME NEW topic, HandleTopic(fd, c, topic) PROVE AllSound' /\ PendingAreOutside'
  <2> DEFINE next == [channels[c] EXCEPT !.topic = topic]
  <2>1. /\ c \in DOMAIN channels
        /\ channels' = [channels EXCEPT ![c] = next]
        /\ clients' = clients /\ pendingJoins' = pendingJoins
    BY <1>1 DEF HandleTopic, OnChannel, Exists
  <2>2. Sound(clients, channels[c]) /\ next \in ChannelRecord
    BY <2>1 DEF IInv, AllSound, TypeOK
  <2>3. Sound(clients, next) /\ next.members = channels[c].members
    BY <2>2, ModeSound DEF Sound, Ranked, ChannelRecord
  <2> HIDE DEF next
  <2> QED
    BY <2>1, <2>3, UpdateSound
<1>2. ASSUME NEW target \in Fd, HandleKick(fd, c, target) PROVE AllSound' /\ PendingAreOutside'
  <2>1. /\ clients' = clients /\ pendingJoins' = pendingJoins
        /\ Leave(target, {c})
    BY <1>2 DEF HandleKick
  <2>2. /\ AllSound'
        /\ \A d \in DOMAIN channels' :
              /\ d \in DOMAIN channels
              /\ Range(channels'[d].members) \subseteq Range(channels[d].members)
    BY <2>1, LeaveSound DEF IInv, Live
  <2>3. PendingAreOutside'
    BY <2>1, <2>2 DEF IInv, PendingAreOutside, Registered, Live, OnChannel, Exists, HasClient
  <2> QED
    BY <2>2, <2>3
<1>3. ASSUME NEW target \in Fd, HandleInvite(fd, c, target) PROVE AllSound' /\ PendingAreOutside'
  <2> DEFINE next == [channels[c] EXCEPT !.invited = @ \cup {target}]
  <2>1. /\ c \in DOMAIN channels
        /\ target \in DOMAIN clients
        /\ channels' = [channels EXCEPT ![c] = next]
        /\ clients' = clients /\ pendingJoins' = pendingJoins
    BY <1>3 DEF HandleInvite, OnChannel, Exists, Designated, Live
  <2>2. Sound(clients, channels[c])
    BY <2>1 DEF IInv, AllSound
  <2>3. Sound(clients, next) /\ next.members = channels[c].members
    BY <2>1, <2>2 DEF Sound, Ranked, ChannelRecord
  <2> HIDE DEF next
  <2> QED
    BY <2>1, <2>3, UpdateSound
<1> QED
  BY <1>1, <1>2, <1>3, StepGiveOperator, StepTakeOperator DEF Ruling

(* -i, and the waiting clients come in together.                            *)
LEMMA StepClearInviteOnly ==
    ASSUME IInv, NEW fd \in Fd, NEW c \in ChannelName, ClearInviteOnly(fd, c)
    PROVE  AllSound' /\ PendingAreOutside'
<1> DEFINE open == [channels[c] EXCEPT !.inviteOnly = FALSE]
<1>1. /\ c \in DOMAIN channels
      /\ clients' = clients
      /\ pendingJoins' = [pendingJoins EXCEPT ![c] = {}]
  BY DEF ClearInviteOnly, MayChangeMode, OnChannel, Exists
<1>2. PICK arrivals \in Ascending(Admissible(c)) :
         channels' = [channels EXCEPT ![c] = Admit(clients, open, arrivals)]
  BY <1>1 DEF ClearInviteOnly
<1>3. Sound(clients, channels[c])
  BY <1>1 DEF IInv, AllSound
<1>4. Sound(clients, open) /\ open.members = channels[c].members
  <2>1. /\ open \in ChannelRecord
        /\ open.members = channels[c].members /\ open.operators = channels[c].operators
        /\ open.halfOperators = channels[c].halfOperators /\ open.invited = channels[c].invited
    BY <1>3 DEF Sound, Ranked, ChannelRecord
  <2> QED
    BY <1>3, <2>1, ModeSound
<1> HIDE DEF open
<1>5. arrivals \in Seq(Fd)
  BY AscendingType DEF IInv
<1>6. \A x \in Range(arrivals) : Registered(x) /\ x \notin Range(open.members)
  <2>1. \A i \in DOMAIN arrivals : arrivals[i] \in Admissible(c)
    BY DEF Ascending
  <2>2. \A x \in Admissible(c) : Registered(x) /\ ~OnChannel(x, c)
    BY DEF Admissible, Waiting
  <2> QED
    BY <1>1, <1>4, <2>1, <2>2 DEF Range, OnChannel, Exists, HasClient
<1>7. IsInjective(arrivals)
  <2>1. ASSUME NEW i \in DOMAIN arrivals, NEW j \in DOMAIN arrivals, arrivals[i] = arrivals[j]
        PROVE  i = j
    <3>1. i \in Nat /\ j \in Nat /\ arrivals[i] \in Nat /\ arrivals[j] \in Nat
      <4>1. DOMAIN arrivals = 1..Len(arrivals) /\ Len(arrivals) \in Nat
        BY <1>5, LenProperties
      <4>2. arrivals[i] \in Fd /\ arrivals[j] \in Fd
        BY <1>5, <4>1, ElementOfSeq
      <4>3. i \in Nat /\ j \in Nat
        BY <4>1
      <4> QED
        BY <4>2, <4>3, FdAssumption
    <3>2. /\ i < j => arrivals[i] < arrivals[j]
          /\ j < i => arrivals[j] < arrivals[i]
      BY DEF Ascending
    <3> QED
      BY <2>1, <3>1, <3>2
  <2> QED
    BY <2>1 DEF IsInjective
<1>8. \A a, b \in Range(open.members) :
        a \in DOMAIN clients /\ (clients[a].nick = Bot /\ clients[b].nick = Bot => a = b)
  BY <1>4, NickAssumption DEF Sound, Ranked, IInv, NicknamesUnique, Live
<1>9. Sound(clients, Admit(clients, open, arrivals))
  <2>1. \A m \in Range(arrivals) : m \in DOMAIN clients /\ clients[m].registered
    BY <1>6 DEF Registered, Live
  <2>2. Range(arrivals) \cap Range(open.members) = {}
    BY <1>6
  <2> QED
    BY <1>4, <1>5, <1>7, <1>8, <2>1, <2>2, AdmitSound DEF Sound
<1> QED
  BY <1>1, <1>2, <1>9, UpdateSound

(* The other modes keep channels and retries sound.                        *)
LEMMA StepChangingMode ==
    ASSUME IInv, TypeOK', NEW fd \in Fd, NEW c \in ChannelName, ChangingMode(fd, c)
    PROVE  AllSound' /\ PendingAreOutside'
<1>1. CASE ClearInviteOnly(fd, c)
  BY <1>1, StepClearInviteOnly
<1>2. CASE ~ClearInviteOnly(fd, c)
  <2>1. /\ c \in DOMAIN channels
        /\ clients' = clients /\ pendingJoins' = pendingJoins
    BY <1>2 DEF ChangingMode, SetTopicRestricted, SetInviteOnly, SetKey, RemoveKey,
                SetLimit, RemoveLimit, MayChangeMode, OnChannel, Exists
  <2>2. Sound(clients, channels[c])
    BY <2>1 DEF IInv, AllSound
  <2>3. /\ channels' = [channels EXCEPT ![c] = channels'[c]]
        /\ channels'[c].members = channels[c].members
        /\ channels'[c].operators = channels[c].operators
        /\ channels'[c].halfOperators = channels[c].halfOperators
        /\ channels'[c].invited = channels[c].invited
    BY <1>2, <2>1, <2>2 DEF ChangingMode, SetTopicRestricted, SetInviteOnly, SetKey, RemoveKey,
                            SetLimit, RemoveLimit, Sound, Ranked, ChannelRecord
  <2>4. channels'[c] \in ChannelRecord
    BY <2>1, <2>3 DEF TypeOK
  <2>5. Sound(clients, channels'[c])
    BY <2>2, <2>3, <2>4, ModeSound
  <2> QED
    BY <2>1, <2>3, <2>5, UpdateSound
<1> QED
  BY <1>1, <1>2

(* NICK is the only command that changes a nickname, and it looks for the   *)
(* nickname among all other clients.                                        *)
LEMMA NickNext ==
    ASSUME TypeOK, NicknamesUnique, [Next]_vars
    PROVE  NicknamesUnique'
<1>1. ASSUME NEW cl, NEW fd \in Live, CompleteRegistration(cl, fd), cl \in [Live -> ClientRecord],
             \A a, b \in Live : cl[a].nick = cl[b].nick => a = b \/ cl[a].nick = NoNick
      PROVE  NicknamesUnique'
  <2>1. Live' = Live /\ \A x \in Live : clients'[x].nick = cl[x].nick
    BY <1>1 DEF CompleteRegistration, Live, ClientRecord
  <2> QED
    BY <1>1, <2>1 DEF NicknamesUnique
<1>2. ASSUME NEW fd \in Fd, NEW nick \in Nick, HandleNick(fd, nick) PROVE NicknamesUnique'
  <2> DEFINE cl == [clients EXCEPT ![fd].nick = nick]
  <2>1. /\ fd \in Live
        /\ cl \in [Live -> ClientRecord]
        /\ cl[fd].nick = nick
        /\ \A x \in Live \ {fd} : cl[x].nick = clients[x].nick /\ cl[x].nick # nick
    BY <1>2 DEF HandleNick, HeldByOther, TypeOK, ClientRecord
  <2> HIDE DEF cl
  <2>2. CompleteRegistration(cl, fd)
    BY <1>2 DEF HandleNick, cl
  <2> QED
    BY <1>1, <2>1, <2>2 DEF NicknamesUnique
<1>3. ASSUME NEW fd \in Fd, HandleUser(fd) PROVE NicknamesUnique'
  <2> DEFINE cl == [clients EXCEPT ![fd].user = TRUE]
  <2>1. /\ fd \in Live
        /\ cl \in [Live -> ClientRecord]
        /\ \A x \in Live : cl[x].nick = clients[x].nick
    BY <1>3 DEF HandleUser, TypeOK, ClientRecord
  <2> HIDE DEF cl
  <2>2. CompleteRegistration(cl, fd)
    BY <1>3 DEF HandleUser, cl
  <2> QED
    BY <1>1, <2>1, <2>2 DEF NicknamesUnique
<1>4. ASSUME NEW fd \in Fd,
             HandlePass(fd) \/ \E nick \in Nick : NickInUse(fd, nick)
      PROVE  NicknamesUnique'
  <2>1. Live' = Live /\ \A x \in Live : clients'[x].nick = clients[x].nick
    BY <1>4 DEF HandlePass, NickInUse, TypeOK, Live, ClientRecord
  <2> QED
    BY <2>1 DEF NicknamesUnique
<1>5. ASSUME NEW fd \in Fd, Connection(fd) PROVE NicknamesUnique'
  BY <1>5 DEF Connection, AcceptNewClient, DisconnectClient, HandleQuit, NewClient,
              NicknamesUnique, Live
<1>6. ASSUME clients' = clients PROVE NicknamesUnique'
  BY <1>6 DEF NicknamesUnique, Live
<1>7. ASSUME NEW fd \in Fd, Joining(fd) \/ \E c \in ChannelName : Ruling(fd, c) \/ ChangingMode(fd, c)
      PROVE  clients' = clients
  BY <1>7 DEF Joining, HandleJoin, HandlePart, Ruling, HandleTopic, HandleKick, HandleInvite,
              GiveOperator, TakeOperator, ChangingMode, SetTopicRestricted, SetInviteOnly,
              ClearInviteOnly, SetKey, RemoveKey, SetLimit, RemoveLimit
<1> QED
  BY <1>2, <1>3, <1>4, <1>5, <1>6, <1>7 DEF Next, Registering, vars

(* The inductive invariant holds at the start.                             *)
LEMMA InvInit == Init => IInv
BY TypeInit DEF Init, IInv, NicknamesUnique, AllSound, PendingAreOutside, Live

(* Every step keeps the inductive invariant.                               *)
LEMMA InvNext == IInv /\ [Next]_vars => IInv'
<1>1. ASSUME IInv, [Next]_vars PROVE TypeOK' /\ NicknamesUnique'
  BY <1>1, TypeNext, NickNext DEF IInv
<1>2. ASSUME IInv, TypeOK', NEW fd \in Fd,
             \/ Connection(fd) \/ Registering(fd) \/ Joining(fd)
             \/ \E c \in ChannelName : Ruling(fd, c) \/ ChangingMode(fd, c)
      PROVE  AllSound' /\ PendingAreOutside'
  BY <1>2, StepConnection, StepRegistering, StepJoining, StepRuling, StepChangingMode
<1>3. ASSUME IInv, UNCHANGED vars PROVE AllSound' /\ PendingAreOutside'
  BY <1>3 DEF IInv, AllSound, PendingAreOutside, Registered, Live, OnChannel, Exists, vars
<1> QED
  BY <1>1, <1>2, <1>3 DEF Next, IInv

(* The inductive invariant holds always.                                   *)
LEMMA InvCorrect == Spec => []IInv
BY InvInit, InvNext, PTL DEF Spec

-----------------------------------------------------------------------------
(* The safety invariants *)

(* No two connections bear the same nickname (handleNick).                  *)
THEOREM NicknamesStayUnique == Spec => []NicknamesUnique
<1>1. IInv => NicknamesUnique
  BY DEF IInv
<1> QED
  BY <1>1, InvCorrect, PTL

(* A descriptor that accept() gives out again is in no channel's lists.     *)
THEOREM NoFdStaysStale == Spec => []NoStaleFd
<1>1. IInv => NoStaleFd
  BY SoundChannels DEF IInv
<1> QED
  BY <1>1, InvCorrect, PTL

(* The retries -i makes are for clients that are connected and outside.     *)
THEOREM PendingStayOutside == Spec => []PendingAreOutside
<1>1. IInv => PendingAreOutside
  BY DEF IInv
<1> QED
  BY <1>1, InvCorrect, PTL

(* A channel without members is erased in the step that empties it.         *)
THEOREM ChannelsStayInhabited == Spec => []ChannelsInhabited
<1>1. IInv => ChannelsInhabited
  BY SoundChannels DEF IInv
<1> QED
  BY <1>1, InvCorrect, PTL

(* Every list of a channel names a client once: one erase removes it.       *)
THEOREM ListsHaveNoDuplicates == Spec => []NoDuplicates
<1>1. IInv => NoDuplicates
  BY SoundChannels DEF IInv
<1> QED
  BY <1>1, InvCorrect, PTL

(* The ranks a channel remembers are those of members.                      *)
THEOREM ListsStayConsistent == Spec => []RanksAreMembers
<1>1. IInv => RanksAreMembers
  BY SoundChannels DEF IInv
<1> QED
  BY <1>1, InvCorrect, PTL

(* Half-operators are never left without an operator.                       *)
THEOREM HalfOperatorsKeepOperator == Spec => []HalfOperatorsHaveOperator
<1>1. IInv => HalfOperatorsHaveOperator
  BY SoundChannels DEF IInv
<1> QED
  BY <1>1, InvCorrect, PTL

(* A channel has at most two operators, whoever renames itself ircbot.      *)
THEOREM NeverThreeOperators == Spec => []AtMostTwoOperators
<1>1. IInv => AtMostTwoOperators
  BY SoundChannels DEF IInv
<1> QED
  BY <1>1, InvCorrect, PTL

-----------------------------------------------------------------------------
(* Registration *)

(* Why PASS can never be the last to arrive: USER is refused before it.     *)
Accepted(client) ==
    /\ client.registered <=> client.pass /\ client.nick # NoNick /\ client.user
    /\ client.user => client.pass

AllAccepted == \A fd \in Live : Accepted(clients[fd])

(* NICK and USER end the registration whenever they complete it.            *)
LEMMA CompleteRegistrationAccepted ==
    ASSUME NEW cl \in [Live -> ClientRecord], NEW fd \in Live, CompleteRegistration(cl, fd),
           \A x \in Live \ {fd} : Accepted(cl[x]),
           cl[fd].user => cl[fd].pass,
           cl[fd].registered => cl[fd].pass /\ cl[fd].nick # NoNick /\ cl[fd].user
    PROVE  AllAccepted'
<1>1. CASE CanRegister(cl[fd])
  <2>1. clients' = [cl EXCEPT ![fd].registered = TRUE]
    BY <1>1 DEF CompleteRegistration
  <2>2. Accepted(clients'[fd])
    BY <1>1, <2>1 DEF CanRegister, Accepted, ClientRecord
  <2> QED
    BY <2>1, <2>2 DEF AllAccepted, Live
<1>2. CASE ~CanRegister(cl[fd])
  <2>1. clients' = cl
    BY <1>2 DEF CompleteRegistration
  <2>2. cl[fd] \in ClientRecord
    OBVIOUS
  <2>3. Accepted(cl[fd])
    BY <1>2, <2>2 DEF CanRegister, Accepted, ClientRecord
  <2> QED
    BY <2>1, <2>3 DEF AllAccepted, Live
<1> QED
  BY <1>1, <1>2

(* Every step leaves each client registered exactly when it is complete.    *)
LEMMA AcceptedNext ==
    ASSUME TypeOK, AllAccepted, [Next]_vars
    PROVE  AllAccepted'
<1>1. ASSUME NEW fd \in Fd, NEW nick \in Nick, HandleNick(fd, nick) PROVE AllAccepted'
  <2> DEFINE cl == [clients EXCEPT ![fd].nick = nick]
  <2>1. /\ fd \in Live
        /\ cl \in [Live -> ClientRecord]
        /\ \A x \in Live \ {fd} : cl[x] = clients[x]
        /\ cl[fd] = [clients[fd] EXCEPT !.nick = nick]
    BY <1>1 DEF HandleNick, TypeOK, ClientRecord
  <2>2. /\ cl[fd].user => cl[fd].pass
        /\ cl[fd].registered => cl[fd].pass /\ cl[fd].nick # NoNick /\ cl[fd].user
    BY <2>1, NickAssumption DEF AllAccepted, Accepted, TypeOK, ClientRecord
  <2>3. \A x \in Live \ {fd} : Accepted(cl[x])
    BY <2>1 DEF AllAccepted
  <2>4. CompleteRegistration(cl, fd)
    BY <1>1 DEF HandleNick
  <2> HIDE DEF cl
  <2> QED
    BY <2>1, <2>2, <2>3, <2>4, CompleteRegistrationAccepted
<1>2. ASSUME NEW fd \in Fd, HandleUser(fd) PROVE AllAccepted'
  <2> DEFINE cl == [clients EXCEPT ![fd].user = TRUE]
  <2>1. /\ fd \in Live
        /\ clients[fd].pass
        /\ cl \in [Live -> ClientRecord]
        /\ \A x \in Live \ {fd} : cl[x] = clients[x]
        /\ cl[fd] = [clients[fd] EXCEPT !.user = TRUE]
    BY <1>2 DEF HandleUser, TypeOK, ClientRecord
  <2>2. /\ cl[fd].user => cl[fd].pass
        /\ cl[fd].registered => cl[fd].pass /\ cl[fd].nick # NoNick /\ cl[fd].user
    BY <2>1 DEF AllAccepted, Accepted, TypeOK, ClientRecord
  <2>3. \A x \in Live \ {fd} : Accepted(cl[x])
    BY <2>1 DEF AllAccepted
  <2>4. CompleteRegistration(cl, fd)
    BY <1>2 DEF HandleUser
  <2> HIDE DEF cl
  <2> QED
    BY <2>1, <2>2, <2>3, <2>4, CompleteRegistrationAccepted
<1>3. ASSUME NEW fd \in Fd,
             HandlePass(fd) \/ \E nick \in Nick : NickInUse(fd, nick)
      PROVE  AllAccepted'
  <2>1. CASE HandlePass(fd)
    BY <2>1 DEF HandlePass, TypeOK, Live, ClientRecord, AllAccepted, Accepted
  <2>2. CASE \E nick \in Nick : NickInUse(fd, nick)
    BY <2>2 DEF NickInUse, TypeOK, Live, ClientRecord, AllAccepted, Accepted
  <2> QED
    BY <1>3, <2>1, <2>2
<1>4. ASSUME NEW fd \in Fd, Connection(fd) PROVE AllAccepted'
  BY <1>4 DEF Connection, AcceptNewClient, DisconnectClient, HandleQuit, NewClient,
              AllAccepted, Accepted, Live
<1>5. ASSUME clients' = clients PROVE AllAccepted'
  BY <1>5 DEF AllAccepted, Live
<1>6. ASSUME NEW fd \in Fd, Joining(fd) \/ \E c \in ChannelName : Ruling(fd, c) \/ ChangingMode(fd, c)
      PROVE  clients' = clients
  BY <1>6 DEF Joining, HandleJoin, HandlePart, Ruling, HandleTopic, HandleKick, HandleInvite,
              GiveOperator, TakeOperator, ChangingMode, SetTopicRestricted, SetInviteOnly,
              ClearInviteOnly, SetKey, RemoveKey, SetLimit, RemoveLimit
<1> QED
  BY <1>1, <1>2, <1>3, <1>4, <1>5, <1>6 DEF Next, Registering, vars

(* No client is left unregistered with all three commands accepted, and     *)
(* none is registered without one of them (completeRegistration).           *)
THEOREM RegistrationIsExact == Spec => []RegisteredExactly
<1>1. Init => AllAccepted
  BY DEF Init, AllAccepted, Live
<1>2. TypeOK /\ AllAccepted /\ [Next]_vars => AllAccepted'
  BY AcceptedNext
<1>3. AllAccepted => RegisteredExactly
  BY DEF AllAccepted, Accepted, RegisteredExactly
<1> QED
  BY <1>1, <1>2, <1>3, TypeCorrect, PTL DEF Spec
=============================================================================
