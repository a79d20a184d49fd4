---------------------------- MODULE ViewTheorems ----------------------------
(***************************************************************************)
(* What clients are told adds up to the state of the server, for any set   *)
(* of descriptors, nicknames, channels, keys, topics and limits.           *)
(*                                                                         *)
(* The announcements speak of nicknames and the server of descriptors; the *)
(* proofs describe the picture of a client by sets of descriptors and      *)
(* follow each message on these.                                           *)
(*                                                                         *)
(* What -i tells follows the clients it lets in one by one, and so does    *)
(* the last section, on what -i does.                                      *)
(***************************************************************************)
EXTENDS ClientViews, GateTheorems

\* The picture in which the descriptors M are members, O operators and H
\* half-operators.
Picture(cl, M, O, H) == [members |-> Names(cl, M), ops |-> Names(cl, O), halfs |-> Names(cl, H)]

\* Nicknames tell the clients of S apart.
Distinct(cl, S) == \A a, b \in S : cl[a].nick = cl[b].nick => a = b

\* A channel with members M, operators O and half-operators H whose clients,
\* and x, have different nicknames.
Told(cl, M, O, H, x) == O \subseteq M /\ H \subseteq M /\ Distinct(cl, M \cup {x})

\* The half-operators that 353 shows as such.
Halfs(ch) == Range(ch.halfOperators) \ ch.operators

\* The picture of member w is right, but for the operator that came in when w was
\* alone.
Pictured(cl, ch, w, view) ==
    \E O \in SUBSET ch.operators :
        /\ view = Picture(cl, Range(ch.members), O, Halfs(ch))
        /\ \A o \in ch.operators \ O : AreFirst(ch.members, w, o)

\* The members of ch, and only they, have a picture, and a right one.
Pictures(cl, ch, v) ==
    /\ v = [w \in Range(ch.members) |-> v[w]]
    /\ \A w \in Range(ch.members) : Pictured(cl, ch, w, v[w])

-----------------------------------------------------------------------------
(* Messages, as changes of sets of descriptors *)

\* JOIN of x.
LEMMA PictureJoined ==
    ASSUME NEW cl, NEW M, NEW O, NEW H, NEW x
    PROVE  Joined(Picture(cl, M, O, H), cl[x].nick) = Picture(cl, M \cup {x}, O, H)
<1>1. Names(cl, M \cup {x}) = Names(cl, M) \cup {cl[x].nick}
  BY DEF Names
<1> QED
  BY <1>1 DEF Joined, Picture

\* PART, KICK or QUIT of x.
LEMMA PictureGone ==
    ASSUME NEW cl, NEW M, NEW O, NEW H, NEW x, Told(cl, M, O, H, x)
    PROVE  Gone(Picture(cl, M, O, H), cl[x].nick) = Picture(cl, M \ {x}, O \ {x}, H \ {x})
<1>1. ASSUME NEW S \in SUBSET (M \cup {x})
      PROVE  Names(cl, S \ {x}) = Names(cl, S) \ {cl[x].nick}
  BY DEF Names, Distinct, Told
<1>2. /\ Names(cl, M \ {x}) = Names(cl, M) \ {cl[x].nick}
      /\ Names(cl, O \ {x}) = Names(cl, O) \ {cl[x].nick}
      /\ Names(cl, H \ {x}) = Names(cl, H) \ {cl[x].nick}
  BY <1>1 DEF Told
<1> QED
  BY <1>2 DEF Gone, Picture

\* What a MODE on x does to a picture.
Ruled(cl, M, O, H, x) ==
    /\ ModeOn(Picture(cl, M, O, H), cl[x].nick, "+o") = Picture(cl, M, O \cup {x}, H)
    /\ ModeOn(Picture(cl, M, O, H), cl[x].nick, "-o") = Picture(cl, M, O \ {x}, H)
    /\ ModeOn(Picture(cl, M, O, H), cl[x].nick, "+h") = Picture(cl, M, O, H \cup {x})
    /\ ModeOn(Picture(cl, M, O, H), cl[x].nick, "-h") = Picture(cl, M, O, H \ {x})

\* MODE on x.
LEMMA PictureMode ==
    ASSUME NEW cl, NEW M, NEW O, NEW H, NEW x, Told(cl, M, O, H, x)
    PROVE  Ruled(cl, M, O, H, x)
<1>1. ASSUME NEW S \in SUBSET (M \cup {x})
      PROVE  /\ Names(cl, S \ {x}) = Names(cl, S) \ {cl[x].nick}
             /\ Names(cl, S \cup {x}) = Names(cl, S) \cup {cl[x].nick}
  BY DEF Names, Distinct, Told
<1>2. /\ Names(cl, O \ {x}) = Names(cl, O) \ {cl[x].nick}
      /\ Names(cl, O \cup {x}) = Names(cl, O) \cup {cl[x].nick}
      /\ Names(cl, H \ {x}) = Names(cl, H) \ {cl[x].nick}
      /\ Names(cl, H \cup {x}) = Names(cl, H) \cup {cl[x].nick}
  BY <1>1 DEF Told
<1>3. ModeOn(Picture(cl, M, O, H), cl[x].nick, "+o") = Picture(cl, M, O \cup {x}, H)
  BY <1>2 DEF ModeOn, Picture
<1>4. ModeOn(Picture(cl, M, O, H), cl[x].nick, "-o") = Picture(cl, M, O \ {x}, H)
  BY <1>2 DEF ModeOn, Picture
<1>5. ModeOn(Picture(cl, M, O, H), cl[x].nick, "+h") = Picture(cl, M, O, H \cup {x})
  BY <1>2 DEF ModeOn, Picture
<1>6. ModeOn(Picture(cl, M, O, H), cl[x].nick, "-h") = Picture(cl, M, O, H \ {x})
  BY <1>2 DEF ModeOn, Picture
<1> QED
  BY <1>3, <1>4, <1>5, <1>6 DEF Ruled

\* NICK of x.
LEMMA PictureRenamed ==
    ASSUME NEW cl, NEW M, NEW O, NEW H, NEW x, Told(cl, M, O, H, x), NEW cm,
           \A y \in M \ {x} : cm[y].nick = cl[y].nick
    PROVE  Renamed(Picture(cl, M, O, H), cl[x].nick, cm[x].nick) = Picture(cm, M, O, H)
<1> DEFINE Rename(S) == IF cl[x].nick \in S THEN (S \ {cl[x].nick}) \cup {cm[x].nick} ELSE S
<1>1. ASSUME NEW S \in SUBSET M
      PROVE  Names(cm, S) = Rename(Names(cl, S))
  <2>1. CASE x \in S
    <3>1. cl[x].nick \in Names(cl, S)
      BY <2>1 DEF Names
    <3>2. Names(cl, S) \ {cl[x].nick} = Names(cl, S \ {x})
      BY <2>1 DEF Names, Distinct, Told
    <3>3. Names(cl, S \ {x}) = Names(cm, S \ {x})
      BY DEF Names
    <3>4. Names(cm, S) = Names(cm, S \ {x}) \cup {cm[x].nick}
      BY <2>1 DEF Names
    <3> QED
      BY <3>1, <3>2, <3>3, <3>4
  <2>2. CASE x \notin S
    <3>1. cl[x].nick \notin Names(cl, S)
      BY <2>2 DEF Names, Distinct, Told
    <3>2. Names(cm, S) = Names(cl, S)
      BY <2>2 DEF Names
    <3> QED
      BY <3>1, <3>2
  <2> QED
    BY <2>1, <2>2
<1>2. /\ Names(cm, M) = Rename(Names(cl, M))
      /\ Names(cm, O) = Rename(Names(cl, O))
      /\ Names(cm, H) = Rename(Names(cl, H))
  BY <1>1 DEF Told
<1> QED
  BY <1>2 DEF Renamed, Picture

-----------------------------------------------------------------------------
(* The pictures of one channel *)

\* What is no matter of the pictures.
LEMMA PicturesFrame ==
    ASSUME NEW cl, NEW cm, NEW ch, NEW next, NEW v, Pictures(cl, ch, v),
           ch.operators \subseteq Range(ch.members),
           Range(ch.halfOperators) \subseteq Range(ch.members),
           \A m \in Range(ch.members) : cm[m].nick = cl[m].nick,
           next.members = ch.members, next.operators = ch.operators,
           next.halfOperators = ch.halfOperators
    PROVE  Pictures(cm, next, v)
<1>1. ASSUME NEW S \in SUBSET Range(ch.members)
      PROVE  Names(cm, S) = Names(cl, S)
  BY DEF Names
<1>2. ASSUME NEW w, NEW view, Pictured(cl, ch, w, view)
      PROVE  Pictured(cm, next, w, view)
  <2>1. PICK O \in SUBSET ch.operators :
           /\ view = Picture(cl, Range(ch.members), O, Halfs(ch))
           /\ \A o \in ch.operators \ O : AreFirst(ch.members, w, o)
    BY <1>2 DEF Pictured
  <2>2. Halfs(next) = Halfs(ch) /\ Halfs(ch) \subseteq Range(ch.members)
    BY DEF Halfs
  <2>3. O \subseteq Range(ch.members)
    OBVIOUS
  <2>4. view = Picture(cm, Range(next.members), O, Halfs(next))
    <3>1. /\ Names(cm, Range(ch.members)) = Names(cl, Range(ch.members))
          /\ Names(cm, O) = Names(cl, O)
          /\ Names(cm, Halfs(ch)) = Names(cl, Halfs(ch))
      BY <1>1, <2>2, <2>3
    <3> QED
      BY <2>1, <2>2, <3>1 DEF Picture
  <2> QED
    BY <2>1, <2>4 DEF Pictured
<1> QED
  BY <1>2 DEF Pictures

\* A channel without members has no pictures.
LEMMA NoPictures ==
    ASSUME NEW cl, NEW ch, Range(ch.members) = {}, NEW v
    PROVE  Pictures(cl, ch, v) <=> v = [w \in {} |-> {}]
<1>1. [w \in {} |-> v[w]] = [w \in {} |-> {}]
  OBVIOUS
<1> QED
  BY <1>1 DEF Pictures

\* A newcomer comes last, and is the second if one was alone.
LEMMA ComesLast ==
    ASSUME NEW s \in Seq(Fd), NEW fd \in Fd
    PROVE  /\ Range(s \o <<fd>>) = Range(s) \cup {fd}
           /\ \A a, b : AreFirst(s, a, b) => AreFirst(s \o <<fd>>, a, b)
           /\ Len(s) <= 1 => \A a \in Range(s) : AreFirst(s \o <<fd>>, a, fd)
<1> DEFINE t == s \o <<fd>>
<1>1. /\ Len(s) \in Nat /\ DOMAIN s = 1..Len(s) /\ DOMAIN t = 1..Len(s)+1
      /\ Len(t) = Len(s) + 1
      /\ \A i \in 1..Len(s) : t[i] = s[i]
      /\ t[Len(s)+1] = fd
  <2>1. t = Append(s, fd)
    BY AppendIsConcat
  <2> HIDE DEF t
  <2> QED
    BY <2>1, AppendProperties, LenProperties
<1> HIDE DEF t
<1>2. Range(t) = Range(s) \cup {fd}
  <2>1. Range(t) \subseteq Range(s) \cup {fd}
    <3>1. \A i \in DOMAIN t : i \in DOMAIN s \/ i = Len(s) + 1
      BY <1>1
    <3> QED
      BY <1>1, <3>1 DEF Range
  <2>2. Range(s) \subseteq Range(t)
    <3>1. \A i \in DOMAIN s : i \in DOMAIN t
      BY <1>1
    <3> QED
      BY <1>1, <3>1 DEF Range
  <2>3. fd \in Range(t)
    <3>1. Len(s) + 1 \in DOMAIN t
      BY <1>1
    <3> QED
      BY <1>1, <3>1 DEF Range
  <2> QED
    BY <2>1, <2>2, <2>3
<1>3. \A a, b : AreFirst(s, a, b) => AreFirst(t, a, b)
  <2>1. Len(s) > 1 => 1 \in 1..Len(s) /\ 2 \in 1..Len(s) /\ Len(t) > 1
    BY <1>1
  <2> QED
    BY <1>1, <2>1 DEF AreFirst
<1>4. ASSUME Len(s) <= 1, NEW a \in Range(s)
      PROVE  AreFirst(t, a, fd)
  <2>1. PICK i \in 1..Len(s) : s[i] = a
    BY <1>1 DEF Range
  <2>2. i = 1 /\ Len(s) = 1
    BY <1>1, <1>4, <2>1
  <2> QED
    BY <1>1, <2>1, <2>2 DEF AreFirst
<1> QED
  BY <1>2, <1>3, <1>4 DEF t

\* Nicknames tell members apart, so ircbot is alone where no human is.
LEMMA LoneBot ==
    ASSUME NEW cl, NEW s \in Seq(Fd), IsInjective(s), Distinct(cl, Range(s)),
           Range(s) \subseteq DOMAIN cl, \A m \in Range(s) : ~IsHuman(cl, m)
    PROVE  Len(s) <= 1
<1>1. Len(s) \in Nat /\ DOMAIN s = 1..Len(s)
  BY LenProperties
<1>2. SUFFICES ASSUME Len(s) > 1 PROVE FALSE
  BY <1>1
<1>3. 1 \in DOMAIN s /\ 2 \in DOMAIN s
  BY <1>1, <1>2
<1>4. s[1] \in Range(s) /\ s[2] \in Range(s)
  BY <1>3 DEF Range
<1>5. cl[s[1]].nick = Bot /\ cl[s[2]].nick = Bot
  BY <1>4 DEF IsHuman
<1>6. s[1] = s[2]
  BY <1>4, <1>5 DEF Distinct
<1> QED
  BY <1>3, <1>6 DEF IsInjective

\* Who goes leaves the first two the first two, unless it is one of them.
LEMMA EraseFirstTwo ==
    ASSUME NEW S, NEW s \in Seq(S), NEW e, NEW a, NEW b, a # e, b # e, AreFirst(s, a, b)
    PROVE  AreFirst(Erase(s, e), a, b)
<1>1. CASE ~\E k \in DOMAIN s : s[k] = e
  BY <1>1 DEF Erase
<1>2. CASE \E k \in DOMAIN s : s[k] = e
  <2>1. PICK k \in 1..Len(s) : s[k] = e /\ Erase(s, e) = RemoveAt(s, k)
    BY <1>2, EraseFirst
  <2> DEFINE t == RemoveAt(s, k)
  <2>2. /\ Len(s) \in Nat /\ t \in Seq(S)
        /\ DOMAIN t = 1..Len(s)-1
        /\ \A i \in 1..Len(s)-1 : t[i] = IF i < k THEN s[i] ELSE s[i+1]
    BY RemoveAtProperties, LenProperties
  <2> HIDE DEF t
  <2>3. k # 1 /\ k # 2 /\ Len(s) > 1
    BY <2>1 DEF AreFirst
  <2>4. k > 2 /\ 1 \in 1..Len(s)-1 /\ 2 \in 1..Len(s)-1
    BY <2>1, <2>2, <2>3
  <2>5. t[1] = s[1] /\ t[2] = s[2]
    BY <2>1, <2>2, <2>4
  <2>6. Len(t) > 1
    BY <2>2, <2>4, LenProperties
  <2> QED
    BY <2>1, <2>5, <2>6 DEF AreFirst, t
<1> QED
  BY <1>1, <1>2

\* Somebody comes in: JOIN to the members, the names to the newcomer.
LEMMA PicturesJoin ==
    ASSUME NEW cl, NEW ch, NEW v, Pictures(cl, ch, v),
           NEW fd \in Fd, fd \notin Range(ch.members),
           Range(ch.halfOperators) \subseteq Range(ch.members), NEW next,
           Range(next.members) = Range(ch.members) \cup {fd},
           \A a, b : AreFirst(ch.members, a, b) => AreFirst(next.members, a, b),
           fd \in next.operators \ ch.operators =>
              \A a \in Range(ch.members) : AreFirst(next.members, a, fd),
           next.halfOperators = ch.halfOperators,
           ch.operators \subseteq next.operators, next.operators \subseteq ch.operators \cup {fd}
    PROVE  Pictures(cl, next, TellJoin(cl, next, v, fd))
<1> DEFINE u == TellJoin(cl, next, v, fd)
<1>2. DOMAIN v = Range(ch.members)
  BY DEF Pictures
<1>3. /\ u = [w \in Range(next.members) |-> u[w]]
      /\ u[fd] = Listed(cl, next)
      /\ \A w \in Range(ch.members) : u[w] = Joined(v[w], cl[fd].nick)
  BY <1>2 DEF TellJoin, HasClient
<1> HIDE DEF u
<1>4. Halfs(next) = Halfs(ch)
  BY DEF Halfs
<1>5. Pictured(cl, next, fd, u[fd])
  <2>1. u[fd] = Picture(cl, Range(next.members), next.operators, Halfs(next))
    BY <1>3 DEF Listed, Picture, Halfs
  <2> QED
    BY <2>1 DEF Pictured
<1>6. ASSUME NEW w \in Range(ch.members)
      PROVE  Pictured(cl, next, w, u[w])
  <2>1. PICK O \in SUBSET ch.operators :
           /\ v[w] = Picture(cl, Range(ch.members), O, Halfs(ch))
           /\ \A o \in ch.operators \ O : AreFirst(ch.members, w, o)
    BY DEF Pictures, Pictured
  <2>2. u[w] = Picture(cl, Range(next.members), O, Halfs(next))
    <3> DEFINE M == Range(ch.members)
               H == Halfs(ch)
    <3> HIDE DEF M, H
    <3>1. Joined(Picture(cl, M, O, H), cl[fd].nick) = Picture(cl, M \cup {fd}, O, H)
      BY PictureJoined
    <3>2. u[w] = Joined(v[w], cl[fd].nick)
      BY <1>3
    <3>3. v[w] = Picture(cl, M, O, H)
      BY <2>1 DEF M, H
    <3>4. u[w] = Picture(cl, M \cup {fd}, O, H)
      BY <3>1, <3>2, <3>3
    <3>5. M \cup {fd} = Range(next.members) /\ H = Halfs(next)
      BY <1>4 DEF M, H
    <3> QED
      BY <3>4, <3>5
  <2>3. \A o \in next.operators \ O : AreFirst(next.members, w, o)
    BY <2>1
  <2> QED
    BY <2>2, <2>3 DEF Pictured
<1> QED
  BY <1>3, <1>5, <1>6 DEF u, Pictures

\* The pictures of those that stay, told that x goes.
WithoutClient(cl, v, x) == [w \in DOMAIN v \ {x} |-> Gone(v[w], cl[x].nick)]

\* Somebody goes, and all that stay are told.
LEMMA PicturesGone ==
    ASSUME NEW cl, NEW ch, NEW v, Pictures(cl, ch, v), NEW fd,
           Distinct(cl, Range(ch.members) \cup {fd}),
           ch.operators \subseteq Range(ch.members),
           Range(ch.halfOperators) \subseteq Range(ch.members),
           NEW gone, Range(gone.members) = Range(ch.members) \ {fd},
           \A a, b \in Range(gone.members) :
              AreFirst(ch.members, a, b) => AreFirst(gone.members, a, b),
           gone.operators = ch.operators \ {fd},
           Range(gone.halfOperators) = Range(ch.halfOperators) \ {fd}
    PROVE  Pictures(cl, gone, WithoutClient(cl, v, fd))
<1> DEFINE u == WithoutClient(cl, v, fd)
<1>1. /\ u = [w \in Range(gone.members) |-> u[w]]
      /\ \A w \in Range(gone.members) : u[w] = Gone(v[w], cl[fd].nick)
  BY DEF Pictures, WithoutClient
<1> HIDE DEF u
<1>2. Halfs(gone) = Halfs(ch) \ {fd} /\ Halfs(ch) \subseteq Range(ch.members)
  BY DEF Halfs
<1>3. ASSUME NEW w \in Range(gone.members)
      PROVE  Pictured(cl, gone, w, u[w])
  <2>1. PICK O \in SUBSET ch.operators :
           /\ v[w] = Picture(cl, Range(ch.members), O, Halfs(ch))
           /\ \A o \in ch.operators \ O : AreFirst(ch.members, w, o)
    BY DEF Pictures, Pictured
  <2>2. O \subseteq Range(ch.members) /\ Distinct(cl, Range(ch.members) \cup {fd})
    OBVIOUS
  <2>3. Gone(Picture(cl, Range(ch.members), O, Halfs(ch)), cl[fd].nick)
            = Picture(cl, Range(ch.members) \ {fd}, O \ {fd}, Halfs(ch) \ {fd})
    <3> DEFINE M == Range(ch.members)
               H == Halfs(ch)
    <3>1. Told(cl, M, O, H, fd)
      BY <1>2, <2>2 DEF Told
    <3> HIDE DEF M, H
    <3>2. Gone(Picture(cl, M, O, H), cl[fd].nick) = Picture(cl, M \ {fd}, O \ {fd}, H \ {fd})
      BY <3>1, PictureGone
    <3> QED
      BY <3>2, Zenon DEF M, H
  <2>4. u[w] = Picture(cl, Range(gone.members), O \ {fd}, Halfs(gone))
    BY <1>1, <1>2, <2>1, <2>3
  <2>5. ASSUME NEW o \in gone.operators \ (O \ {fd})
        PROVE  AreFirst(gone.members, w, o)
    <3>1. AreFirst(ch.members, w, o) /\ o \in Range(gone.members) /\ o \in Range(ch.members)
      BY <2>1
    <3> QED
      BY <3>1
  <2>6. O \ {fd} \in SUBSET gone.operators
    OBVIOUS
  <2> QED
    BY <2>4, <2>5, <2>6 DEF Pictured
<1> QED
  BY <1>1, <1>3 DEF u, Pictures

\* A MODE on x is announced, and does what it says.
LEMMA PicturesMode ==
    ASSUME NEW cl, NEW ch, NEW v, Pictures(cl, ch, v),
           Distinct(cl, Range(ch.members)), NEW x \in Range(ch.members),
           ch.operators \subseteq Range(ch.members),
           Range(ch.halfOperators) \subseteq Range(ch.members),
           NEW to, to.members = ch.members,
           NEW next, next.members = ch.members, NEW mode,
           \/ /\ mode = "+o"
              /\ next.operators = ch.operators \cup {x} /\ Halfs(next) = Halfs(ch)
           \/ /\ mode = "-o"
              /\ next.operators = ch.operators \ {x} /\ Halfs(next) = Halfs(ch)
           \/ /\ mode = "+h"
              /\ next.operators = ch.operators /\ Halfs(next) = Halfs(ch) \cup {x}
           \/ /\ mode = "-h"
              /\ next.operators = ch.operators /\ Halfs(next) = Halfs(ch) \ {x}
    PROVE  Pictures(cl, next, TellMode(to, v, cl[x].nick, mode))
<1> DEFINE u == TellMode(to, v, cl[x].nick, mode)
           M == Range(ch.members)
<1>1. /\ u = [w \in M |-> u[w]]
      /\ \A w \in M : u[w] = ModeOn(v[w], cl[x].nick, mode)
  BY DEF Pictures, TellMode, HasClient
<1> HIDE DEF u
<1>2. Halfs(ch) \subseteq M /\ x \in M /\ Distinct(cl, M \cup {x})
  <2>1. M \cup {x} = M
    OBVIOUS
  <2> QED
    BY <2>1 DEF Halfs
<1>3. ASSUME NEW w \in M
      PROVE  Pictured(cl, next, w, u[w])
  <2>1. PICK O \in SUBSET ch.operators :
           /\ v[w] = Picture(cl, M, O, Halfs(ch))
           /\ \A o \in ch.operators \ O : AreFirst(ch.members, w, o)
    BY DEF Pictures, Pictured
  <2>2. O \in SUBSET M
    OBVIOUS
  <2> HIDE DEF M
  <2>3. /\ ModeOn(v[w], cl[x].nick, "+o") = Picture(cl, M, O \cup {x}, Halfs(ch))
        /\ ModeOn(v[w], cl[x].nick, "-o") = Picture(cl, M, O \ {x}, Halfs(ch))
        /\ ModeOn(v[w], cl[x].nick, "+h") = Picture(cl, M, O, Halfs(ch) \cup {x})
        /\ ModeOn(v[w], cl[x].nick, "-h") = Picture(cl, M, O, Halfs(ch) \ {x})
    <3> DEFINE H == Halfs(ch)
    <3>1. Told(cl, M, O, H, x)
      BY <1>2, <2>2 DEF Told
    <3> HIDE DEF H
    <3>2. Ruled(cl, M, O, H, x)
      BY <3>1, PictureMode
    <3>3. v[w] = Picture(cl, M, O, H)
      BY <2>1 DEF H
    <3>4. /\ ModeOn(v[w], cl[x].nick, "+o") = Picture(cl, M, O \cup {x}, H)
          /\ ModeOn(v[w], cl[x].nick, "-o") = Picture(cl, M, O \ {x}, H)
          /\ ModeOn(v[w], cl[x].nick, "+h") = Picture(cl, M, O, H \cup {x})
          /\ ModeOn(v[w], cl[x].nick, "-h") = Picture(cl, M, O, H \ {x})
      BY <3>2, <3>3 DEF Ruled
    <3> QED
      BY <3>4, Zenon DEF H
  <2>4. u[w] = ModeOn(v[w], cl[x].nick, mode) /\ M = Range(next.members)
    BY <1>1 DEF M
  <2>5. CASE /\ mode = "+o"
             /\ next.operators = ch.operators \cup {x} /\ Halfs(next) = Halfs(ch)
    <3>1. u[w] = Picture(cl, Range(next.members), O \cup {x}, Halfs(next))
      BY <2>3, <2>4, <2>5
    <3>2. \A o \in next.operators \ (O \cup {x}) : AreFirst(next.members, w, o)
      BY <2>1, <2>5
    <3>3. O \cup {x} \in SUBSET next.operators
      BY <2>5
    <3> QED
      BY <3>1, <3>2, <3>3 DEF Pictured
  <2>6. CASE /\ mode = "-o"
             /\ next.operators = ch.operators \ {x} /\ Halfs(next) = Halfs(ch)
    <3>1. u[w] = Picture(cl, Range(next.members), O \ {x}, Halfs(next))
      BY <2>3, <2>4, <2>6
    <3>2. \A o \in next.operators \ (O \ {x}) : AreFirst(next.members, w, o)
      BY <2>1, <2>6
    <3>3. O \ {x} \in SUBSET next.operators
      BY <2>6
    <3> QED
      BY <3>1, <3>2, <3>3 DEF Pictured
  <2>7. CASE /\ mode = "+h"
             /\ next.operators = ch.operators /\ Halfs(next) = Halfs(ch) \cup {x}
    <3>1. u[w] = Picture(cl, Range(next.members), O, Halfs(next))
      BY <2>3, <2>4, <2>7
    <3>2. \A o \in next.operators \ O : AreFirst(next.members, w, o)
      BY <2>1, <2>7
    <3>3. O \in SUBSET next.operators
      BY <2>7
    <3> QED
      BY <3>1, <3>2, <3>3 DEF Pictured
  <2>8. CASE /\ mode = "-h"
             /\ next.operators = ch.operators /\ Halfs(next) = Halfs(ch) \ {x}
    <3>1. u[w] = Picture(cl, Range(next.members), O, Halfs(next))
      BY <2>3, <2>4, <2>8
    <3>2. \A o \in next.operators \ O : AreFirst(next.members, w, o)
      BY <2>1, <2>8
    <3>3. O \in SUBSET next.operators
      BY <2>8
    <3> QED
      BY <3>1, <3>2, <3>3 DEF Pictured
  <2> QED
    BY <2>5, <2>6, <2>7, <2>8
<1> QED
  BY <1>1, <1>3 DEF u, Pictures

\* promoteSuccessor announces what it does.
LEMMA PicturesPromotion ==
    ASSUME NEW cl, NEW ch, NEW v, Pictures(cl, ch, v), Ranked(cl, ch),
           Distinct(cl, Range(ch.members)),
           NEW excluded, excluded \in DOMAIN cl => excluded \in Range(ch.members)
    PROVE  Pictures(cl, PromoteSuccessor(cl, ch, excluded), TellPromotion(cl, ch, excluded, v))
<1> DEFINE heir == Heir(cl, ch, excluded)
           next == PromoteSuccessor(cl, ch, excluded)
           mid  == [ch EXCEPT !.halfOperators = Erase(@, heir)]
           less == IF IsHalfOperator(ch, heir) THEN TellMode(ch, v, cl[heir].nick, "-h") ELSE v
<1>1. CASE next = ch
  BY <1>1 DEF TellPromotion
<1>2. CASE next # ch
  <2>1. TellPromotion(cl, ch, excluded, v) = TellMode(ch, less, cl[heir].nick, "+o")
    BY <1>2 DEF TellPromotion
  <2>2. /\ ch.operators = {} /\ heir \in DOMAIN cl
        /\ next = [ch EXCEPT !.halfOperators = Erase(@, heir), !.operators = @ \cup {heir}]
    BY <1>2 DEF PromoteSuccessor, HasOperator
  <2>3. heir \in Range(ch.members)
    BY <2>2, HeirIsMember
  <2> HIDE DEF heir
  <2>4. /\ next.members = ch.members /\ next.operators = {heir}
        /\ next.halfOperators = Erase(ch.halfOperators, heir)
        /\ mid.members = ch.members /\ mid.operators = {}
        /\ mid.halfOperators = Erase(ch.halfOperators, heir)
    BY <2>2 DEF Ranked, ChannelRecord
  <2> HIDE DEF next, mid
  <2>5. Range(Erase(ch.halfOperators, heir)) = Range(ch.halfOperators) \ {heir}
    <3>1. ch.halfOperators \in Seq(Fd) /\ IsInjective(ch.halfOperators)
      BY DEF Ranked, ChannelRecord
    <3> QED
      BY <3>1, EraseElements
  <2>6. /\ Halfs(ch) = Range(ch.halfOperators)
        /\ Halfs(mid) = Range(ch.halfOperators) \ {heir}
        /\ Halfs(next) = Range(ch.halfOperators) \ {heir}
        /\ Range(mid.halfOperators) \subseteq Range(mid.members)
        /\ Range(ch.halfOperators) \subseteq Range(ch.members)
        /\ ch.operators \subseteq Range(ch.members)
        /\ mid.operators \subseteq Range(mid.members)
    BY <2>2, <2>4, <2>5 DEF Halfs, Ranked
  <2>7. Pictures(cl, mid, less)
    <3>1. CASE IsHalfOperator(ch, heir)
      <4>1. Halfs(mid) = Halfs(ch) \ {heir} /\ mid.operators = ch.operators
        BY <2>2, <2>4, <2>6
      <4>2. Pictures(cl, mid, TellMode(ch, v, cl[heir].nick, "-h"))
        BY <2>3, <2>4, <2>6, <4>1, PicturesMode
      <4> QED
        BY <3>1, <4>2
    <3>2. CASE ~IsHalfOperator(ch, heir)
      <4>1. mid.halfOperators = ch.halfOperators
        BY <2>4, <3>2 DEF IsHalfOperator, Erase, Range
      <4>2. Pictures(cl, mid, v)
        BY <2>2, <2>4, <2>6, <4>1, PicturesFrame
      <4> QED
        BY <3>2, <4>2
    <3> QED
      BY <3>1, <3>2
  <2> HIDE DEF less
  <2>8. next.operators = mid.operators \cup {heir} /\ Halfs(next) = Halfs(mid)
    BY <2>4, <2>6
  <2>9. Pictures(cl, next, TellMode(ch, less, cl[heir].nick, "+o"))
    <3>1. next.members = mid.members /\ ch.members = mid.members
      BY <2>4
    <3>2. Distinct(cl, Range(mid.members)) /\ heir \in Range(mid.members)
      BY <2>3, <2>4
    <3> QED
      BY <2>6, <2>7, <2>8, <3>1, <3>2, PicturesMode
  <2> QED
    BY <2>1, <2>9 DEF next
<1> QED
  BY <1>1, <1>2

\* PART, KICK and a lost connection: the others are told, and the succession.
LEMMA PicturesLeave ==
    ASSUME NEW ch, NEW v, Pictures(clients, ch, v), Sound(clients, ch), DOMAIN clients \subseteq Fd,
           NEW fd \in Range(ch.members), Distinct(clients, Range(ch.members))
    PROVE  Pictures(clients, Departed(ch, fd), TellLeave(ch, v, fd))
<1> DEFINE gone == RemoveInvite(RemoveClient(ch, fd), fd)
           told == WithoutClient(clients, v, fd)
<1>1. Ranked(clients, gone) /\ Range(gone.members) = Range(ch.members) \ {fd}
  BY GoneRanked DEF Sound
<1>2. /\ gone.members = Erase(ch.members, fd)
      /\ gone.halfOperators = Erase(ch.halfOperators, fd)
      /\ gone.operators = ch.operators \ {fd}
  BY DEF Sound, Ranked, ChannelRecord, RemoveInvite, RemoveClient, RemoveRanks
<1>3. /\ Departed(ch, fd) = PromoteSuccessor(clients, gone, NoFd)
      /\ TellLeave(ch, v, fd) = TellPromotion(clients, gone, NoFd, told)
  BY DEF Departed, HasClient, TellLeave, WithoutClient
<1> HIDE DEF gone
<1>4. /\ ch.members \in Seq(Fd) /\ IsInjective(ch.members)
      /\ ch.halfOperators \in Seq(Fd) /\ IsInjective(ch.halfOperators)
      /\ ch.operators \subseteq Range(ch.members)
      /\ Range(ch.halfOperators) \subseteq Range(ch.members)
  BY DEF Sound, Ranked, ChannelRecord
<1>5. \A a, b \in Range(gone.members) : AreFirst(ch.members, a, b) => AreFirst(gone.members, a, b)
  BY <1>1, <1>2, <1>4, EraseFirstTwo
<1>6. Range(gone.halfOperators) = Range(ch.halfOperators) \ {fd}
  BY <1>2, <1>4, EraseElements
<1>7. Distinct(clients, Range(ch.members) \cup {fd}) /\ Distinct(clients, Range(gone.members))
  BY <1>1 DEF Distinct
<1>8. Pictures(clients, gone, told)
  BY <1>1, <1>2, <1>4, <1>5, <1>6, <1>7, PicturesGone
<1> HIDE DEF told
<1>9. NoFd \notin DOMAIN clients
  BY FdAssumption DEF NoFd
<1> QED
  BY <1>1, <1>3, <1>7, <1>8, <1>9, PicturesPromotion

-----------------------------------------------------------------------------
(* The pictures of all channels *)

VInv ==
    /\ views = [c \in ChannelName |-> views[c]]
    /\ \A c \in ChannelName : Pictures(clients, ChannelNamed(c), views[c])

\* What a channel, existing or not, has in order.
LEMMA NamedRanked ==
    ASSUME IInv, NEW c
    PROVE  /\ Ranked(clients, ChannelNamed(c))
           /\ ChannelNamed(c) \in ChannelRecord
           /\ ChannelNamed(c).operators \subseteq Range(ChannelNamed(c).members)
           /\ Range(ChannelNamed(c).halfOperators) \subseteq Range(ChannelNamed(c).members)
           /\ Range(ChannelNamed(c).members) \subseteq Live
<1>1. Ranked(clients, ChannelNamed(c))
  BY NewChannelRanked DEF ChannelNamed, Exists, IInv, AllSound, Sound
<1> HIDE DEF IInv
<1> QED
  BY <1>1 DEF Ranked, Live

\* The nickname of a member is nobody else's.
LEMMA MembersDistinct ==
    ASSUME IInv, AllAccepted, NEW c
    PROVE  /\ Distinct(clients, Range(ChannelNamed(c).members))
           /\ \A x \in Live : Distinct(clients, Range(ChannelNamed(c).members) \cup {x})
<1> DEFINE M == Range(ChannelNamed(c).members)
<1>1. ASSUME NEW m \in M
      PROVE  m \in Live /\ clients[m].nick # NoNick
  <2>1. m \in Live /\ clients[m].registered
    BY NamedRanked DEF Ranked, Live
  <2> QED
    BY <2>1 DEF AllAccepted, Accepted
<1> HIDE DEF M
<1>2. \A a, b \in Live : clients[a].nick = clients[b].nick => a = b \/ clients[a].nick = NoNick
  BY DEF IInv, NicknamesUnique
<1>3. Distinct(clients, M) /\ \A x \in Live : Distinct(clients, M \cup {x})
  BY <1>1, <1>2 DEF Distinct
<1> QED
  BY <1>3 DEF M

\* A channel where nobody comes, goes, changes rank or nickname.
LEMMA PicturesStay ==
    ASSUME IInv, VInv, NEW c \in ChannelName, ChannelNamed(c)' = ChannelNamed(c),
           \A m \in Range(ChannelNamed(c).members) : clients'[m].nick = clients[m].nick
    PROVE  Pictures(clients', ChannelNamed(c)', views[c])
<1> DEFINE ch == ChannelNamed(c)
<1>1. /\ Pictures(clients, ch, views[c])
      /\ ch.operators \subseteq Range(ch.members)
      /\ Range(ch.halfOperators) \subseteq Range(ch.members)
      /\ \A m \in Range(ch.members) : clients'[m].nick = clients[m].nick
  BY NamedRanked DEF VInv
<1> HIDE DEF ch
<1>2. Pictures(clients', ch, views[c])
  BY <1>1, PicturesFrame
<1> QED
  BY <1>2 DEF ch

\* One channel changes.
LEMMA PicturesUpdate ==
    ASSUME IInv, VInv, NEW c \in DOMAIN channels, NEW ch, NEW v,
           channels' = [channels EXCEPT ![c] = ch], clients' = clients,
           views' = [views EXCEPT ![c] = v], Pictures(clients, ch, v)
    PROVE  VInv'
<1>1. c \in ChannelName
  BY DEF IInv, TypeOK
<1>2. views' = [d \in ChannelName |-> IF d = c THEN v ELSE views[d]]
  BY <1>1 DEF VInv
<1>3. ASSUME NEW d \in ChannelName
      PROVE  Pictures(clients', ChannelNamed(d)', views'[d])
  <2>1. CASE d = c
    <3>1. ChannelNamed(d)' = ch
      BY <2>1 DEF ChannelNamed, Exists
    <3> QED
      BY <1>2, <2>1, <3>1
  <2>2. CASE d # c
    <3>1. ChannelNamed(d)' = ChannelNamed(d)
      BY <2>2 DEF ChannelNamed, Exists
    <3>2. Pictures(clients', ChannelNamed(d)', views[d])
      BY <3>1, PicturesStay
    <3> QED
      BY <1>2, <2>2, <3>2
  <2> QED
    BY <2>1, <2>2
<1> QED
  BY <1>2, <1>3 DEF VInv

\* A step that is not announced: nothing of who is where with which rank and
\* nickname changes.
LEMMA PicturesSilent ==
    ASSUME IInv, VInv, UNCHANGED views,
           \A c \in ChannelName :
              /\ ChannelNamed(c)'.members = ChannelNamed(c).members
              /\ ChannelNamed(c)'.operators = ChannelNamed(c).operators
              /\ ChannelNamed(c)'.halfOperators = ChannelNamed(c).halfOperators,
           \A x \in Live : clients'[x].nick = clients[x].nick
    PROVE  VInv'
<1>1. ASSUME NEW c \in ChannelName
      PROVE  Pictures(clients', ChannelNamed(c)', views[c])
  <2> DEFINE ch   == ChannelNamed(c)
             next == ChannelNamed(c)'
  <2>1. /\ Pictures(clients, ch, views[c])
        /\ ch.operators \subseteq Range(ch.members)
        /\ Range(ch.halfOperators) \subseteq Range(ch.members)
        /\ \A m \in Range(ch.members) : clients'[m].nick = clients[m].nick
    BY NamedRanked DEF VInv
  <2>2. /\ next.members = ch.members /\ next.operators = ch.operators
        /\ next.halfOperators = ch.halfOperators
    OBVIOUS
  <2> HIDE DEF ch, next
  <2>3. Pictures(clients', next, views[c])
    BY <2>1, <2>2, PicturesFrame
  <2> QED
    BY <2>3 DEF next
<1> QED
  BY <1>1 DEF VInv

-----------------------------------------------------------------------------
(* Leaving *)

\* A client that leaves a channel is told to the others, with its succession;
\* a channel nobody is left in is gone, with its pictures.
LEMMA LeaveTold ==
    ASSUME IInv, AllAccepted, VInv, NEW fd \in Live, NEW C, Leave(fd, C),
           \A x \in Live \ {fd} : x \in Live' /\ clients'[x] = clients[x],
           NEW c \in C, OnChannel(fd, c)
    PROVE  Pictures(clients', ChannelNamed(c)', TellLeave(channels[c], views[c], fd))
<1> DEFINE ch   == channels[c]
           next == Departed(ch, fd)
           told == TellLeave(ch, views[c], fd)
<1>1. /\ c \in DOMAIN channels /\ c \in ChannelName /\ fd \in Range(ch.members)
      /\ ChannelNamed(c) = ch /\ Sound(clients, ch) /\ DOMAIN clients \subseteq Fd
  BY DEF OnChannel, Exists, HasClient, ChannelNamed, IInv, AllSound, TypeOK, Live
<1>2. Distinct(clients, Range(ch.members)) /\ Pictures(clients, ch, views[c])
  BY <1>1, MembersDistinct DEF VInv
<1>3. Range(next.members) = Range(ch.members) \ {fd}
  BY <1>1, DepartedMembers DEF IInv
<1>4. next \in ChannelRecord
  BY <1>1, DepartedType DEF IInv, TypeOK, Sound, Ranked
<1>5. Survives(c, fd) <=> RemoveClient(ch, fd).members # << >>
  BY DEF Survives
<1>6. Survives(c, fd) => Sound(clients, next)
  BY <1>1, <1>5, DepartedSound DEF IInv, Live
<1>7. ChannelNamed(c)' = IF Survives(c, fd) THEN next ELSE NewChannel
  BY <1>1 DEF Leave, ChannelNamed, Exists
<1>8. ~Survives(c, fd) => Range(next.members) = {}
  <2>1. RemoveClient(ch, fd).members = Erase(ch.members, fd)
    BY <1>1 DEF Sound, Ranked, ChannelRecord, RemoveClient, RemoveRanks
  <2>2. Range(Erase(ch.members, fd)) = Range(ch.members) \ {fd}
    BY <1>1, EraseElements DEF Sound, Ranked, ChannelRecord
  <2> HIDE DEF ch, next
  <2>3. Range(<< >>) = {}
    BY DEF Range
  <2> QED
    BY <1>3, <1>5, <2>1, <2>2, <2>3
<1>9. Pictures(clients, next, told)
  <2> HIDE DEF ch
  <2>1. Pictures(clients, Departed(ch, fd), TellLeave(ch, views[c], fd))
    BY <1>1, <1>2, PicturesLeave
  <2> QED
    BY <2>1
<1>10. \A m \in Range(next.members) : clients'[m].nick = clients[m].nick
  BY <1>1, <1>3 DEF Sound, Ranked, Live
<1> HIDE DEF next, told
<1>11. CASE Survives(c, fd)
  <2>1. /\ next.operators \subseteq Range(next.members)
        /\ Range(next.halfOperators) \subseteq Range(next.members)
    BY <1>6, <1>11 DEF Sound, Ranked
  <2>2. Pictures(clients', next, told)
    BY <1>9, <1>10, <2>1, PicturesFrame
  <2> QED
    BY <1>7, <1>11, <2>2 DEF told
<1>12. CASE ~Survives(c, fd)
  <2>1. told = [w \in {} |-> {}]
    BY <1>8, <1>9, <1>12, NoPictures
  <2>2. Range(NewChannel.members) = {}
    BY DEF NewChannel, Range
  <2>3. Pictures(clients', NewChannel, told)
    BY <2>1, <2>2, NoPictures
  <2> QED
    BY <1>7, <1>12, <2>3 DEF told
<1> QED
  BY <1>11, <1>12

\* The channels a client that leaves others is not on.
LEMMA LeaveElsewhere ==
    ASSUME IInv, VInv, NEW fd \in Live, NEW C, Leave(fd, C),
           \A x \in Live \ {fd} : x \in Live' /\ clients'[x] = clients[x],
           NEW c \in ChannelName, ~OnChannel(fd, c)
    PROVE  Pictures(clients', ChannelNamed(c)', views[c])
<1> DEFINE ch   == ChannelNamed(c)
           next == ChannelNamed(c)'
<1>1. Ranked(clients, ch) /\ fd \notin Range(ch.members)
  <2>1. Ranked(clients, ch)
    BY NamedRanked
  <2>2. fd \notin Range(ch.members)
    BY DEF OnChannel, ChannelNamed, HasClient, NewChannel, Range
  <2> QED
    BY <2>1, <2>2
<1>2. /\ next.members = ch.members /\ next.operators = ch.operators
      /\ next.halfOperators = ch.halfOperators
  <2>1. CASE c \in DOMAIN channels /\ c \in C
    <3>1. /\ Erase(ch.members, fd) = ch.members
          /\ Erase(ch.halfOperators, fd) = ch.halfOperators
          /\ ch.operators \ {fd} = ch.operators
      BY <1>1 DEF Erase, Range, Ranked
    <3>2. ch = channels[c] /\ Sound(clients, ch) /\ ~HasClient(ch, fd)
      BY <1>1, <2>1 DEF ChannelNamed, Exists, HasClient, IInv, AllSound
    <3>3. RemoveClient(ch, fd).members = ch.members
      BY <1>1, <3>1 DEF Ranked, ChannelRecord, RemoveClient, RemoveRanks
    <3>4. Survives(c, fd)
      BY <3>2, <3>3 DEF Survives, Sound
    <3>5. next = Departed(ch, fd)
      BY <2>1, <3>2, <3>4 DEF ChannelNamed, Exists, Leave
    <3>6. Departed(ch, fd) = RemoveInvite(RemoveClient(ch, fd), fd)
      BY <3>2 DEF Departed
    <3> HIDE DEF ch, next
    <3> QED
      BY <1>1, <3>1, <3>5, <3>6 DEF Ranked, ChannelRecord, RemoveInvite, RemoveClient, RemoveRanks
  <2>2. CASE ~(c \in DOMAIN channels /\ c \in C)
    BY <2>2 DEF ChannelNamed, Exists, Leave
  <2> QED
    BY <2>1, <2>2
<1>3. /\ Pictures(clients, ch, views[c])
      /\ ch.operators \subseteq Range(ch.members)
      /\ Range(ch.halfOperators) \subseteq Range(ch.members)
      /\ \A m \in Range(ch.members) : clients'[m].nick = clients[m].nick
  BY <1>1, NamedRanked DEF VInv
<1> HIDE DEF ch, next
<1>4. Pictures(clients', next, views[c])
  BY <1>2, <1>3, PicturesFrame
<1> QED
  BY <1>4 DEF next

\* QUIT: every member of the channels fd is on hears it, and ircbot; a picture
\* of another channel does not show fd and is not changed.
LEMMA QuitTold ==
    ASSUME IInv, AllAccepted, VInv, NEW fd \in Live, NEW c \in ChannelName
    PROVE  TellQuit(c, fd) = IF OnChannel(fd, c) THEN TellLeave(channels[c], views[c], fd)
                             ELSE views[c]
<1> DEFINE v == views[c]
           told == [w \in DOMAIN v \ {fd} |->
                      IF HearsQuit(w, fd) THEN Gone(v[w], clients[fd].nick) ELSE v[w]]
           M == Range(ChannelNamed(c).members)
<1>1. /\ Pictures(clients, ChannelNamed(c), v) /\ v = [w \in M |-> v[w]] /\ DOMAIN v = M
  BY DEF VInv, Pictures
<1>2. CASE OnChannel(fd, c)
  <2>1. \A w \in M : HearsQuit(w, fd)
    BY <1>2 DEF HearsQuit, OnChannel, Exists, HasClient, ChannelNamed
  <2>2. told = [w \in DOMAIN v \ {fd} |-> Gone(v[w], clients[fd].nick)]
    BY <1>1, <2>1
  <2> QED
    BY <1>2, <2>2 DEF TellQuit, TellLeave
<1>3. CASE ~OnChannel(fd, c)
  <2>1. fd \notin M
    BY <1>3 DEF OnChannel, HasClient, ChannelNamed, NewChannel, Range
  <2>2. Distinct(clients, M \cup {fd})
    BY MembersDistinct
  <2>3. ASSUME NEW w \in M
        PROVE  Gone(v[w], clients[fd].nick) = v[w]
    <3> DEFINE H == Halfs(ChannelNamed(c))
    <3>1. PICK O \in SUBSET ChannelNamed(c).operators : v[w] = Picture(clients, M, O, H)
      BY <1>1 DEF Pictures, Pictured
    <3>2. O \subseteq M /\ H \subseteq M
      BY NamedRanked DEF Halfs
    <3>3. M \ {fd} = M /\ O \ {fd} = O /\ H \ {fd} = H
      BY <2>1, <3>2
    <3> HIDE DEF M, H, v
    <3>4. Told(clients, M, O, H, fd)
      BY <2>2, <3>2 DEF Told
    <3>5. Gone(Picture(clients, M, O, H), clients[fd].nick)
              = Picture(clients, M \ {fd}, O \ {fd}, H \ {fd})
      BY <3>4, PictureGone
    <3> QED
      BY <3>1, <3>3, <3>5
  <2> HIDE DEF M, v
  <2>4. told = [w \in M |-> v[w]]
    BY <1>1, <2>1, <2>3
  <2> QED
    BY <1>1, <1>3, <2>4 DEF TellQuit, v
<1> QED
  BY <1>2, <1>3

\* QUIT and the loss of a connection.
LEMMA ViewsConnection ==
    ASSUME IInv, AllAccepted, VInv, NEW fd \in Fd, ConnectionTold(fd)
    PROVE  VInv'
<1>1. CASE AcceptNewClient(fd) /\ UNCHANGED views
  <2>1. \A x \in Live : clients'[x].nick = clients[x].nick
    BY <1>1 DEF AcceptNewClient, Live
  <2>2. \A c \in ChannelName : ChannelNamed(c)' = ChannelNamed(c)
    BY <1>1 DEF AcceptNewClient, ChannelNamed, Exists
  <2> QED
    BY <1>1, <2>1, <2>2, PicturesSilent
<1>2. ASSUME DisconnectClient(fd),
             \A c \in ChannelName :
                views'[c] = IF OnChannel(fd, c) THEN TellLeave(channels[c], views[c], fd)
                            ELSE views[c],
             views' = [c \in ChannelName |-> views'[c]]
      PROVE  VInv'
  <2> DEFINE C == DOMAIN channels
  <2>1. /\ fd \in Live /\ Leave(fd, C)
        /\ \A x \in Live \ {fd} : x \in Live' /\ clients'[x] = clients[x]
    BY <1>2 DEF DisconnectClient, Live
  <2>2. \A c \in ChannelName : OnChannel(fd, c) => c \in C
    BY DEF OnChannel, Exists
  <2> HIDE DEF C
  <2>3. ASSUME NEW c \in ChannelName
        PROVE  Pictures(clients', ChannelNamed(c)', views'[c])
    <3>1. CASE OnChannel(fd, c)
      <4>1. Pictures(clients', ChannelNamed(c)', TellLeave(channels[c], views[c], fd))
        BY <2>1, <2>2, <3>1, LeaveTold
      <4> QED
        BY <1>2, <3>1, <4>1
    <3>2. CASE ~OnChannel(fd, c)
      <4>1. Pictures(clients', ChannelNamed(c)', views[c])
        BY <2>1, <3>2, LeaveElsewhere
      <4> QED
        BY <1>2, <3>2, <4>1
    <3> QED
      BY <3>1, <3>2
  <2> QED
    BY <1>2, <2>3 DEF VInv
<1>3. CASE HandleQuit(fd) /\ views' = [c \in ChannelName |-> TellQuit(c, fd)]
  <2>1. DisconnectClient(fd) /\ fd \in Live
    BY <1>3 DEF HandleQuit, DisconnectClient
  <2>2. \A c \in ChannelName :
           views'[c] = IF OnChannel(fd, c) THEN TellLeave(channels[c], views[c], fd)
                       ELSE views[c]
    BY <1>3, <2>1, QuitTold
  <2>3. views' = [c \in ChannelName |-> views'[c]]
    BY <1>3
  <2> QED
    BY <1>2, <2>1, <2>2, <2>3
<1>4. CASE DisconnectClient(fd) /\ views' = [c \in ChannelName |-> TellLoss(c, fd)]
  <2>1. \A c \in ChannelName :
           views'[c] = IF OnChannel(fd, c) THEN TellLeave(channels[c], views[c], fd)
                       ELSE views[c]
    BY <1>4 DEF TellLoss
  <2>2. views' = [c \in ChannelName |-> views'[c]]
    BY <1>4
  <2> QED
    BY <1>2, <1>4, <2>1, <2>2
<1> QED
  BY <1>1, <1>3, <1>4 DEF ConnectionTold, Silent

-----------------------------------------------------------------------------
(* Joining *)

\* A newcomer alone: what its JOIN makes of the channel.  If it becomes operator,
\* at most one was there, ircbot.
LEMMA NewcomerIs ==
    ASSUME NEW ch \in ChannelRecord, NEW cl, NEW fd \in Fd, IsInjective(ch.members),
           Distinct(cl, Range(ch.members)), Range(ch.members) \subseteq DOMAIN cl
    PROVE  LET next == Admit(cl, ch, <<fd>>)
           IN  /\ Range(next.members) = Range(ch.members) \cup {fd}
               /\ \A a, b : AreFirst(ch.members, a, b) => AreFirst(next.members, a, b)
               /\ fd \in next.operators \ ch.operators =>
                     \A a \in Range(ch.members) : AreFirst(next.members, a, fd)
               /\ next.halfOperators = ch.halfOperators
               /\ ch.operators \subseteq next.operators
               /\ next.operators \subseteq ch.operators \cup {fd}
<1> DEFINE next  == Admit(cl, ch, <<fd>>)
           human == \E m \in Range(ch.members) : IsHuman(cl, m)
<1>1. next.members = ch.members \o <<fd>> /\ ch.members \in Seq(Fd)
  BY DEF Admit, ChannelRecord
<1>2. /\ next.halfOperators = ch.halfOperators
      /\ ch.operators \subseteq next.operators
      /\ next.operators \subseteq ch.operators \cup {fd}
      /\ human => next.operators = ch.operators
  <2> DEFINE one == <<fd>>
             new == {one[i] : i \in {i \in DOMAIN one :
                        /\ IsHuman(cl, one[i])
                        /\ \A j \in 1..(i-1) : ~IsHuman(cl, one[j])}}
  <2>1. new \subseteq {fd}
    OBVIOUS
  <2>2. /\ next.halfOperators = ch.halfOperators
        /\ next.operators = IF human THEN ch.operators ELSE ch.operators \cup new
    BY DEF Admit, ChannelRecord
  <2> HIDE DEF next, human, new
  <2> QED
    BY <2>1, <2>2
<1> HIDE DEF next
<1>3. /\ Range(next.members) = Range(ch.members) \cup {fd}
      /\ \A a, b : AreFirst(ch.members, a, b) => AreFirst(next.members, a, b)
      /\ Len(ch.members) <= 1 => \A a \in Range(ch.members) : AreFirst(next.members, a, fd)
  BY <1>1, ComesLast
<1>4. ASSUME fd \in next.operators \ ch.operators
      PROVE  Len(ch.members) <= 1
  BY <1>1, <1>2, <1>4, LoneBot
<1> QED
  BY <1>2, <1>3, <1>4 DEF next

\* The same, of the pictures.
LEMMA NewcomerTold ==
    ASSUME NEW cl, NEW cm, NEW ch \in ChannelRecord, NEW v, Pictures(cm, ch, v),
           NEW fd \in Fd, fd \notin Range(ch.members),
           IsInjective(ch.members), Distinct(cl, Range(ch.members)),
           Range(ch.members) \subseteq DOMAIN cl,
           Range(ch.halfOperators) \subseteq Range(ch.members)
    PROVE  Pictures(cm, Admit(cl, ch, <<fd>>), TellJoin(cm, Admit(cl, ch, <<fd>>), v, fd))
<1> DEFINE next == Admit(cl, ch, <<fd>>)
<1>1. /\ Range(next.members) = Range(ch.members) \cup {fd}
      /\ \A a, b : AreFirst(ch.members, a, b) => AreFirst(next.members, a, b)
      /\ fd \in next.operators \ ch.operators =>
            \A a \in Range(ch.members) : AreFirst(next.members, a, fd)
      /\ next.halfOperators = ch.halfOperators
      /\ ch.operators \subseteq next.operators
      /\ next.operators \subseteq ch.operators \cup {fd}
  BY NewcomerIs
<1> HIDE DEF next
<1>2. Pictures(cm, next, TellJoin(cm, next, v, fd))
  BY <1>1, PicturesJoin
<1> QED
  BY <1>2 DEF next

\* JOIN, by the client or at the end of its registration.
LEMMA JoinTold ==
    ASSUME IInv, AllAccepted, VInv, NEW cl, NEW fd \in Fd,
           NEW names \in SUBSET ChannelName, NEW key,
           Join(cl, fd, names, key), AnnounceJoin(fd),
           \A x \in Live \ {fd} : x \in DOMAIN cl /\ cl[x] = clients[x],
           \A c \in ChannelName : \A m \in Range(ChannelNamed(c).members) :
              clients'[m].nick = clients[m].nick
    PROVE  VInv'
<1> DEFINE entered == {c \in names : /\ ~HasClient(ChannelNamed(c), fd)
                                     /\ MayEnter(ChannelNamed(c), fd, key)}
<1>1. channels' = [c \in DOMAIN channels \cup entered |->
                     IF c \in entered THEN Admit(cl, ChannelNamed(c), <<fd>>) ELSE channels[c]]
  BY DEF Join
<1>2. \A c \in entered : c \in ChannelName /\ fd \notin Range(ChannelNamed(c).members)
  BY DEF HasClient
<1> HIDE DEF entered
<1>3. ASSUME NEW c \in ChannelName
      PROVE  Pictures(clients', ChannelNamed(c)', views'[c])
  <2>1. views'[c] = IF Enters(fd, c) THEN TellJoin(clients', channels'[c], views[c], fd)
                    ELSE views[c]
    BY DEF AnnounceJoin
  <2>2. CASE c \in entered
    <3> DEFINE ch == ChannelNamed(c)
    <3>1. /\ Pictures(clients, ch, views[c]) /\ ch \in ChannelRecord
          /\ ch.operators \subseteq Range(ch.members)
          /\ Range(ch.halfOperators) \subseteq Range(ch.members)
          /\ \A m \in Range(ch.members) : clients'[m].nick = clients[m].nick
      BY NamedRanked DEF VInv
    <3>2. fd \notin Range(ch.members)
      BY <1>2, <2>2
    <3>3. c \in DOMAIN channels' /\ channels'[c] = Admit(cl, ch, <<fd>>)
      BY <1>1, <2>2
    <3>4. ~OnChannel(fd, c)
      BY <3>2 DEF OnChannel, HasClient, ChannelNamed
    <3>10. /\ IsInjective(ch.members) /\ Range(ch.members) \subseteq DOMAIN cl
           /\ Distinct(cl, Range(ch.members))
      <4>1. Ranked(clients, ch) /\ Range(ch.members) \subseteq Live \ {fd}
        BY <3>2, NamedRanked
      <4>2. Distinct(clients, Range(ch.members))
        BY MembersDistinct
      <4> HIDE DEF ch
      <4> QED
        BY <4>1, <4>2 DEF Ranked, Distinct
    <3> HIDE DEF ch
    <3>5. fd \in Range(Admit(cl, ch, <<fd>>).members)
      BY <3>1, <3>10, NewcomerIs
    <3>6. Enters(fd, c)
      BY <3>3, <3>4, <3>5 DEF Enters, OnChannel, Exists, HasClient
    <3>7. Pictures(clients', ch, views[c])
      BY <3>1, PicturesFrame
    <3>8. Pictures(clients', Admit(cl, ch, <<fd>>),
                   TellJoin(clients', Admit(cl, ch, <<fd>>), views[c], fd))
      BY <3>1, <3>2, <3>7, <3>10, NewcomerTold
    <3>9. ChannelNamed(c)' = channels'[c]
      BY <3>3 DEF ChannelNamed, Exists
    <3> QED
      BY <2>1, <3>3, <3>6, <3>8, <3>9
  <2>3. CASE c \notin entered
    <3>1. ChannelNamed(c)' = ChannelNamed(c) /\ (OnChannel(fd, c)' => OnChannel(fd, c))
      BY <1>1, <2>3 DEF ChannelNamed, Exists, OnChannel
    <3>2. ~Enters(fd, c)
      BY <3>1 DEF Enters
    <3>3. Pictures(clients', ChannelNamed(c)', views[c])
      BY <3>1, PicturesStay
    <3> QED
      BY <2>1, <3>2, <3>3
  <2> QED
    BY <2>2, <2>3
<1>4. views' = [c \in ChannelName |-> views'[c]]
  BY DEF AnnounceJoin
<1> QED
  BY <1>3, <1>4 DEF VInv

\* The end of a registration, if this step is one.
LEMMA CompleteTold ==
    ASSUME IInv, AllAccepted, VInv, NEW fd \in Live, ~Registered(fd), AnnounceJoin(fd),
           NEW cl \in [Live -> ClientRecord], CompleteRegistration(cl, fd),
           \A x \in Live \ {fd} : cl[x] = clients[x]
    PROVE  VInv'
<1>1. fd \in Fd
  BY DEF IInv, TypeOK
<1>2. \A x \in Live \ {fd} : clients'[x].nick = clients[x].nick
  BY DEF CompleteRegistration
<1>3. ASSUME NEW c \in ChannelName, NEW m \in Range(ChannelNamed(c).members)
      PROVE  clients'[m].nick = clients[m].nick
  <2>1. m \in Live /\ clients[m].registered
    BY NamedRanked DEF Ranked, Live
  <2> QED
    BY <1>2, <2>1 DEF Registered
<1>4. CASE \E names \in SUBSET ChannelName : Join(cl, fd, names, NoKey)
  BY <1>1, <1>3, <1>4, JoinTold
<1>5. CASE UNCHANGED channels
  <2>1. \A c \in ChannelName : ~Enters(fd, c)
    BY <1>5 DEF Enters, OnChannel, Exists, HasClient
  <2>2. views' = [c \in ChannelName |-> views[c]]
    BY <2>1 DEF AnnounceJoin
  <2>3. ASSUME NEW c \in ChannelName
        PROVE  Pictures(clients', ChannelNamed(c)', views'[c])
    <3>1. ChannelNamed(c)' = ChannelNamed(c)
      BY <1>5 DEF ChannelNamed, Exists
    <3>2. Pictures(clients', ChannelNamed(c)', views[c])
      BY <1>3, <3>1, PicturesStay
    <3> QED
      BY <2>2, <3>2
  <2> QED
    BY <2>2, <2>3 DEF VInv
<1> QED
  BY <1>4, <1>5, GeneralAssumption DEF CompleteRegistration

\* NICK of a registered client, to itself and to those that share a channel
\* with it; the pictures of others do not show it.
LEMMA NickTold ==
    ASSUME IInv, AllAccepted, VInv, NEW fd \in Live, NEW nick, AnnounceNick(fd, nick),
           UNCHANGED channels, clients' = [clients EXCEPT ![fd].nick = nick]
    PROVE  VInv'
<1> DEFINE Hears(w) == w = fd \/ \E c \in DOMAIN channels : OnChannel(fd, c) /\ OnChannel(w, c)
<1>1. views' = [c \in ChannelName |->
                  [w \in DOMAIN views[c] |->
                      IF Hears(w) THEN Renamed(views[c][w], clients[fd].nick, nick)
                      ELSE views[c][w]]]
  BY DEF AnnounceNick
<1>2. clients'[fd].nick = nick /\ \A x \in Live \ {fd} : clients'[x].nick = clients[x].nick
  BY DEF IInv, TypeOK, ClientRecord
<1>3. ASSUME NEW c \in ChannelName
      PROVE  Pictures(clients', ChannelNamed(c)', views'[c])
  <2> DEFINE ch == ChannelNamed(c)
             M  == Range(ch.members)
             H  == Halfs(ch)
             v  == views[c]
             u  == views'[c]
  <2>1. /\ DOMAIN v = M
        /\ \A w \in M : Pictured(clients, ch, w, v[w])
    BY DEF VInv, Pictures
  <2>2. /\ u = [w \in M |-> u[w]]
        /\ \A w \in M : u[w] = IF Hears(w) THEN Renamed(v[w], clients[fd].nick, nick) ELSE v[w]
    BY <1>1, <2>1
  <2>3. M \subseteq Live /\ ch.operators \subseteq M /\ H \subseteq M
    BY NamedRanked DEF Halfs
  <2>4. Distinct(clients, M \cup {fd})
    BY MembersDistinct
  <2>5. ASSUME NEW w \in M, ~Hears(w)
        PROVE  fd \notin M
    BY <2>5 DEF OnChannel, Exists, HasClient, ChannelNamed, NewChannel, Range
  <2>6. ChannelNamed(c)' = ch
    BY DEF ChannelNamed, Exists
  <2> HIDE DEF ch, M, H, v, u, Hears
  <2>7. ASSUME NEW w \in M
        PROVE  Pictured(clients', ch, w, u[w])
    <3>1. PICK O \in SUBSET ch.operators :
             /\ v[w] = Picture(clients, M, O, H)
             /\ \A o \in ch.operators \ O : AreFirst(ch.members, w, o)
      BY <2>1 DEF Pictured, M, H
    <3>2. Told(clients, M, O, H, fd)
      BY <2>3, <2>4 DEF Told
    <3>3. CASE Hears(w)
      <4> DEFINE cm == clients'
      <4>1. \A y \in M \ {fd} : cm[y].nick = clients[y].nick
        BY <1>2, <2>3
      <4> HIDE DEF cm
      <4>2. Renamed(Picture(clients, M, O, H), clients[fd].nick, cm[fd].nick)
                = Picture(cm, M, O, H)
        BY <3>2, <4>1, PictureRenamed
      <4>3. u[w] = Picture(clients', M, O, H)
        BY <1>2, <2>2, <3>1, <3>3, <4>2 DEF cm
      <4> QED
        BY <3>1, <4>3 DEF Pictured, M, H
    <3>4. CASE ~Hears(w)
      <4>1. ASSUME NEW S \in SUBSET M
            PROVE  Names(clients', S) = Names(clients, S)
        BY <1>2, <2>3, <2>5, <3>4 DEF Names
      <4>2. /\ Names(clients', M) = Names(clients, M)
            /\ Names(clients', O) = Names(clients, O)
            /\ Names(clients', H) = Names(clients, H)
        BY <2>3, <4>1
      <4>3. u[w] = Picture(clients', M, O, H)
        BY <2>2, <3>1, <3>4, <4>2 DEF Picture
      <4> QED
        BY <3>1, <4>3 DEF Pictured, M, H
    <3> QED
      BY <3>3, <3>4
  <2> QED
    BY <2>2, <2>6, <2>7 DEF Pictures, M, u
<1> QED
  BY <1>1, <1>3 DEF VInv

\* PASS, NICK and USER.
LEMMA ViewsRegistering ==
    ASSUME IInv, AllAccepted, VInv, NEW fd \in Fd, RegisteringTold(fd)
    PROVE  VInv'
<1>1. ASSUME UNCHANGED <<channels, views>>, \A x \in Live : clients'[x].nick = clients[x].nick
      PROVE  VInv'
  <2>1. \A c \in ChannelName : ChannelNamed(c)' = ChannelNamed(c)
    BY <1>1 DEF ChannelNamed, Exists
  <2> QED
    BY <1>1, <2>1, PicturesSilent
<1>2. CASE HandlePass(fd) /\ UNCHANGED views
  <2>1. \A x \in Live : clients'[x].nick = clients[x].nick
    BY <1>2 DEF HandlePass, IInv, TypeOK, ClientRecord
  <2> QED
    BY <1>1, <1>2, <2>1 DEF HandlePass
<1>3. CASE HandleUser(fd) /\ AnnounceJoin(fd)
  <2> DEFINE cl == [clients EXCEPT ![fd].user = TRUE]
  <2>1. /\ fd \in Live /\ cl \in [Live -> ClientRecord] /\ CompleteRegistration(cl, fd)
        /\ \A x \in Live \ {fd} : cl[x] = clients[x]
    BY <1>3 DEF HandleUser, IInv, TypeOK, ClientRecord
  <2>2. ~Registered(fd)
    BY <1>3 DEF HandleUser, Registered, AllAccepted, Accepted
  <2> HIDE DEF cl
  <2> QED
    BY <1>3, <2>1, <2>2, CompleteTold
<1>4. ASSUME NEW nick \in Nick, NickInUse(fd, nick), UNCHANGED views
      PROVE  VInv'
  <2>1. \A x \in Live : clients'[x].nick = clients[x].nick
    BY <1>4 DEF NickInUse, IInv, TypeOK, ClientRecord
  <2> QED
    BY <1>1, <1>4, <2>1 DEF NickInUse
<1>5. ASSUME NEW nick \in Nick, HandleNick(fd, nick), ~Registered(fd), AnnounceJoin(fd)
      PROVE  VInv'
  <2> DEFINE cl == [clients EXCEPT ![fd].nick = nick]
  <2>1. /\ fd \in Live /\ cl \in [Live -> ClientRecord] /\ CompleteRegistration(cl, fd)
        /\ \A x \in Live \ {fd} : cl[x] = clients[x]
    BY <1>5 DEF HandleNick, IInv, TypeOK, ClientRecord
  <2> HIDE DEF cl
  <2> QED
    BY <1>5, <2>1, CompleteTold
<1>6. ASSUME NEW nick \in Nick, HandleNick(fd, nick), Registered(fd), AnnounceNick(fd, nick)
      PROVE  VInv'
  <2> DEFINE cl == [clients EXCEPT ![fd].nick = nick]
  <2>1. CompleteRegistration(cl, fd) /\ fd \in Live
    BY <1>6 DEF HandleNick
  <2>2. cl[fd].registered
    BY <1>6 DEF Registered, IInv, TypeOK, ClientRecord
  <2>3. clients' = cl /\ UNCHANGED channels
    BY <2>1, <2>2 DEF CompleteRegistration, CanRegister
  <2> QED
    BY <1>6, <2>1, <2>3, NickTold
<1> QED
  BY <1>2, <1>3, <1>4, <1>5, <1>6 DEF RegisteringTold, Silent

\* JOIN and PART.
LEMMA ViewsJoining ==
    ASSUME IInv, AllAccepted, VInv, NEW fd \in Fd, JoiningTold(fd)
    PROVE  VInv'
<1>1. ASSUME NEW names \in SUBSET ChannelName, NEW key, HandleJoin(fd, names, key),
             AnnounceJoin(fd)
      PROVE  VInv'
  <2>1. Join(clients, fd, names, key) /\ clients' = clients
    BY <1>1 DEF HandleJoin
  <2>2. \A c \in ChannelName : \A m \in Range(ChannelNamed(c).members) :
           clients'[m].nick = clients[m].nick
    BY <2>1
  <2>3. \A x \in Live \ {fd} : x \in DOMAIN clients /\ clients[x] = clients[x]
    BY DEF Live
  <2> QED
    BY <1>1, <2>1, <2>2, <2>3, JoinTold
<1>2. ASSUME NEW names \in SUBSET ChannelName, HandlePart(fd, names),
             views' = [c \in ChannelName |->
                          IF c \in names /\ OnChannel(fd, c)
                          THEN TellLeave(channels[c], views[c], fd) ELSE views[c]]
      PROVE  VInv'
  <2> DEFINE C == {c \in names : OnChannel(fd, c)}
  <2>1. /\ fd \in Live /\ Leave(fd, C) /\ clients' = clients
        /\ \A x \in Live \ {fd} : x \in Live' /\ clients'[x] = clients[x]
    BY <1>2 DEF HandlePart, Registered, Live
  <2>2. \A c \in C : OnChannel(fd, c)
    OBVIOUS
  <2>3. \A c \in ChannelName :
           views'[c] = IF c \in C THEN TellLeave(channels[c], views[c], fd) ELSE views[c]
    BY <1>2
  <2>4. \A c \in ChannelName \ C : ~OnChannel(fd, c) \/ ChannelNamed(c)' = ChannelNamed(c)
    BY <2>1 DEF Leave, ChannelNamed, Exists
  <2> HIDE DEF C
  <2>5. ASSUME NEW c \in ChannelName
        PROVE  Pictures(clients', ChannelNamed(c)', views'[c])
    <3>1. CASE c \in C
      <4>1. Pictures(clients', ChannelNamed(c)', TellLeave(channels[c], views[c], fd))
        BY <2>1, <2>2, <3>1, LeaveTold
      <4> QED
        BY <2>3, <3>1, <4>1
    <3>2. CASE c \notin C
      <4>1. Pictures(clients', ChannelNamed(c)', views[c])
        BY <2>1, <2>4, <3>2, LeaveElsewhere, PicturesStay
      <4> QED
        BY <2>3, <3>2, <4>1
    <3> QED
      BY <3>1, <3>2
  <2>6. views' = [c \in ChannelName |-> views'[c]]
    BY <1>2
  <2> QED
    BY <2>5, <2>6 DEF VInv
<1> QED
  BY <1>1, <1>2 DEF JoiningTold

-----------------------------------------------------------------------------
(* Ranks *)

\* +o: the target is made operator or, under the one there is, half-operator.
LEMMA GiveTold ==
    ASSUME IInv, AllAccepted, VInv, NEW fd \in Fd, NEW c, NEW target \in Fd,
           GiveOperator(fd, c, target),
           views' = [views EXCEPT ![c] =
                       TellMode(channels[c], @, clients[target].nick,
                                Announced(channels[c], "+o", target))]
    PROVE  VInv'
<1> DEFINE ch   == channels[c]
           next == Granted(ch, target)
           v    == views[c]
           mode == Announced(ch, "+o", target)
<1>1. /\ c \in DOMAIN channels /\ c \in ChannelName /\ ChannelNamed(c) = ch
      /\ fd \in ch.operators /\ target \in Range(ch.members)
      /\ channels' = [channels EXCEPT ![c] = next] /\ clients' = clients
  BY DEF GiveOperator, MayChangeOperator, MayChangeMode, IsOperator, OnChannel, Exists, HasClient,
         ChannelNamed, IInv, TypeOK
<1>2. /\ Pictures(clients, ch, v) /\ ch \in ChannelRecord /\ Ranked(clients, ch)
      /\ ch.operators \subseteq Range(ch.members)
      /\ Range(ch.halfOperators) \subseteq Range(ch.members)
  BY <1>1, NamedRanked DEF VInv
<1>3. Distinct(clients, Range(ch.members))
  BY <1>1, MembersDistinct
<1>4. views' = [views EXCEPT ![c] = TellMode(ch, v, clients[target].nick, mode)]
  OBVIOUS
<1> HIDE DEF ch, v
<1>5. next = AddHalfOperator(ch, target)
  BY <1>1 DEF Granted, HasOperator
<1>6. /\ next.members = ch.members /\ next.operators = ch.operators
      /\ Range(next.halfOperators) = Range(ch.halfOperators) \cup {target}
  <2>1. CASE IsHalfOperator(ch, target)
    BY <1>5, <2>1 DEF AddHalfOperator, IsHalfOperator
  <2>2. CASE ~IsHalfOperator(ch, target)
    <3>1. /\ next.members = ch.members /\ next.operators = ch.operators
          /\ next.halfOperators = Append(ch.halfOperators, target)
      BY <1>2, <1>5, <2>2 DEF AddHalfOperator, ChannelRecord
    <3>2. /\ ch.halfOperators \in Seq(Fd) /\ IsInjective(ch.halfOperators)
          /\ target \notin Range(ch.halfOperators)
      BY <1>2, <2>2 DEF ChannelRecord, Ranked, IsHalfOperator
    <3>3. Range(Append(ch.halfOperators, target)) = Range(ch.halfOperators) \cup {target}
      BY <3>2, AppendElements
    <3> QED
      BY <3>1, <3>3
  <2> QED
    BY <2>1, <2>2
<1>7. mode = IF target \in ch.operators THEN "+o" ELSE "+h"
  BY <1>1 DEF Announced, HasOperator, IsOperator
<1> HIDE DEF next, mode
<1>8. \/ /\ mode = "+o"
         /\ next.operators = ch.operators \cup {target} /\ Halfs(next) = Halfs(ch)
      \/ /\ mode = "+h"
         /\ next.operators = ch.operators /\ Halfs(next) = Halfs(ch) \cup {target}
  BY <1>6, <1>7 DEF Halfs
<1>9. Pictures(clients, next, TellMode(ch, v, clients[target].nick, mode))
  BY <1>1, <1>2, <1>3, <1>6, <1>8, PicturesMode
<1> QED
  BY <1>1, <1>4, <1>9, PicturesUpdate DEF next

\* -o: the target loses its ranks, and another succeeds the last operator.
LEMMA TakeTold ==
    ASSUME IInv, AllAccepted, VInv, NEW fd \in Fd, NEW c, NEW target \in Fd,
           TakeOperator(fd, c, target),
           views' = [views EXCEPT ![c] =
                       TellPromotion(clients, RemoveRanks(channels[c], target), target,
                          TellMode(channels[c], @, clients[target].nick,
                                   Announced(channels[c], "-o", target)))]
    PROVE  VInv'
<1> DEFINE ch   == channels[c]
           rest == RemoveRanks(ch, target)
           v    == views[c]
           mode == Announced(ch, "-o", target)
           less == TellMode(ch, v, clients[target].nick, mode)
<1>1. /\ c \in DOMAIN channels /\ c \in ChannelName /\ ChannelNamed(c) = ch
      /\ target \in Range(ch.members)
      /\ channels' = [channels EXCEPT ![c] = PromoteSuccessor(clients, rest, target)]
      /\ clients' = clients
  BY DEF TakeOperator, MayChangeOperator, MayChangeMode, OnChannel, Exists, HasClient,
         ChannelNamed, IInv, TypeOK
<1>2. /\ Pictures(clients, ch, v) /\ ch \in ChannelRecord /\ Ranked(clients, ch)
      /\ ch.operators \subseteq Range(ch.members)
      /\ Range(ch.halfOperators) \subseteq Range(ch.members)
  BY <1>1, NamedRanked DEF VInv
<1>3. Distinct(clients, Range(ch.members))
  BY <1>1, MembersDistinct
<1>4. views' = [views EXCEPT ![c] = TellPromotion(clients, rest, target, less)]
  OBVIOUS
<1> HIDE DEF ch, v
<1>5. Ranked(clients, rest)
  BY <1>2, DeoppedRanked
<1>6. /\ rest.members = ch.members /\ rest.operators = ch.operators \ {target}
      /\ Range(rest.halfOperators) = Range(ch.halfOperators) \ {target}
  <2>1. /\ rest.members = ch.members /\ rest.operators = ch.operators \ {target}
        /\ rest.halfOperators = Erase(ch.halfOperators, target)
    BY <1>2 DEF RemoveRanks, ChannelRecord
  <2>2. ch.halfOperators \in Seq(Fd) /\ IsInjective(ch.halfOperators)
    BY <1>2 DEF Ranked, ChannelRecord
  <2>3. Range(Erase(ch.halfOperators, target)) = Range(ch.halfOperators) \ {target}
    BY <2>2, EraseElements
  <2> QED
    BY <2>1, <2>3
<1>7. mode = IF target \notin ch.operators /\ target \in Range(ch.halfOperators)
             THEN "-h" ELSE "-o"
  BY DEF Announced, IsOperator, IsHalfOperator
<1> HIDE DEF rest, mode
<1>8. \/ /\ mode = "-o"
         /\ rest.operators = ch.operators \ {target} /\ Halfs(rest) = Halfs(ch)
      \/ /\ mode = "-h"
         /\ rest.operators = ch.operators /\ Halfs(rest) = Halfs(ch) \ {target}
  <2>1. CASE target \in ch.operators
    BY <1>6, <1>7, <2>1 DEF Halfs
  <2>2. CASE target \notin ch.operators /\ target \in Range(ch.halfOperators)
    BY <1>6, <1>7, <2>2 DEF Halfs
  <2>3. CASE target \notin ch.operators /\ target \notin Range(ch.halfOperators)
    BY <1>6, <1>7, <2>3 DEF Halfs
  <2> QED
    BY <2>1, <2>2, <2>3
<1>9. Pictures(clients, rest, less)
  BY <1>1, <1>2, <1>3, <1>6, <1>8, PicturesMode
<1> HIDE DEF less
<1>10. Distinct(clients, Range(rest.members)) /\ target \in Range(rest.members)
  BY <1>1, <1>3, <1>6
<1>11. Pictures(clients, PromoteSuccessor(clients, rest, target),
                TellPromotion(clients, rest, target, less))
  BY <1>5, <1>9, <1>10, PicturesPromotion
<1> QED
  BY <1>1, <1>4, <1>11, PicturesUpdate

\* TOPIC, KICK, INVITE and MODE +o and -o.
LEMMA ViewsRuling ==
    ASSUME IInv, AllAccepted, VInv, NEW fd \in Fd, NEW c \in ChannelName, RulingTold(fd, c)
    PROVE  VInv'
<1>1. ASSUME NEW ch, UNCHANGED <<clients, views>>, c \in DOMAIN channels,
             channels' = [channels EXCEPT ![c] = ch],
             ch.members = channels[c].members, ch.operators = channels[c].operators,
             ch.halfOperators = channels[c].halfOperators
      PROVE  VInv'
  <2>1. ASSUME NEW d \in ChannelName
        PROVE  /\ ChannelNamed(d)'.members = ChannelNamed(d).members
               /\ ChannelNamed(d)'.operators = ChannelNamed(d).operators
               /\ ChannelNamed(d)'.halfOperators = ChannelNamed(d).halfOperators
    BY <1>1 DEF ChannelNamed, Exists
  <2> QED
    BY <1>1, <2>1, PicturesSilent
<1>2. c \in DOMAIN channels => channels[c] \in ChannelRecord
  BY DEF IInv, TypeOK
<1>3. ASSUME NEW topic, HandleTopic(fd, c, topic), UNCHANGED views
      PROVE  VInv'
  <2> DEFINE ch == [channels[c] EXCEPT !.topic = topic]
  <2>1. c \in DOMAIN channels /\ UNCHANGED clients /\ channels' = [channels EXCEPT ![c] = ch]
    BY <1>3 DEF HandleTopic, OnChannel, Exists
  <2>2. /\ ch.members = channels[c].members /\ ch.operators = channels[c].operators
        /\ ch.halfOperators = channels[c].halfOperators
    BY <1>2, <2>1 DEF ChannelRecord
  <2> HIDE DEF ch
  <2> QED
    BY <1>1, <1>3, <2>1, <2>2
<1>4. ASSUME NEW target \in Fd, HandleInvite(fd, c, target), UNCHANGED views
      PROVE  VInv'
  <2> DEFINE ch == [channels[c] EXCEPT !.invited = @ \cup {target}]
  <2>1. c \in DOMAIN channels /\ UNCHANGED clients /\ channels' = [channels EXCEPT ![c] = ch]
    BY <1>4 DEF HandleInvite, OnChannel, Exists
  <2>2. /\ ch.members = channels[c].members /\ ch.operators = channels[c].operators
        /\ ch.halfOperators = channels[c].halfOperators
    BY <1>2, <2>1 DEF ChannelRecord
  <2> HIDE DEF ch
  <2> QED
    BY <1>1, <1>4, <2>1, <2>2
<1>5. ASSUME NEW target \in Fd, HandleKick(fd, c, target),
             views' = [views EXCEPT ![c] = TellLeave(channels[c], @, target)]
      PROVE  VInv'
  <2> DEFINE C == {c}
  <2>1. /\ target \in Live /\ Leave(target, C) /\ clients' = clients /\ OnChannel(target, c)
        /\ \A x \in Live \ {target} : x \in Live' /\ clients'[x] = clients[x]
    BY <1>5 DEF HandleKick, Designated, Live
  <2>2. c \in C /\ \A d \in ChannelName : d # c => d \notin C
    OBVIOUS
  <2> HIDE DEF C
  <2>3. views' = [d \in ChannelName |-> IF d = c THEN TellLeave(channels[c], views[c], target)
                                       ELSE views[d]]
    BY <1>5 DEF VInv
  <2>4. ASSUME NEW d \in ChannelName
        PROVE  Pictures(clients', ChannelNamed(d)', views'[d])
    <3>1. CASE d = c
      <4>1. Pictures(clients', ChannelNamed(c)', TellLeave(channels[c], views[c], target))
        BY <2>1, <2>2, LeaveTold
      <4> QED
        BY <2>3, <3>1, <4>1
    <3>2. CASE d # c
      <4>1. ChannelNamed(d)' = ChannelNamed(d)
        BY <2>1, <2>2, <3>2 DEF Leave, ChannelNamed, Exists
      <4>2. Pictures(clients', ChannelNamed(d)', views[d])
        BY <2>1, <4>1, PicturesStay
      <4> QED
        BY <2>3, <3>2, <4>2
    <3> QED
      BY <3>1, <3>2
  <2> QED
    BY <2>3, <2>4 DEF VInv
<1> QED
  BY <1>3, <1>4, <1>5, GiveTold, TakeTold DEF RulingTold, Silent

-----------------------------------------------------------------------------
(* The retries of -i *)

\* One of the arrivals: the channel and its pictures after it.
Arrive(p, x) ==
    [ch |-> Admit(clients, p.ch, <<x>>),
     v  |-> TellJoin(clients, Admit(clients, p.ch, <<x>>), p.v, x)]

\* The recursion of TellArrivals, from p and for the first N arrivals.
OneByOne(p, arrivals, N, f) ==
    f = [n \in 0..N |-> IF n = 0 THEN p ELSE Arrive(f[n-1], arrivals[n])]

\* It has a solution.
LEMMA ArrivalsHaveFunction ==
    ASSUME NEW p, NEW arrivals, NEW N \in Nat
    PROVE  \E f : OneByOne(p, arrivals, N, f)
<1> DEFINE Solved(n) ==
             \E f : f = [i \in 0..n |-> IF i = 0 THEN p ELSE Arrive(f[i-1], arrivals[i])]
           unsolved  == {n \in Nat : ~Solved(n)}
<1>1. SUFFICES ASSUME unsolved # {} PROVE FALSE
  BY DEF unsolved, OneByOne
<1> DEFINE n == Min(unsolved)
<1>2. n \in unsolved /\ \A x \in unsolved : n <= x
  BY <1>1, MinIsLeast
<1> HIDE DEF n
<1>3. n \in Nat /\ ~Solved(n)
  BY <1>2
<1>4. CASE n = 0
  <2> DEFINE f == [i \in 0..0 |-> p]
  <2>1. f = [i \in 0..0 |-> IF i = 0 THEN p ELSE Arrive(f[i-1], arrivals[i])]
    OBVIOUS
  <2> HIDE DEF f
  <2> QED
    BY <1>3, <1>4, <2>1
<1>5. CASE n # 0
  <2>1. n - 1 \in Nat /\ n - 1 \notin unsolved
    <3>1. n - 1 \in Nat /\ ~(n <= n - 1)
      BY <1>3, <1>5
    <3> HIDE DEF unsolved
    <3> QED
      BY <1>2, <3>1
  <2>2. Solved(n - 1)
    BY <2>1 DEF unsolved
  <2>3. PICK f : f = [i \in 0..n-1 |-> IF i = 0 THEN p ELSE Arrive(f[i-1], arrivals[i])]
    BY <2>2
  <2> DEFINE g == [i \in 0..n |-> IF i = n THEN Arrive(f[n-1], arrivals[n]) ELSE f[i]]
  <2>4. ASSUME NEW i \in 0..n
        PROVE  g[i] = IF i = 0 THEN p ELSE Arrive(g[i-1], arrivals[i])
    <3>1. CASE i = n
      <4>1. n - 1 \in 0..n /\ n - 1 # n
        BY <1>3, <1>5
      <4> QED
        BY <1>5, <3>1, <4>1
    <3>2. CASE i # n
      <4>1. i \in 0..n-1 /\ (i # 0 => i - 1 \in 0..n /\ i - 1 # n)
        BY <1>3, <3>2
      <4>2. g[i] = f[i] /\ (i # 0 => g[i-1] = f[i-1])
        BY <3>2, <4>1
      <4>3. f[i] = IF i = 0 THEN p ELSE Arrive(f[i-1], arrivals[i])
        BY <2>3, <4>1
      <4> QED
        BY <4>2, <4>3
    <3> QED
      BY <3>1, <3>2
  <2>5. g = [i \in 0..n |-> g[i]]
    OBVIOUS
  <2> HIDE DEF g
  <2>6. g = [i \in 0..n |-> IF i = 0 THEN p ELSE Arrive(g[i-1], arrivals[i])]
    BY <2>4, <2>5
  <2> QED
    BY <1>3, <2>6
<1> QED
  BY <1>4, <1>5

\* TellArrivals goes through the arrivals one by one.
LEMMA ArrivalsSteps ==
    ASSUME NEW ch, NEW v, NEW arrivals \in Seq(Fd)
    PROVE  \E f : /\ f[0] = [ch |-> ch, v |-> v]
                  /\ \A n \in 1..Len(arrivals) : f[n] = Arrive(f[n-1], arrivals[n])
                  /\ TellArrivals(ch, v, arrivals) = f[Len(arrivals)].v
<1> DEFINE p  == [ch |-> ch, v |-> v]
           N  == Len(arrivals)
           f0 == CHOOSE f : f = [n \in 0..N |-> IF n = 0 THEN p ELSE Arrive(f[n-1], arrivals[n])]
<1>1. N \in Nat
  BY LenProperties
<1>2. f0 = [n \in 0..N |-> IF n = 0 THEN p ELSE Arrive(f0[n-1], arrivals[n])]
  <2> HIDE DEF p, N
  <2>1. \E f : OneByOne(p, arrivals, N, f)
    BY <1>1, ArrivalsHaveFunction
  <2> QED
    BY <2>1 DEF OneByOne
<1>3. TellArrivals(ch, v, arrivals) = f0[N].v
  BY DEF TellArrivals, Arrive
<1> HIDE DEF f0, p
<1>4. 0 \in 0..N /\ \A n \in 1..N : n \in 0..N /\ n # 0
  BY <1>1
<1>5. f0[0] = p /\ \A n \in 1..N : f0[n] = Arrive(f0[n-1], arrivals[n])
  BY <1>2, <1>4
<1> QED
  BY <1>3, <1>5 DEF p

Manned(ch) == \E m \in Range(ch.members) : IsHuman(clients, m)

FirstHuman(arrivals) ==
    {i \in DOMAIN arrivals : /\ IsHuman(clients, arrivals[i])
                             /\ \A j \in 1..(i-1) : ~IsHuman(clients, arrivals[j])}

\* The operators of ch after its first n arrivals, and of a after that of x.
Ranks(ch, arrivals, n) ==
    IF Manned(ch) THEN ch.operators
    ELSE ch.operators \cup {arrivals[i] : i \in {j \in FirstHuman(arrivals) : j <= n}}

RanksWith(a, x) ==
    IF Manned(a) THEN a.operators
    ELSE a.operators \cup (IF IsHuman(clients, x) THEN {x} ELSE {})

\* Channel a is ch after its first n arrivals.
Entered(ch, arrivals, n, a) ==
    /\ a \in ChannelRecord
    /\ Len(a.members) = Len(ch.members) + n
    /\ \A i \in 1..Len(ch.members) : a.members[i] = ch.members[i]
    /\ \A i \in 1..n : a.members[Len(ch.members) + i] = arrivals[i]
    /\ a.halfOperators = ch.halfOperators
    /\ a.operators = Ranks(ch, arrivals, n)

\* Before the first.
LEMMA EnteredNone ==
    ASSUME NEW ch \in ChannelRecord, NEW arrivals \in Seq(Fd)
    PROVE  Entered(ch, arrivals, 0, ch)
<1>1. Len(ch.members) \in Nat
  BY LenProperties DEF ChannelRecord
<1> DEFINE now == {j \in FirstHuman(arrivals) : j <= 0}
           new == {arrivals[i] : i \in now}
<1>2. now = {}
  BY LenProperties DEF FirstHuman
<1> HIDE DEF now
<1>3. new = {}
  BY <1>2
<1> HIDE DEF new
<1>4. ch.operators = IF Manned(ch) THEN ch.operators ELSE ch.operators \cup new
  BY <1>3
<1>5. Len(ch.members) = Len(ch.members) + 0 /\ \A i \in 1..0 : FALSE
  BY <1>1
<1> QED
  BY <1>4, <1>5 DEF Entered, Ranks, now, new

\* Who is in.
LEMMA EnteredMembers ==
    ASSUME NEW ch \in ChannelRecord, NEW arrivals \in Seq(Fd), NEW n \in 0..Len(arrivals),
           NEW a, Entered(ch, arrivals, n, a)
    PROVE  Range(a.members) = Range(ch.members) \cup {arrivals[i] : i \in 1..n}
<1> DEFINE L == Len(ch.members)
           s == a.members
           r == ch.members
<1>1. /\ L \in Nat /\ n \in Nat /\ DOMAIN r = 1..L
      /\ DOMAIN s = 1..L+n
      /\ \A i \in 1..L : s[i] = r[i]
      /\ \A i \in 1..n : s[L+i] = arrivals[i]
  <2>1. r \in Seq(Fd) /\ s \in Seq(Fd)
    BY DEF ChannelRecord, Entered
  <2>2. Len(s) = L + n /\ n \in Nat
    BY LenProperties DEF Entered
  <2> QED
    BY <2>1, <2>2, LenProperties DEF Entered
<1> HIDE DEF L, s, r
<1>2. ASSUME NEW i \in 1..L+n
      PROVE  i \in 1..L \/ (i - L \in 1..n /\ L + (i - L) = i)
  BY <1>1
<1>3. \A i \in 1..L : i \in 1..L+n
  BY <1>1
<1>4. \A i \in 1..n : L + i \in 1..L+n
  BY <1>1
<1>5. Range(s) \subseteq Range(r) \cup {arrivals[i] : i \in 1..n}
  <2>1. ASSUME NEW i \in 1..L+n
        PROVE  s[i] \in Range(r) \cup {arrivals[j] : j \in 1..n}
    <3>1. CASE i \in 1..L
      BY <1>1, <3>1 DEF Range
    <3>2. CASE i - L \in 1..n /\ L + (i - L) = i
      BY <1>1, <3>2
    <3> QED
      BY <1>2, <3>1, <3>2
  <2> QED
    BY <1>1, <2>1 DEF Range
<1>6. Range(r) \subseteq Range(s)
  BY <1>1, <1>3 DEF Range
<1>7. {arrivals[i] : i \in 1..n} \subseteq Range(s)
  BY <1>1, <1>4 DEF Range
<1> QED
  BY <1>5, <1>6, <1>7 DEF s, r

\* The operators after the next arrival.
LEMMA EnteredRanks ==
    ASSUME NEW ch \in ChannelRecord, NEW arrivals \in Seq(Fd), NEW n \in 1..Len(arrivals),
           NEW a, Entered(ch, arrivals, n - 1, a)
    PROVE  RanksWith(a, arrivals[n]) = Ranks(ch, arrivals, n)
<1> DEFINE O        == RanksWith(a, arrivals[n])
           x        == arrivals[n]
           Upto(m)  == {j \in FirstHuman(arrivals) : j <= m}
           First(m) == {arrivals[i] : i \in Upto(m)}
           some     == \E i \in 1..n-1 : IsHuman(clients, arrivals[i])
<1>1. /\ n \in Nat /\ n \in DOMAIN arrivals /\ n - 1 \in 0..Len(arrivals)
      /\ DOMAIN arrivals \subseteq Nat \ {0}
  BY LenProperties
<1>2. n \in FirstHuman(arrivals) <=> IsHuman(clients, x) /\ ~some
  BY <1>1 DEF FirstHuman
<1>3. Upto(n) = IF n \in FirstHuman(arrivals) THEN Upto(n-1) \cup {n} ELSE Upto(n-1)
  <2>1. FirstHuman(arrivals) \subseteq Nat
    BY <1>1 DEF FirstHuman
  <2>2. \A j \in FirstHuman(arrivals) : j <= n <=> j <= n-1 \/ j = n
    BY <1>1, <2>1
  <2> QED
    BY <1>1, <2>2
<1> HIDE DEF Upto
<1>4. First(n) = IF n \in FirstHuman(arrivals) THEN First(n-1) \cup {x} ELSE First(n-1)
  BY <1>3
<1>5. a.operators = IF Manned(ch) THEN ch.operators ELSE ch.operators \cup First(n-1)
  BY DEF Entered, Ranks, Upto
<1>6. Manned(a) <=> Manned(ch) \/ some
  <2>1. Range(a.members) = Range(ch.members) \cup {arrivals[i] : i \in 1..n-1}
    BY <1>1, EnteredMembers
  <2> QED
    BY <2>1 DEF Manned
<1> HIDE DEF First, some, x
<1>7. CASE Manned(ch)
  BY <1>5, <1>6, <1>7 DEF Ranks, RanksWith
<1>8. CASE ~Manned(ch)
  <2>1. CASE some
    BY <1>2, <1>4, <1>5, <1>6, <1>8, <2>1 DEF Ranks, RanksWith, First, Upto
  <2>2. CASE ~some
    <3>1. O = a.operators \cup (IF IsHuman(clients, x) THEN {x} ELSE {})
      BY <1>6, <1>8, <2>2 DEF RanksWith, x
    <3>2. O = ch.operators \cup First(n)
      BY <1>2, <1>4, <1>5, <1>8, <2>2, <3>1
    <3> QED
      BY <1>8, <3>2 DEF Ranks, First, Upto
  <2> QED
    BY <2>1, <2>2
<1> QED
  BY <1>7, <1>8

\* The next arrival.
LEMMA EnteredNext ==
    ASSUME NEW ch \in ChannelRecord, NEW arrivals \in Seq(Fd), NEW n \in 1..Len(arrivals),
           NEW a, Entered(ch, arrivals, n - 1, a)
    PROVE  Entered(ch, arrivals, n, Admit(clients, a, <<arrivals[n]>>))
<1> DEFINE x   == arrivals[n]
           one == <<x>>
           b   == Admit(clients, a, one)
           L   == Len(ch.members)
           first == {i \in DOMAIN one :
                        /\ IsHuman(clients, one[i])
                        /\ \A j \in 1..(i-1) : ~IsHuman(clients, one[j])}
<1>1. x \in Fd /\ n \in Nat
  BY LenProperties
<1>2. a \in ChannelRecord /\ one \in Seq(Fd) /\ a.members \in Seq(Fd)
  BY <1>1 DEF Entered, ChannelRecord
<1>3. b \in ChannelRecord
  <2> HIDE DEF one
  <2> QED
    BY <1>2, AdmitType
<1>4. {one[i] : i \in first} = IF IsHuman(clients, x) THEN {x} ELSE {}
  OBVIOUS
<1>5. /\ b.members = a.members \o one
      /\ b.halfOperators = a.halfOperators
      /\ b.operators = IF Manned(a) THEN a.operators ELSE a.operators \cup {one[i] : i \in first}
  BY <1>2 DEF Admit, ChannelRecord, Manned
<1>6. b.members = Append(a.members, x)
  BY <1>1, <1>2, <1>5, AppendIsConcat
<1>7. L \in Nat /\ Len(a.members) = L + (n - 1)
  BY LenProperties DEF Entered, ChannelRecord
<1> HIDE DEF b, first, one
<1>8. /\ Len(b.members) = L + n
      /\ \A i \in 1..L+(n-1) : b.members[i] = a.members[i]
      /\ b.members[L+n] = x
  <2>1. (L + (n - 1)) + 1 = L + n
    BY <1>1, <1>7
  <2> QED
    BY <1>1, <1>2, <1>6, <1>7, <2>1, AppendProperties, LenProperties
<1>9. b.operators = RanksWith(a, x)
  BY <1>4, <1>5 DEF RanksWith
<1>10. b.operators = Ranks(ch, arrivals, n)
  BY <1>9, EnteredRanks
<1> HIDE DEF x
<1>11. \A i \in 1..L : b.members[i] = ch.members[i]
  <2>1. \A i \in 1..L : i \in 1..L+(n-1)
    BY <1>1, <1>7
  <2> QED
    BY <1>8, <2>1 DEF Entered, L
<1>12. \A i \in 1..n : b.members[L+i] = arrivals[i]
  <2>1. ASSUME NEW i \in 1..n
        PROVE  b.members[L+i] = arrivals[i]
    <3>1. CASE i = n
      BY <1>8, <3>1 DEF x
    <3>2. CASE i # n
      <4>1. i \in 1..n-1 /\ L + i \in 1..L+(n-1)
        BY <1>1, <1>7, <3>2
      <4> QED
        BY <1>8, <4>1 DEF Entered, L
    <3> QED
      BY <3>1, <3>2
  <2> QED
    BY <2>1
<1>13. b.halfOperators = ch.halfOperators
  BY <1>5 DEF Entered
<1> QED
  BY <1>3, <1>8, <1>10, <1>11, <1>12, <1>13 DEF Entered, b, L, one, x

\* All of them: what Admit makes at once.
LEMMA EnteredAll ==
    ASSUME NEW ch \in ChannelRecord, NEW arrivals \in Seq(Fd),
           NEW a, Entered(ch, arrivals, Len(arrivals), a)
    PROVE  LET next == Admit(clients, ch, arrivals)
           IN  /\ next.members = a.members
               /\ next.operators = a.operators
               /\ next.halfOperators = a.halfOperators
<1> DEFINE next == Admit(clients, ch, arrivals)
           L    == Len(ch.members)
           N    == Len(arrivals)
<1>1. /\ next.members = ch.members \o arrivals
      /\ next.halfOperators = ch.halfOperators
      /\ next.operators = IF Manned(ch) THEN ch.operators
                          ELSE ch.operators \cup {arrivals[i] : i \in FirstHuman(arrivals)}
  BY DEF Admit, ChannelRecord, Manned, FirstHuman
<1> HIDE DEF next
<1>2. /\ ch.members \in Seq(Fd) /\ a.members \in Seq(Fd) /\ L \in Nat /\ N \in Nat
      /\ Len(a.members) = L + N
  BY LenProperties DEF Entered, ChannelRecord
<1>3. next.members = a.members
  <2>1. /\ next.members \in Seq(Fd) /\ Len(next.members) = L + N
        /\ \A i \in 1..L+N : next.members[i] = IF i <= L THEN ch.members[i] ELSE arrivals[i - L]
    BY <1>1, <1>2, ConcatProperties
  <2>2. ASSUME NEW i \in 1..L+N
        PROVE  a.members[i] = IF i <= L THEN ch.members[i] ELSE arrivals[i - L]
    <3>1. CASE i <= L
      <4>1. i \in 1..L
        BY <1>2, <3>1
      <4> QED
        BY <3>1, <4>1 DEF Entered
    <3>2. CASE ~(i <= L)
      <4>1. i - L \in 1..N /\ L + (i - L) = i
        BY <1>2, <3>2
      <4>2. \A k \in 1..N : a.members[L + k] = arrivals[k]
        BY DEF Entered
      <4>3. a.members[L + (i - L)] = arrivals[i - L]
        BY <4>1, <4>2
      <4> QED
        BY <3>2, <4>1, <4>3
    <3> QED
      BY <3>1, <3>2
  <2> HIDE DEF L, N
  <2>3. \A i \in 1..L+N : a.members[i] = next.members[i]
    BY <2>1, <2>2
  <2> QED
    BY <1>2, <2>1, <2>3, SeqEqual
<1>4. {j \in FirstHuman(arrivals) : j <= N} = FirstHuman(arrivals)
  BY LenProperties DEF FirstHuman
<1>5. next.operators = a.operators
  BY <1>1, <1>4 DEF Entered, Ranks
<1>6. next.halfOperators = a.halfOperators
  BY <1>1 DEF Entered
<1> QED
  BY <1>3, <1>5, <1>6 DEF next

\* What the pictures are of.
LEMMA PicturesSame ==
    ASSUME NEW cl, NEW ch, NEW v, Pictures(cl, ch, v), NEW next, next.members = ch.members,
           next.operators = ch.operators, next.halfOperators = ch.halfOperators
    PROVE  Pictures(cl, next, v)
<1>1. Halfs(next) = Halfs(ch)
  BY DEF Halfs
<1> QED
  BY <1>1 DEF Pictures, Pictured

\* The arrivals are told one after the other.
LEMMA ArrivalsTold ==
    ASSUME NEW ch \in ChannelRecord, NEW v, Pictures(clients, ch, v),
           NEW arrivals \in Seq(Fd), IsInjective(arrivals),
           Range(arrivals) \cap Range(ch.members) = {}, IsInjective(ch.members),
           Distinct(clients, Range(ch.members) \cup Range(arrivals)),
           Range(ch.members) \cup Range(arrivals) \subseteq DOMAIN clients,
           Range(ch.halfOperators) \subseteq Range(ch.members)
    PROVE  Pictures(clients, Admit(clients, ch, arrivals), TellArrivals(ch, v, arrivals))
<1> DEFINE N == Len(arrivals)
<1>1. PICK f : /\ f[0] = [ch |-> ch, v |-> v]
               /\ \A n \in 1..N : f[n] = Arrive(f[n-1], arrivals[n])
               /\ TellArrivals(ch, v, arrivals) = f[N].v
  BY ArrivalsSteps
<1>2. N \in Nat /\ DOMAIN arrivals = 1..N
  BY LenProperties
<1> DEFINE Good(n) == /\ Entered(ch, arrivals, n, f[n].ch)
                      /\ IsInjective(f[n].ch.members)
                      /\ Pictures(clients, f[n].ch, f[n].v)
           bad     == {n \in 0..N : ~Good(n)}
<1>3. Good(0)
  BY <1>1, EnteredNone
<1>4. ASSUME NEW n \in 1..N, Good(n-1)
      PROVE  Good(n)
  <2> DEFINE a == f[n-1].ch
             w == f[n-1].v
             x == arrivals[n]
             b == Admit(clients, a, <<x>>)
  <2>1. /\ Entered(ch, arrivals, n - 1, a) /\ Pictures(clients, a, w)
        /\ a \in ChannelRecord /\ IsInjective(a.members)
    BY <1>4 DEF Entered
  <2>2. f[n].ch = b /\ f[n].v = TellJoin(clients, b, w, x)
    <3>1. f[n] = Arrive(f[n-1], x)
      BY <1>1
    <3> QED
      BY <3>1 DEF Arrive
  <2>3. x \in Fd /\ x \in Range(arrivals)
    BY <1>2, ElementOfSeq DEF Range
  <2>4. Range(a.members) = Range(ch.members) \cup {arrivals[i] : i \in 1..n-1}
    <3>1. n - 1 \in 0..Len(arrivals)
      BY <1>2
    <3> HIDE DEF a
    <3> QED
      BY <2>1, <3>1, EnteredMembers
  <2>5. x \notin {arrivals[i] : i \in 1..n-1}
    <3>1. \A i \in 1..n-1 : i \in DOMAIN arrivals /\ n \in DOMAIN arrivals /\ i # n
      BY <1>2
    <3> QED
      BY <3>1 DEF IsInjective
  <2>6. a.halfOperators = ch.halfOperators
    BY <2>1 DEF Entered
  <2> HIDE DEF a, b, w, x
  <2>7. x \notin Range(a.members) /\ Range(a.halfOperators) \subseteq Range(a.members)
    BY <2>3, <2>4, <2>5, <2>6
  <2>8. Entered(ch, arrivals, n, b)
    BY <2>1, EnteredNext DEF b, x
  <2>9. Distinct(clients, Range(a.members)) /\ Range(a.members) \subseteq DOMAIN clients
    <3>1. \A i \in 1..n-1 : i \in DOMAIN arrivals
      BY <1>2
    <3>2. {arrivals[i] : i \in 1..n-1} \subseteq Range(arrivals)
      BY <3>1 DEF Range
    <3> QED
      BY <2>4, <3>2 DEF Distinct
  <2>10. Pictures(clients, b, TellJoin(clients, b, w, x))
    BY <2>1, <2>3, <2>7, <2>9, NewcomerTold DEF b
  <2>11. IsInjective(b.members)
    <3>1. a.members \in Seq(Fd) /\ b.members = a.members \o <<x>>
      BY <2>1 DEF ChannelRecord, Admit, b
    <3>2. b.members = Append(a.members, x)
      BY <2>3, <3>1, AppendIsConcat
    <3>3. x \notin Range(a.members) /\ IsInjective(a.members)
      BY <2>1, <2>7
    <3>4. IsInjective(Append(a.members, x))
      BY <2>3, <3>1, <3>3, AppendElements
    <3> QED
      BY <3>2, <3>4
  <2> QED
    BY <2>2, <2>8, <2>10, <2>11
<1> HIDE DEF Good
<1>5. bad = {}
  <2>1. SUFFICES ASSUME bad # {} PROVE FALSE
    OBVIOUS
  <2> DEFINE k == Min(bad)
  <2>2. bad \in SUBSET Nat
    BY <1>2
  <2>3. k \in bad /\ \A n \in bad : k <= n
    BY <2>1, <2>2, MinIsLeast
  <2> HIDE DEF k
  <2>4. k \in 1..N /\ k - 1 \in 0..N /\ ~(k <= k - 1)
    BY <1>2, <1>3, <2>3
  <2>5. Good(k-1)
    BY <2>3, <2>4
  <2> QED
    BY <1>4, <2>3, <2>4, <2>5
<1>6. Good(N)
  BY <1>2, <1>5
<1> DEFINE a    == f[N].ch
           next == Admit(clients, ch, arrivals)
<1>7. Entered(ch, arrivals, N, a) /\ Pictures(clients, a, f[N].v)
  BY <1>6 DEF Good
<1> HIDE DEF a
<1>8. /\ next.members = a.members /\ next.operators = a.operators
      /\ next.halfOperators = a.halfOperators
  BY <1>7, EnteredAll
<1> HIDE DEF next
<1>9. Pictures(clients, next, f[N].v)
  BY <1>7, <1>8, PicturesSame
<1> QED
  BY <1>1, <1>9 DEF next

\* There is one way to put those admitted in order.
LEMMA ArrivalsUnique ==
    ASSUME TypeOK, NEW c \in ChannelName, NEW s \in Ascending(Admissible(c)),
           NEW t \in Ascending(Admissible(c))
    PROVE  s = t
<1> DEFINE A == Admissible(c)
           n == Cardinality(A)
           differ == {i \in 1..n : s[i] # t[i]}
<1>1. /\ n \in Nat /\ Range(s) = A /\ Range(t) = A /\ \A x \in A : x \in Nat
  BY ArrivalsAreAdmissible, FdAssumption
<1>2. /\ s \in [1..n -> A] /\ t \in [1..n -> A]
      /\ \A i, j \in 1..n : i < j => s[i] < s[j] /\ t[i] < t[j]
  BY DEF Ascending
<1> HIDE DEF A, n
<1>3. ASSUME NEW a \in [1..n -> A], NEW b \in [1..n -> A],
             \A i, j \in 1..n : i < j => a[i] < a[j] /\ b[i] < b[j],
             Range(b) = A, NEW k \in 1..n, \A i \in 1..n : i < k => a[i] = b[i], a[k] < b[k]
      PROVE  FALSE
  <2>1. PICK j \in 1..n : b[j] = a[k]
    BY <1>3 DEF Range
  <2>2. a[k] \in Nat /\ b[k] \in Nat /\ b[j] \in Nat /\ a[j] \in Nat
    BY <1>1
  <2>3. CASE j < k
    <3>1. a[j] < a[k] /\ a[j] = b[j]
      BY <1>3, <2>3
    <3> QED
      BY <2>1, <2>2, <3>1
  <2>4. CASE ~(j < k)
    <3>1. j = k \/ b[k] < b[j]
      BY <1>1, <1>3, <2>4
    <3> QED
      BY <1>3, <2>1, <2>2, <3>1
  <2> QED
    BY <2>3, <2>4
<1>4. differ = {}
  <2>1. SUFFICES ASSUME differ # {} PROVE FALSE
    OBVIOUS
  <2> DEFINE k == Min(differ)
  <2>2. differ \in SUBSET Nat
    BY <1>1
  <2>3. k \in differ /\ \A i \in differ : k <= i
    BY <2>1, <2>2, MinIsLeast
  <2> HIDE DEF k
  <2>4. k \in 1..n /\ \A i \in 1..n : i < k => s[i] = t[i]
    BY <1>1, <2>3
  <2>5. s[k] < t[k] \/ t[k] < s[k]
    <3>1. s[k] \in Nat /\ t[k] \in Nat /\ s[k] # t[k]
      BY <1>1, <1>2, <2>3
    <3> QED
      BY <3>1
  <2> QED
    BY <1>1, <1>2, <1>3, <2>4, <2>5
<1>5. \A i \in 1..n : s[i] = t[i]
  BY <1>4
<1>6. s = [i \in 1..n |-> s[i]] /\ t = [i \in 1..n |-> t[i]]
  BY <1>2
<1> QED
  BY <1>5, <1>6

\* MODE -i: those refused before are let in and told.
LEMMA OpenTold ==
    ASSUME IInv, AllAccepted, VInv, NEW fd \in Fd, NEW c \in ChannelName,
           ClearInviteOnly(fd, c), NEW arrivals \in Ascending(Admissible(c)),
           views' = [views EXCEPT ![c] =
                       TellArrivals([channels[c] EXCEPT !.inviteOnly = FALSE], @, arrivals)]
    PROVE  VInv'
<1> DEFINE open == [channels[c] EXCEPT !.inviteOnly = FALSE]
           ch   == channels[c]
           v    == views[c]
<1>1. c \in DOMAIN channels /\ clients' = clients /\ ChannelNamed(c) = ch
  BY DEF ClearInviteOnly, MayChangeMode, OnChannel, Exists, ChannelNamed
<1>2. channels' = [channels EXCEPT ![c] = Admit(clients, open, arrivals)]
  <2>1. PICK s \in Ascending(Admissible(c)) :
           channels' = [channels EXCEPT ![c] = Admit(clients, open, s)]
    BY <1>1 DEF ClearInviteOnly
  <2>2. s = arrivals
    BY ArrivalsUnique DEF IInv
  <2> QED
    BY <2>1, <2>2
<1>3. views' = [views EXCEPT ![c] = TellArrivals(open, v, arrivals)]
  OBVIOUS
<1>4. Pictures(clients, ch, v) /\ ch \in ChannelRecord
      /\ Range(ch.halfOperators) \subseteq Range(ch.members)
  BY <1>1, NamedRanked DEF VInv
<1>5. /\ open \in ChannelRecord /\ open.members = ch.members
      /\ open.operators = ch.operators /\ open.halfOperators = ch.halfOperators
  BY <1>4 DEF ChannelRecord
<1>6. \A x \in Admissible(c) : x \notin Range(ch.members)
  BY <1>1 DEF Admissible, Waiting, OnChannel, Exists, HasClient
<1> HIDE DEF open, ch, v
<1>7. arrivals \in Seq(Fd) /\ Range(arrivals) = Admissible(c) /\ IsInjective(arrivals)
  <2>1. TypeOK
    BY DEF IInv
  <2> QED
    BY <2>1, AscendingType, ArrivalsAreAdmissible
<1>8. /\ IsInjective(ch.members)
      /\ Range(ch.members) \cup Range(arrivals) \subseteq Live
      /\ Distinct(clients, Range(ch.members) \cup Range(arrivals))
  <2>1. Ranked(clients, ch)
    BY <1>1, NamedRanked
  <2>2. \A x \in Range(ch.members) \cup Range(arrivals) : Registered(x)
    BY <1>7, <2>1 DEF Ranked, Admissible, Waiting, Registered, Live
  <2>3. \A x : Registered(x) => x \in Live /\ clients[x].nick # NoNick
    BY DEF AllAccepted, Accepted, Registered, Live
  <2>4. Distinct(clients, Range(ch.members) \cup Range(arrivals))
    BY <2>2, <2>3 DEF Distinct, IInv, NicknamesUnique
  <2> QED
    BY <2>1, <2>2, <2>3, <2>4 DEF Ranked
<1>9. Pictures(clients, open, v)
  BY <1>4, <1>5, PicturesSame
<1>10. /\ Range(arrivals) \cap Range(open.members) = {}
       /\ Range(open.halfOperators) \subseteq Range(open.members)
       /\ IsInjective(open.members)
       /\ Distinct(clients, Range(open.members) \cup Range(arrivals))
       /\ Range(open.members) \cup Range(arrivals) \subseteq DOMAIN clients
  BY <1>4, <1>5, <1>6, <1>7, <1>8 DEF Live
<1>11. Pictures(clients, Admit(clients, open, arrivals), TellArrivals(open, v, arrivals))
  BY <1>5, <1>7, <1>9, <1>10, ArrivalsTold
<1> QED
  BY <1>1, <1>2, <1>3, <1>11, PicturesUpdate

\* MODE +t, -t, +i, +k, -k, +l and -l, which say nothing of members and ranks, and -i.
LEMMA ViewsChangingMode ==
    ASSUME IInv, AllAccepted, VInv, NEW fd \in Fd, NEW c \in ChannelName, ChangingModeTold(fd, c)
    PROVE  VInv'
<1>1. ASSUME NEW ch, UNCHANGED <<clients, views>>, c \in DOMAIN channels,
             channels' = [channels EXCEPT ![c] = ch],
             ch.members = channels[c].members, ch.operators = channels[c].operators,
             ch.halfOperators = channels[c].halfOperators
      PROVE  VInv'
  <2>1. ASSUME NEW d \in ChannelName
        PROVE  /\ ChannelNamed(d)'.members = ChannelNamed(d).members
               /\ ChannelNamed(d)'.operators = ChannelNamed(d).operators
               /\ ChannelNamed(d)'.halfOperators = ChannelNamed(d).halfOperators
    BY <1>1 DEF ChannelNamed, Exists
  <2> QED
    BY <1>1, <2>1, PicturesSilent
<1>2. c \in DOMAIN channels => channels[c] \in ChannelRecord
  BY DEF IInv, TypeOK
<1>3. MayChangeMode(fd, c) => c \in DOMAIN channels
  BY DEF MayChangeMode, OnChannel, Exists
<1>4. ASSUME NEW x, UNCHANGED <<clients, views>>, MayChangeMode(fd, c),
             \/ channels' = [channels EXCEPT ![c].topicRestricted = x]
             \/ channels' = [channels EXCEPT ![c].inviteOnly = x]
             \/ channels' = [channels EXCEPT ![c].key = x]
             \/ channels' = [channels EXCEPT ![c].limit = x]
      PROVE  VInv'
  <2>1. c \in DOMAIN channels /\ channels[c] \in ChannelRecord
    BY <1>2, <1>3, <1>4
  <2> DEFINE next == channels'[c]
  <2>2. channels' = [channels EXCEPT ![c] = next]
    BY <1>4
  <2>3. /\ next.members = channels[c].members /\ next.operators = channels[c].operators
        /\ next.halfOperators = channels[c].halfOperators
    BY <1>4, <2>1 DEF ChannelRecord
  <2> HIDE DEF next
  <2> QED
    BY <1>1, <1>4, <2>1, <2>2, <2>3
<1>5. ASSUME ClearInviteOnly(fd, c),
             \E arrivals \in Ascending(Admissible(c)) :
                views' = [views EXCEPT ![c] =
                   TellArrivals([channels[c] EXCEPT !.inviteOnly = FALSE], @, arrivals)]
      PROVE  VInv'
  BY <1>5, OpenTold
<1>6. ASSUME NEW value, SetTopicRestricted(fd, c, value), UNCHANGED views
      PROVE  VInv'
  BY <1>4, <1>6 DEF SetTopicRestricted
<1>7. ASSUME SetInviteOnly(fd, c), UNCHANGED views
      PROVE  VInv'
  BY <1>4, <1>7 DEF SetInviteOnly
<1>8. ASSUME NEW key, SetKey(fd, c, key), UNCHANGED views
      PROVE  VInv'
  BY <1>4, <1>8 DEF SetKey
<1>9. ASSUME RemoveKey(fd, c), UNCHANGED views
      PROVE  VInv'
  BY <1>4, <1>9 DEF RemoveKey
<1>10. ASSUME NEW limit, SetLimit(fd, c, limit), UNCHANGED views
       PROVE  VInv'
  BY <1>4, <1>10 DEF SetLimit
<1>11. ASSUME RemoveLimit(fd, c), UNCHANGED views
       PROVE  VInv'
  BY <1>4, <1>11 DEF RemoveLimit
<1> QED
  BY <1>5, <1>6, <1>7, <1>8, <1>9, <1>10, <1>11 DEF ChangingModeTold, Silent

-----------------------------------------------------------------------------
(* Theorems *)

\* What is announced is done by the commands of IrcServer.
LEMMA ToldIsDone == [NextTold]_viewVars => [Next]_vars
<1>1. ASSUME NEW fd \in Fd, ConnectionTold(fd)
      PROVE  Connection(fd)
  BY <1>1 DEF ConnectionTold, Connection
<1>2. ASSUME NEW fd \in Fd, RegisteringTold(fd)
      PROVE  Registering(fd)
  BY <1>2 DEF RegisteringTold, Registering
<1>3. ASSUME NEW fd \in Fd, JoiningTold(fd)
      PROVE  Joining(fd)
  BY <1>3 DEF JoiningTold, Joining
<1>4. ASSUME NEW fd \in Fd, NEW c \in ChannelName, RulingTold(fd, c)
      PROVE  Ruling(fd, c)
  BY <1>4 DEF RulingTold, Ruling
<1>5. ASSUME NEW fd \in Fd, NEW c \in ChannelName, ChangingModeTold(fd, c)
      PROVE  ChangingMode(fd, c)
  BY <1>5 DEF ChangingModeTold, ChangingMode
<1>6. NextTold => Next
  BY <1>1, <1>2, <1>3, <1>4, <1>5 DEF NextTold, Next
<1>7. UNCHANGED viewVars => UNCHANGED vars
  BY DEF viewVars
<1> QED
  BY <1>6, <1>7

\* The inductive invariant: that of the server, and a right picture for every
\* member of every channel.
ToldInv == IInv /\ AllAccepted /\ VInv

\* Nobody has been told anything, and no channel exists.
LEMMA ToldInit == InitViews => ToldInv
<1>1. InitViews => IInv
  BY InvInit DEF InitViews
<1>2. InitViews => AllAccepted
  BY DEF InitViews, Init, AllAccepted, Live
<1>3. InitViews => VInv
  <2> SUFFICES ASSUME InitViews PROVE VInv
    OBVIOUS
  <2>1. views = [c \in ChannelName |-> [w \in {} |-> {}]] /\ DOMAIN channels = {}
    BY DEF InitViews, Init
  <2>2. ASSUME NEW c \in ChannelName
        PROVE  Pictures(clients, ChannelNamed(c), views[c])
    <3>1. Range(ChannelNamed(c).members) = {}
      BY <2>1 DEF ChannelNamed, Exists, NewChannel, Range
    <3>2. views[c] = [w \in {} |-> {}]
      BY <2>1
    <3> QED
      BY <3>1, <3>2, NoPictures
  <2>3. views = [c \in ChannelName |-> views[c]]
    BY <2>1
  <2> QED
    BY <2>2, <2>3 DEF VInv
<1> QED
  BY <1>1, <1>2, <1>3 DEF ToldInv

\* The invariant is inductive.
LEMMA ToldNext == ToldInv /\ [NextTold]_viewVars => ToldInv'
<1> SUFFICES ASSUME ToldInv, [NextTold]_viewVars PROVE ToldInv'
  OBVIOUS
<1>1. IInv /\ AllAccepted /\ VInv /\ [Next]_vars
  BY ToldIsDone DEF ToldInv
<1>2. IInv' /\ AllAccepted'
  BY <1>1, InvNext, AcceptedNext DEF IInv
<1>3. CASE NextTold
  <2>1. PICK fd \in Fd :
           \/ ConnectionTold(fd)
           \/ RegisteringTold(fd)
           \/ JoiningTold(fd)
           \/ \E c \in ChannelName : RulingTold(fd, c) \/ ChangingModeTold(fd, c)
    BY <1>3 DEF NextTold
  <2>2. VInv'
    BY <1>1, <2>1, ViewsConnection, ViewsRegistering, ViewsJoining, ViewsRuling, ViewsChangingMode
  <2> QED
    BY <1>2, <2>2 DEF ToldInv
<1>4. CASE UNCHANGED viewVars
  <2>1. VInv'
    BY <1>1, <1>4 DEF viewVars, vars, VInv, ChannelNamed, Exists
  <2> QED
    BY <1>2, <2>1 DEF ToldInv
<1> QED
  BY <1>3, <1>4

\* The invariant holds in every state of every behaviour.
LEMMA ToldCorrect == SpecTold => []ToldInv
BY ToldInit, ToldNext, PTL DEF SpecTold

\* Announcing adds a variable to the server and takes no behaviour from it:
\* what is proved of IrcServer holds here.
THEOREM ToldImplementsSpec == SpecTold => Spec
<1>1. InitViews => Init
  BY DEF InitViews
<1> QED
  BY <1>1, ToldIsDone, PTL DEF SpecTold, Spec

\* Those that were told they are on a channel are those that are: by their own
\* JOIN, at the end of their registration, when -i lets them in, and no longer
\* when they have left or were kicked.  And to each of them the announcements of
\* JOIN, PART, KICK, QUIT, NICK, MODE and of the succession add up to the members,
\* operators and half-operators there are, but for one operator: the first human
\* that came in when the member was alone, as long as they are the eldest two.
THEOREM AnnouncementsAddUp == SpecTold => []ViewsTrue
<1>1. ToldInv => ViewsTrue
  <2> SUFFICES ASSUME ToldInv, NEW c \in ChannelName
               PROVE  /\ DOMAIN views[c] = {fd \in Fd : OnChannel(fd, c)}
                      /\ \A fd \in DOMAIN views[c] :
                            /\ views[c][fd].members = Listed(clients, channels[c]).members
                            /\ views[c][fd].halfs = Listed(clients, channels[c]).halfs
                            /\ views[c][fd].ops \subseteq Listed(clients, channels[c]).ops
                            /\ Listed(clients, channels[c]).ops \ views[c][fd].ops
                                  \subseteq Names(clients, Untold(fd, c))
    BY DEF ViewsTrue
  <2>1. DOMAIN views[c] = {fd \in Fd : OnChannel(fd, c)}
    <3>1. DOMAIN views[c] = Range(ChannelNamed(c).members)
      BY DEF ToldInv, VInv, Pictures
    <3>2. \A fd : fd \in Range(ChannelNamed(c).members) <=> OnChannel(fd, c)
      BY DEF ChannelNamed, OnChannel, HasClient, NewChannel, Range
    <3>3. Range(ChannelNamed(c).members) \subseteq Fd
      BY NamedRanked DEF ToldInv, IInv, TypeOK
    <3> QED
      BY <3>1, <3>2, <3>3
  <2>2. ASSUME NEW fd \in DOMAIN views[c]
        PROVE  /\ views[c][fd].members = Listed(clients, channels[c]).members
               /\ views[c][fd].halfs = Listed(clients, channels[c]).halfs
               /\ views[c][fd].ops \subseteq Listed(clients, channels[c]).ops
               /\ Listed(clients, channels[c]).ops \ views[c][fd].ops
                     \subseteq Names(clients, Untold(fd, c))
    <3> DEFINE ch   == channels[c]
               view == views[c][fd]
    <3>1. ChannelNamed(c) = ch
      BY <2>1, <2>2 DEF OnChannel, ChannelNamed
    <3>2. Pictured(clients, ch, fd, view)
      BY <2>2, <3>1 DEF ToldInv, VInv, Pictures
    <3>3. PICK O \in SUBSET ch.operators :
             /\ view = Picture(clients, Range(ch.members), O, Halfs(ch))
             /\ \A o \in ch.operators \ O : AreFirst(ch.members, fd, o)
      BY <3>2 DEF Pictured
    <3>4. /\ view.members = Names(clients, Range(ch.members))
          /\ view.halfs = Names(clients, Range(ch.halfOperators) \ ch.operators)
          /\ view.ops = Names(clients, O)
      BY <3>3 DEF Picture, Halfs
    <3>5. Names(clients, O) \subseteq Names(clients, ch.operators)
      BY DEF Names
    <3>6. ASSUME NEW n \in Names(clients, ch.operators), n \notin Names(clients, O)
          PROVE  n \in Names(clients, Untold(fd, c))
      <4>1. PICK o \in ch.operators : n = clients[o].nick
        BY DEF Names
      <4>2. o \notin O
        BY <3>6, <4>1 DEF Names
      <4>3. o \in Untold(fd, c)
        BY <3>3, <4>1, <4>2 DEF Untold
      <4> QED
        BY <4>1, <4>3 DEF Names
    <3> QED
      BY <3>4, <3>5, <3>6 DEF Listed
  <2> QED
    BY <2>1, <2>2
<1> QED
  BY <1>1, ToldCorrect, PTL

-----------------------------------------------------------------------------
(* The retries of -i are a loop of JOINs *)

\* A finite set of descriptors can be gone through in ascending order, as the
\* std::set of joinPendingClients is.
LEMMA AscendingExists ==
    ASSUME NEW S \in SUBSET Nat, IsFiniteSet(S)
    PROVE  Ascending(S) # {}
<1> DEFINE Bad(T, n) == IsFiniteSet(T) /\ Cardinality(T) = n /\ Ascending(T) = {}
           bad       == {n \in Nat : \E T \in SUBSET Nat : Bad(T, n)}
<1>1. SUFFICES ASSUME bad # {} PROVE FALSE
  <2>1. Cardinality(S) \in Nat
    BY FS_CardinalityType
  <2> QED
    BY <2>1
<1> DEFINE n == Min(bad)
<1>2. n \in bad /\ \A m \in bad : n <= m
  BY <1>1, MinIsLeast
<1> HIDE DEF n
<1>3. PICK T \in SUBSET Nat : Bad(T, n)
  BY <1>2
<1>4. n \in Nat
  BY <1>2
<1>5. CASE T = {}
  <2>1. n = 0
    BY <1>3, <1>5, FS_EmptySet
  <2>2. [i \in 1..0 |-> 0] \in [1..0 -> T]
    OBVIOUS
  <2>3. [i \in 1..0 |-> 0] \in Ascending(T)
    BY <1>3, <2>1, <2>2 DEF Ascending
  <2> QED
    BY <1>3, <2>3
<1>6. CASE T # {}
  <2> DEFINE m == Min(T)
             U == T \ {m}
  <2>1. m \in T /\ \A x \in T : m <= x
    BY <1>6, MinIsLeast
  <2>2. IsFiniteSet(U) /\ Cardinality(U) = n - 1 /\ U \in SUBSET Nat
    BY <1>3, <2>1, FS_RemoveElement
  <2>3. n - 1 \in Nat
    BY <2>2, FS_CardinalityType
  <2>4. ASSUME NEW x \in U
        PROVE  m < x /\ x \in Nat /\ x \in T
    <3>1. x \in T /\ x # m /\ x \in Nat /\ m \in Nat
      BY <2>1
    <3> HIDE DEF m
    <3> QED
      BY <2>1, <3>1
  <2> HIDE DEF m, U
  <2>5. ~Bad(U, n - 1)
    <3>1. n - 1 \notin bad
      <4>1. ~(n <= n - 1)
        BY <1>4
      <4> HIDE DEF bad
      <4> QED
        BY <1>2, <4>1
    <3> QED
      BY <2>2, <2>3, <3>1
  <2>6. PICK s : s \in Ascending(U)
    BY <2>2, <2>5
  <2>7. s \in [1..n-1 -> U] /\ \A i, j \in 1..n-1 : i < j => s[i] < s[j]
    BY <2>2, <2>6 DEF Ascending
  <2> DEFINE t == [i \in 1..n |-> IF i = 1 THEN m ELSE s[i-1]]
  <2>8. ASSUME NEW i \in 1..n
        PROVE  i = 1 \/ i - 1 \in 1..n-1
    BY <1>4
  <2>9. t \in [1..n -> T]
    <3>1. ASSUME NEW i \in 1..n
          PROVE  (IF i = 1 THEN m ELSE s[i-1]) \in T
      <4>1. CASE i = 1
        BY <2>1, <4>1
      <4>2. CASE i # 1
        BY <2>4, <2>7, <2>8, <4>2
      <4> QED
        BY <4>1, <4>2
    <3> QED
      BY <3>1
  <2>10. ASSUME NEW i \in 1..n, NEW j \in 1..n, i < j
         PROVE  t[i] < t[j]
    <3>1. j # 1 /\ j - 1 \in 1..n-1
      BY <1>4, <2>10
    <3>2. CASE i = 1
      BY <2>4, <2>7, <3>1, <3>2
    <3>3. CASE i # 1
      <4>1. i - 1 \in 1..n-1 /\ i - 1 < j - 1
        BY <1>4, <2>10, <3>3
      <4> QED
        BY <2>7, <3>1, <3>3, <4>1
    <3> QED
      BY <3>2, <3>3
  <2> HIDE DEF t
  <2>11. t \in Ascending(T)
    BY <1>3, <2>9, <2>10 DEF Ascending
  <2> QED
    BY <1>3, <2>11
<1> QED
  BY <1>5, <1>6

\* What comes before an element of an ascending sequence is what is smaller.
LEMMA AscendingRank ==
    ASSUME NEW S \in SUBSET Nat, IsFiniteSet(S), NEW s \in Ascending(S)
    PROVE  /\ Cardinality(S) \in Nat /\ s \in [1..Cardinality(S) -> S]
           /\ Range(s) = S
           /\ \A i, j \in 1..Cardinality(S) : s[i] = s[j] => i = j
           /\ \A i \in 1..Cardinality(S) : Cardinality({v \in S : v < s[i]}) = i - 1
           /\ \A k \in 0..Cardinality(S) : Cardinality({s[i] : i \in 1..k}) = k
<1> DEFINE n == Cardinality(S)
<1>1. n \in Nat
  BY FS_CardinalityType
<1>2. s \in [1..n -> S] /\ \A i, j \in 1..n : i < j => s[i] < s[j]
  BY DEF Ascending
<1>3. Cardinality(1..n) = Cardinality(S)
  BY <1>1, FS_Interval
<1> HIDE DEF n
<1>4. ASSUME NEW i \in 1..n, NEW j \in 1..n
      PROVE  /\ s[i] = s[j] => i = j
             /\ s[i] < s[j] <=> i < j
  <2>1. s[i] \in Nat /\ s[j] \in Nat
    BY <1>2
  <2>2. i < j \/ i = j \/ j < i
    BY <1>1
  <2>3. (i < j => s[i] < s[j]) /\ (j < i => s[j] < s[i])
    BY <1>2
  <2> QED
    BY <1>1, <2>1, <2>2, <2>3
<1>5. s \in Injection(1..n, S)
  BY <1>2, <1>4 DEF Injection, IsInjective
<1>6. s \in Surjection(1..n, S)
  BY <1>3, <1>5, FS_Injection
<1>7. Range(s) = S
  BY <1>2, <1>6 DEF Surjection, Range
<1>8. ASSUME NEW k \in 0..n
      PROVE  Cardinality({s[i] : i \in 1..k}) = k
  <2> DEFINE T == {s[i] : i \in 1..k}
             f == [i \in 1..k |-> s[i]]
  <2>1. k \in Nat /\ \A i \in 1..k : i \in 1..n
    BY <1>1
  <2>2. f \in Bijection(1..k, T)
    <3>1. f \in [1..k -> T]
      OBVIOUS
    <3>2. \A i, j \in 1..k : f[i] = f[j] => i = j
      BY <1>4, <2>1
    <3>3. \A x \in T : \E i \in 1..k : f[i] = x
      OBVIOUS
    <3> HIDE DEF f, T
    <3> QED
      BY <3>1, <3>2, <3>3 DEF Bijection, Injection, Surjection, IsInjective
  <2> HIDE DEF f, T
  <2>3. ExistsBijection(1..k, T)
    BY <2>2 DEF ExistsBijection
  <2>4. Cardinality(T) = k
    BY <2>1, <2>3, FS_CountingElements
  <2> QED
    BY <2>4 DEF T
<1>9. ASSUME NEW i \in 1..n
      PROVE  Cardinality({v \in S : v < s[i]}) = i - 1
  <2>1. i - 1 \in 0..n /\ \A j \in 1..n : j < i <=> j \in 1..i-1
    BY <1>1
  <2>2. \A j \in 1..i-1 : j \in 1..n
    BY <1>1
  <2>3. {v \in S : v < s[i]} = {s[j] : j \in 1..i-1}
    <3>1. ASSUME NEW v \in S, v < s[i]
          PROVE  v \in {s[j] : j \in 1..i-1}
      <4>1. PICK j \in 1..n : s[j] = v
        BY <1>6 DEF Surjection
      <4>2. j \in 1..i-1
        BY <1>4, <2>1, <3>1, <4>1
      <4> QED
        BY <4>1, <4>2
    <3>2. ASSUME NEW j \in 1..i-1
          PROVE  s[j] \in S /\ s[j] < s[i]
      BY <1>2, <1>4, <2>1, <2>2
    <3> QED
      BY <3>1, <3>2
  <2> QED
    BY <1>8, <2>1, <2>3
<1> QED
  BY <1>1, <1>2, <1>4, <1>7, <1>8, <1>9 DEF n


\* What an arrival leaves alone, and what it takes back.
Otherwise(ch, arrivals, n, a) ==
    /\ a.topic = ch.topic /\ a.topicRestricted = ch.topicRestricted
    /\ a.inviteOnly = ch.inviteOnly /\ a.key = ch.key /\ a.limit = ch.limit
    /\ a.invited = ch.invited \ {arrivals[i] : i \in 1..n}

\* The next arrival leaves the modes alone.
LEMMA OtherwiseNext ==
    ASSUME NEW ch \in ChannelRecord, NEW arrivals \in Seq(Fd), NEW n \in 1..Len(arrivals),
           NEW a \in ChannelRecord, Otherwise(ch, arrivals, n - 1, a)
    PROVE  Otherwise(ch, arrivals, n, Admit(clients, a, <<arrivals[n]>>))
<1> DEFINE x == arrivals[n]
           b == Admit(clients, a, <<x>>)
<1>1. /\ b.topic = a.topic /\ b.topicRestricted = a.topicRestricted
      /\ b.inviteOnly = a.inviteOnly /\ b.key = a.key /\ b.limit = a.limit
      /\ b.invited = a.invited \ Range(<<x>>)
  BY DEF Admit, ChannelRecord
<1>2. Range(<<x>>) = {x}
  BY DEF Range
<1>3. n \in Nat
  BY LenProperties
<1>4. {arrivals[i] : i \in 1..n} = {arrivals[i] : i \in 1..n-1} \cup {x}
  <2>1. 1..n = 1..n-1 \cup {n}
    BY <1>3
  <2> QED
    BY <2>1
<1> HIDE DEF x, b
<1>5. b.invited = ch.invited \ {arrivals[i] : i \in 1..n}
  BY <1>1, <1>2, <1>4 DEF Otherwise
<1>6. Otherwise(ch, arrivals, n, b)
  BY <1>1, <1>5 DEF Otherwise
<1> QED
  BY <1>6 DEF b, x

\* All arrivals, one by one, make what Admit makes at once.
LEMMA ArrivedAll ==
    ASSUME NEW ch \in ChannelRecord, NEW arrivals \in Seq(Fd), NEW a,
           Entered(ch, arrivals, Len(arrivals), a), Otherwise(ch, arrivals, Len(arrivals), a)
    PROVE  Admit(clients, ch, arrivals) = a
<1> DEFINE next == Admit(clients, ch, arrivals)
<1>1. a \in ChannelRecord /\ next \in ChannelRecord
  BY AdmitType DEF Entered
<1>2. /\ next.members = a.members /\ next.operators = a.operators
      /\ next.halfOperators = a.halfOperators
  BY EnteredAll
<1>3. /\ next.topic = ch.topic /\ next.topicRestricted = ch.topicRestricted
      /\ next.inviteOnly = ch.inviteOnly /\ next.key = ch.key /\ next.limit = ch.limit
      /\ next.invited = ch.invited \ Range(arrivals)
  BY DEF Admit, ChannelRecord
<1> HIDE DEF next
<1>4. Range(arrivals) = {arrivals[i] : i \in 1..Len(arrivals)}
  BY LenProperties DEF Range
<1>5. /\ next.topic = a.topic /\ next.topicRestricted = a.topicRestricted
      /\ next.inviteOnly = a.inviteOnly /\ next.key = a.key /\ next.limit = a.limit
      /\ next.invited = a.invited
  BY <1>3, <1>4 DEF Otherwise
<1>6. next = a
  <2> DEFINE Rebuilt(r) ==
               [members |-> r.members, operators |-> r.operators,
                halfOperators |-> r.halfOperators, invited |-> r.invited, topic |-> r.topic,
                topicRestricted |-> r.topicRestricted, inviteOnly |-> r.inviteOnly,
                key |-> r.key, limit |-> r.limit]
  <2>1. \A r \in ChannelRecord : r = Rebuilt(r)
    BY DEF ChannelRecord
  <2>2. Rebuilt(next) = Rebuilt(a)
    BY <1>2, <1>5
  <2> HIDE DEF Rebuilt
  <2> QED
    BY <1>1, <2>1, <2>2
<1> QED
  BY <1>6 DEF next

\* Equations such as that of RetriesInTurn have a solution.
RetryOneByOne(ch, order, N, f) ==
    f = [n \in 0..N |-> IF n = 0 THEN ch ELSE Retry(f[n-1], order[n])]

LEMMA RetriesHaveFunction ==
    ASSUME NEW ch, NEW order, NEW N \in Nat
    PROVE  \E f : RetryOneByOne(ch, order, N, f)
<1> DEFINE Solved(n) ==
             \E f : f = [i \in 0..n |-> IF i = 0 THEN ch ELSE Retry(f[i-1], order[i])]
           unsolved  == {n \in Nat : ~Solved(n)}
<1>1. SUFFICES ASSUME unsolved # {} PROVE FALSE
  BY DEF unsolved, RetryOneByOne
<1> DEFINE n == Min(unsolved)
<1>2. n \in unsolved /\ \A x \in unsolved : n <= x
  BY <1>1, MinIsLeast
<1> HIDE DEF n
<1>3. n \in Nat /\ ~Solved(n)
  BY <1>2
<1>4. CASE n = 0
  <2> DEFINE f == [i \in 0..0 |-> ch]
  <2>1. f = [i \in 0..0 |-> IF i = 0 THEN ch ELSE Retry(f[i-1], order[i])]
    OBVIOUS
  <2> HIDE DEF f
  <2> QED
    BY <1>3, <1>4, <2>1
<1>5. CASE n # 0
  <2>1. n - 1 \in Nat /\ n - 1 \notin unsolved
    <3>1. n - 1 \in Nat /\ ~(n <= n - 1)
      BY <1>3, <1>5
    <3> HIDE DEF unsolved
    <3> QED
      BY <1>2, <3>1
  <2>2. Solved(n - 1)
    BY <2>1 DEF unsolved
  <2>3. PICK f : f = [i \in 0..n-1 |-> IF i = 0 THEN ch ELSE Retry(f[i-1], order[i])]
    BY <2>2
  <2> DEFINE g == [i \in 0..n |-> IF i = n THEN Retry(f[n-1], order[n]) ELSE f[i]]
  <2>4. ASSUME NEW i \in 0..n
        PROVE  g[i] = IF i = 0 THEN ch ELSE Retry(g[i-1], order[i])
    <3>1. CASE i = n
      <4>1. n - 1 \in 0..n /\ n - 1 # n
        BY <1>3, <1>5
      <4> QED
        BY <1>5, <3>1, <4>1
    <3>2. CASE i # n
      <4>1. i \in 0..n-1 /\ (i # 0 => i - 1 \in 0..n /\ i - 1 # n)
        BY <1>3, <3>2
      <4>2. g[i] = f[i] /\ (i # 0 => g[i-1] = f[i-1])
        BY <3>2, <4>1
      <4>3. f[i] = IF i = 0 THEN ch ELSE Retry(f[i-1], order[i])
        BY <2>3, <4>1
      <4> QED
        BY <4>2, <4>3
    <3> QED
      BY <3>1, <3>2
  <2>5. g = [i \in 0..n |-> g[i]]
    OBVIOUS
  <2> HIDE DEF g
  <2>6. g = [i \in 0..n |-> IF i = 0 THEN ch ELSE Retry(g[i-1], order[i])]
    BY <2>4, <2>5
  <2> QED
    BY <1>3, <2>6
<1> QED
  BY <1>4, <1>5

\* RetriesInTurn goes through the waiting clients one by one.
LEMMA RetriesSteps ==
    ASSUME NEW ch, NEW order, Len(order) \in Nat
    PROVE  \E f : /\ f[0] = ch
                  /\ \A n \in 1..Len(order) : f[n] = Retry(f[n-1], order[n])
                  /\ RetriesInTurn(ch, order) = f[Len(order)]
<1> DEFINE N  == Len(order)
           f0 == CHOOSE f : f = [n \in 0..N |-> IF n = 0 THEN ch ELSE Retry(f[n-1], order[n])]
<1>1. N \in Nat
  OBVIOUS
<1>2. f0 = [n \in 0..N |-> IF n = 0 THEN ch ELSE Retry(f0[n-1], order[n])]
  <2> HIDE DEF N
  <2>1. \E f : RetryOneByOne(ch, order, N, f)
    BY <1>1, RetriesHaveFunction
  <2> QED
    BY <2>1 DEF RetryOneByOne
<1>3. RetriesInTurn(ch, order) = f0[N]
  BY DEF RetriesInTurn
<1> HIDE DEF f0
<1>4. 0 \in 0..N /\ \A n \in 1..N : n \in 0..N /\ n # 0
  BY <1>1
<1>5. f0[0] = ch /\ \A n \in 1..N : f0[n] = Retry(f0[n-1], order[n])
  BY <1>2, <1>4
<1> QED
  BY <1>3, <1>5


\* The n-th of those waiting is let in when those before it were.
Fits(c, n) ==
    /\ channels[c].key = NoKey
    /\ channels[c].limit # NoLimit => Len(channels[c].members) + (n - 1) < channels[c].limit

\* Admissible are the first so many of those waiting, none if there is a key,
\* all if there is no limit.
LEMMA AdmissibleAreFirst ==
    ASSUME IInv, NEW c \in DOMAIN channels, NEW order \in Ascending(pendingJoins[c])
    PROVE  LET N == Cardinality(pendingJoins[c])
           IN  /\ N \in Nat /\ order \in [1..N -> Fd] /\ order \in Seq(Fd) /\ Len(order) = N
               /\ Range(order) = pendingJoins[c]
               /\ \A i, j \in 1..N : order[i] = order[j] => i = j
               /\ \E k \in 0..N : /\ Admissible(c) = {order[i] : i \in 1..k}
                                  /\ Cardinality(Admissible(c)) = k
                                  /\ \A n \in 1..N : n <= k <=> Fits(c, n)
<1> DEFINE P == pendingJoins[c]
           N == Cardinality(P)
           L == Len(channels[c].members)
           limit == channels[c].limit
<1>1. c \in ChannelName /\ channels[c] \in ChannelRecord
  BY DEF IInv, TypeOK
<1>2. P \in SUBSET Fd
  BY <1>1 DEF IInv, TypeOK
<1>3. P \in SUBSET Nat /\ IsFiniteSet(P)
  BY <1>2, FS_Subset, FdAssumption
<1>4. Waiting(c) = P
  BY <1>1 DEF Waiting, IInv, PendingAreOutside
<1>5. L \in Nat /\ limit \in Nat
  BY <1>1, SizesAreNumbers
<1>6. /\ N \in Nat /\ order \in [1..N -> P] /\ Range(order) = P
      /\ \A i, j \in 1..N : order[i] = order[j] => i = j
      /\ \A i \in 1..N : Cardinality({v \in P : v < order[i]}) = i - 1
      /\ \A k \in 0..N : Cardinality({order[i] : i \in 1..k}) = k
  BY <1>3, AscendingRank
<1>7. \A w \in P : w \in Admissible(c) <=>
         /\ channels[c].key = NoKey
         /\ limit # NoLimit => L + Cardinality({v \in P : v < w}) < limit
  BY <1>4 DEF Admissible
<1>8. Admissible(c) \subseteq P
  BY <1>4 DEF Admissible
<1> HIDE DEF P, N
<1>9. \A n \in 1..N : order[n] \in Admissible(c) <=> Fits(c, n)
  BY <1>6, <1>7 DEF Fits
<1> DEFINE k == IF channels[c].key # NoKey THEN 0
                ELSE IF limit = NoLimit THEN N
                ELSE IF limit <= L THEN 0
                ELSE IF limit - L <= N THEN limit - L ELSE N
<1>10. k \in 0..N /\ \A n \in 1..N : n <= k <=> Fits(c, n)
  <2> HIDE DEF L, limit
  <2>1. k \in 0..N
    BY <1>5, <1>6
  <2>2. \A n \in 1..N : Fits(c, n) <=>
           channels[c].key = NoKey /\ (limit # NoLimit => L + (n - 1) < limit)
    BY DEF Fits, L, limit
  <2>3. \A n \in 1..N : n <= k <=>
           channels[c].key = NoKey /\ (limit # NoLimit => L + (n - 1) < limit)
    BY <1>5, <1>6
  <2> HIDE DEF k
  <2> QED
    BY <2>1, <2>2, <2>3
<1> HIDE DEF k
<1>11. Admissible(c) = {order[i] : i \in 1..k}
  <2>1. \A i \in 1..k : i \in 1..N /\ i <= k
    BY <1>6, <1>10
  <2>2. \A i \in 1..k : order[i] \in Admissible(c)
    BY <1>9, <1>10, <2>1
  <2>3. ASSUME NEW w \in Admissible(c)
        PROVE  w \in {order[i] : i \in 1..k}
    <3>1. PICK i \in 1..N : order[i] = w
      BY <1>6, <1>8 DEF Range
    <3>2. i <= k
      BY <1>9, <1>10, <3>1
    <3>3. i \in 1..k
      BY <1>6, <1>10, <3>2
    <3> QED
      BY <3>1, <3>3
  <2> QED
    BY <2>2, <2>3
<1>12. Cardinality(Admissible(c)) = k
  BY <1>6, <1>10, <1>11
<1>13. order \in [1..N -> Fd]
  BY <1>2, <1>6 DEF P
<1>14. order \in Seq(Fd) /\ Len(order) = N
  BY <1>6, <1>13, FunctionIsSeq
<1> QED
  BY <1>6, <1>10, <1>11, <1>12, <1>13, <1>14 DEF P, N

\* Those admitted, as a sequence.
LEMMA ArrivalsAreFirst ==
    ASSUME IInv, NEW c \in DOMAIN channels, NEW order \in Ascending(pendingJoins[c]),
           NEW arrivals \in Ascending(Admissible(c))
    PROVE  /\ arrivals \in Seq(Fd) /\ Len(arrivals) \in 0..Len(order)
           /\ \A i \in 1..Len(arrivals) : arrivals[i] = order[i]
           /\ \A n \in 1..Len(order) : n <= Len(arrivals) <=> Fits(c, n)
<1> DEFINE N == Len(order)
           A == Admissible(c)
<1>1. /\ N \in Nat /\ order \in [1..N -> Fd] /\ N = Cardinality(pendingJoins[c])
      /\ \A i, j \in 1..N : order[i] = order[j] => i = j
      /\ \E k \in 0..N : /\ A = {order[i] : i \in 1..k}
                         /\ Cardinality(A) = k
                         /\ \A n \in 1..N : n <= k <=> Fits(c, n)
  BY AdmissibleAreFirst
<1>2. c \in ChannelName /\ TypeOK /\ pendingJoins[c] \in SUBSET Fd
  BY DEF IInv, TypeOK
<1>3. arrivals \in Seq(Fd) /\ Len(arrivals) = Cardinality(A)
  BY <1>2, AscendingType, ArrivalsAreAdmissible
<1>4. PICK k \in 0..N : /\ A = {order[i] : i \in 1..k}
                        /\ Cardinality(A) = k
                        /\ \A n \in 1..N : n <= k <=> Fits(c, n)
  BY <1>1
<1> DEFINE first == [i \in 1..k |-> order[i]]
<1>5. \A i, j \in 1..N : i < j => order[i] < order[j]
  BY <1>1 DEF Ascending
<1>6. k \in Nat /\ \A i \in 1..k : i \in 1..N
  BY <1>1
<1>7. first \in [1..k -> A] /\ \A i, j \in DOMAIN first : i < j => first[i] < first[j]
  BY <1>4, <1>5, <1>6
<1> HIDE DEF first
<1>8. first \in Ascending(A)
  BY <1>4, <1>7 DEF Ascending
<1>9. arrivals = first
  BY <1>2, <1>8, ArrivalsUnique
<1>10. Len(arrivals) = k
  BY <1>3, <1>4
<1>11. \A i \in 1..k : arrivals[i] = order[i]
  BY <1>9 DEF first
<1> QED
  BY <1>3, <1>4, <1>10, <1>11


\* One retry: the client comes in while there is room, and without key.
LEMMA RetryIs ==
    ASSUME IInv, NEW c \in DOMAIN channels, NEW order \in Ascending(pendingJoins[c]),
           NEW arrivals \in Ascending(Admissible(c)), NEW n \in 1..Len(order), NEW m \in 0..(n-1),
           m <= Len(arrivals), m = n - 1 \/ m = Len(arrivals),
           NEW a, Entered([channels[c] EXCEPT !.inviteOnly = FALSE], arrivals, m, a),
           Otherwise([channels[c] EXCEPT !.inviteOnly = FALSE], arrivals, m, a)
    PROVE  Retry(a, order[n]) = IF n <= Len(arrivals) THEN Admit(clients, a, <<order[n]>>) ELSE a
<1> DEFINE open == [channels[c] EXCEPT !.inviteOnly = FALSE]
           x    == order[n]
           L    == Len(channels[c].members)
           K    == Len(arrivals)
           N    == Len(order)
<1>1. /\ N \in Nat /\ Range(order) = pendingJoins[c] /\ order \in [1..N -> Fd]
      /\ \A i, j \in 1..N : order[i] = order[j] => i = j
  BY AdmissibleAreFirst
<1>2. /\ arrivals \in Seq(Fd) /\ K \in 0..N /\ \A i \in 1..K : arrivals[i] = order[i]
      /\ \A j \in 1..N : j <= K <=> Fits(c, j)
  BY ArrivalsAreFirst
<1>3. c \in ChannelName /\ channels[c] \in ChannelRecord
  BY DEF IInv, TypeOK
<1>4. /\ open \in ChannelRecord /\ open.members = channels[c].members
      /\ open.inviteOnly = FALSE /\ open.key = channels[c].key
      /\ open.limit = channels[c].limit
  BY <1>3 DEF ChannelRecord
<1>5. L \in Nat /\ channels[c].limit \in Nat
  BY <1>3, SizesAreNumbers
<1> HIDE DEF open
<1>6. x \in pendingJoins[c]
  BY <1>1 DEF Range
<1>7. Registered(x) /\ ~HasClient(channels[c], x)
  BY <1>3, <1>6 DEF IInv, PendingAreOutside, OnChannel, Exists
<1>8. /\ Range(a.members) = Range(open.members) \cup {arrivals[i] : i \in 1..m}
      /\ Len(a.members) = L + m
  <2>1. m \in 0..Len(arrivals)
    BY <1>1, <1>2
  <2>2. Entered(open, arrivals, m, a)
    BY DEF open
  <2> QED
    BY <1>2, <1>4, <2>1, <2>2, EnteredMembers DEF Entered
<1>9. x \notin {arrivals[i] : i \in 1..m}
  <2>1. \A i \in 1..m : i \in 1..K /\ i \in 1..N /\ i # n
    BY <1>1, <1>2
  <2> QED
    BY <1>1, <1>2, <2>1
<1>10. ~HasClient(a, x)
  BY <1>4, <1>7, <1>8, <1>9 DEF HasClient
<1>11. a.inviteOnly = FALSE /\ a.key = channels[c].key /\ a.limit = channels[c].limit
  <2>1. Otherwise(open, arrivals, m, a)
    BY DEF open
  <2> QED
    BY <1>4, <2>1 DEF Otherwise
<1>12. MayEnter(a, x, NoKey) <=>
          /\ channels[c].key = NoKey
          /\ channels[c].limit # NoLimit => L + m < channels[c].limit
  BY <1>8, <1>11 DEF MayEnter, NeedsInvitation
<1>13. MayEnter(a, x, NoKey) <=> n <= K
  <2>1. CASE m = n - 1
    BY <1>2, <1>12, <2>1 DEF Fits
  <2>2. CASE m = K /\ m # n - 1
    <3>1. K + 1 \in 1..N /\ ~(K + 1 <= K) /\ ~(n <= K) /\ (K + 1) - 1 = m
      BY <1>1, <1>2, <2>2
    <3>2. ~Fits(c, K + 1)
      BY <1>2, <3>1
    <3> QED
      BY <1>12, <3>1, <3>2 DEF Fits
  <2> QED
    BY <2>1, <2>2
<1> QED
  BY <1>7, <1>10, <1>13 DEF Retry

\* The loop of handleJoin makes of the channel what the model's step makes of it.
LEMMA OpeningSteps ==
    ASSUME IInv, NEW c \in DOMAIN channels, NEW order \in Ascending(pendingJoins[c]),
           NEW arrivals \in Ascending(Admissible(c))
    PROVE  LET opened == [channels[c] EXCEPT !.inviteOnly = FALSE]
           IN  Admit(clients, opened, arrivals) = RetriesInTurn(opened, order)
<1> DEFINE open == [channels[c] EXCEPT !.inviteOnly = FALSE]
           K    == Len(arrivals)
           N    == Len(order)
<1>1. N \in Nat
  BY AdmissibleAreFirst
<1>2. /\ arrivals \in Seq(Fd) /\ K \in 0..N /\ \A i \in 1..K : arrivals[i] = order[i]
  BY ArrivalsAreFirst
<1>3. open \in ChannelRecord
  BY DEF IInv, TypeOK, ChannelRecord
<1>4. PICK f : /\ f[0] = open
               /\ \A n \in 1..N : f[n] = Retry(f[n-1], order[n])
               /\ RetriesInTurn(open, order) = f[N]
  <2> HIDE DEF open
  <2> QED
    BY <1>1, RetriesSteps
<1> DEFINE Reached(n, m) == Entered(open, arrivals, m, f[n]) /\ Otherwise(open, arrivals, m, f[n])
           Right(n) == Reached(n, IF n <= K THEN n ELSE K)
           wrong == {n \in 0..N : ~Right(n)}
<1>5. ASSUME NEW n \in 1..N, NEW m \in 0..(n-1), m <= K, m = n - 1 \/ m = K, Reached(n-1, m)
      PROVE  f[n] = IF n <= K THEN Admit(clients, f[n-1], <<order[n]>>) ELSE f[n-1]
  BY <1>4, <1>5, RetryIs
<1> HIDE DEF open
<1>6. Right(0)
  <2>1. Entered(open, arrivals, 0, open)
    BY <1>2, <1>3, EnteredNone
  <2>2. {arrivals[i] : i \in 1..0} = {}
    OBVIOUS
  <2>3. Otherwise(open, arrivals, 0, open)
    BY <2>2 DEF Otherwise
  <2> QED
    BY <1>2, <1>4, <2>1, <2>3
<1>7. ASSUME NEW n \in 1..N, Right(n-1)
      PROVE  Right(n)
  <2>1. n \in Nat /\ K \in Nat /\ N \in Nat
    BY <1>1, <1>2
  <2>2. CASE n <= K
    <3>1. n - 1 <= K /\ n - 1 \in 0..(n-1) /\ n \in 1..K
      BY <2>1, <2>2
    <3> HIDE DEF Reached, K, N
    <3>2. Reached(n-1, n-1)
      BY <1>7, <3>1
    <3>3. f[n] = Admit(clients, f[n-1], <<arrivals[n]>>)
      BY <1>2, <1>5, <2>2, <3>1, <3>2
    <3>4. f[n-1] \in ChannelRecord
      BY <3>2 DEF Reached, Entered
    <3>5. Reached(n, n)
      BY <1>2, <1>3, <3>1, <3>2, <3>3, <3>4, EnteredNext, OtherwiseNext DEF Reached, K
    <3> QED
      BY <2>2, <3>5
  <2>3. CASE ~(n <= K)
    <3>1. K <= n - 1 /\ K \in 0..(n-1) /\ (n - 1 <= K => n - 1 = K) /\ K <= K
      BY <2>1, <2>3
    <3> HIDE DEF Reached, K, N
    <3>2. Reached(n-1, K)
      BY <1>7, <3>1
    <3>3. f[n] = f[n-1]
      BY <1>5, <2>3, <3>1, <3>2
    <3>4. Reached(n, K)
      BY <3>2, <3>3 DEF Reached
    <3> QED
      BY <2>3, <3>4
  <2> QED
    BY <2>2, <2>3
<1>8. wrong = {}
  <2>1. SUFFICES ASSUME wrong # {} PROVE FALSE
    OBVIOUS
  <2> HIDE DEF Right
  <2>0. wrong \in SUBSET Nat
    BY <1>1
  <2> DEFINE n == Min(wrong)
  <2>2. n \in wrong /\ \A x \in wrong : n <= x
    <3> HIDE DEF wrong
    <3> QED
      BY <2>0, <2>1, MinIsLeast
  <2> HIDE DEF n
  <2>3. n \in 0..N /\ ~Right(n)
    BY <2>2
  <2>4. n \in 1..N /\ n - 1 \in 0..N
    BY <1>1, <1>6, <2>3
  <2>5. n - 1 \notin wrong
    <3>1. ~(n <= n - 1)
      BY <2>4
    <3> HIDE DEF wrong
    <3> QED
      BY <2>2, <3>1
  <2> QED
    BY <1>7, <2>3, <2>4, <2>5
<1>9. Reached(N, K)
  <2>1. Right(N)
    BY <1>1, <1>8
  <2>2. N <= K => N = K
    BY <1>1, <1>2
  <2> HIDE DEF Reached
  <2> QED
    BY <2>1, <2>2
<1>10. Admit(clients, open, arrivals) = f[N]
  BY <1>2, <1>3, <1>9, ArrivedAll
<1>11. Admit(clients, open, arrivals) = RetriesInTurn(open, order)
  BY <1>4, <1>10
<1> QED
  BY <1>11 DEF open

(* -i lets in those that would come in if each waiting client repeated its  *)
(* JOIN without a key, in ascending order, for any number of clients: the    *)
(* model's step is the loop of joinPendingClients.                           *)
THEOREM OpeningIsALoop == Spec => []OpeningIsRetriesInTurn
<1>1. IInv => OpeningIsRetriesInTurn
  <2> SUFFICES ASSUME IInv, NEW c \in DOMAIN channels
               PROVE  /\ Ascending(Admissible(c)) # {} /\ Ascending(pendingJoins[c]) # {}
                      /\ \A arrivals \in Ascending(Admissible(c)),
                            order \in Ascending(pendingJoins[c]) :
                            LET opened == [channels[c] EXCEPT !.inviteOnly = FALSE]
                            IN  Admit(clients, opened, arrivals) = RetriesInTurn(opened, order)
    BY DEF OpeningIsRetriesInTurn
  <2>1. pendingJoins[c] \in SUBSET Fd /\ Admissible(c) \in SUBSET Fd
    BY DEF IInv, TypeOK, Admissible, Waiting
  <2>2. /\ pendingJoins[c] \in SUBSET Nat /\ IsFiniteSet(pendingJoins[c])
        /\ Admissible(c) \in SUBSET Nat /\ IsFiniteSet(Admissible(c))
    BY <2>1, FS_Subset, FdAssumption
  <2>3. Ascending(Admissible(c)) # {} /\ Ascending(pendingJoins[c]) # {}
    BY <2>2, AscendingExists
  <2> QED
    BY <2>3, OpeningSteps
<1> QED
  BY <1>1, InvCorrect, PTL DEF Spec
=============================================================================
