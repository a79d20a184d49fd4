-------------------------- MODULE VariantTheorems --------------------------
(***************************************************************************)
(* What isNicknameVariant refuses, for nicknames of any length: those that *)
(* irssi makes of a refused one, and none that was itself refused as used. *)
(***************************************************************************)
EXTENDS NicknameVariant, Positions, TLAPS

\* A nickname without its suffix is a nickname, or empty (stripNickSuffix).
LEMMA StrippedIsSequence ==
    ASSUME NEW n \in Name
    PROVE  Stripped(n) \in Seq(Range(n))
<1> DEFINE T == {0} \cup {i \in DOMAIN n : n[i] \notin Suffix}
<1>1. n \in Seq(Range(n)) /\ Len(n) \in Nat /\ DOMAIN n = 1..Len(n)
  BY NameAssumption
<1>2. T \in SUBSET (0..Len(n)) /\ T # {}
  BY <1>1
<1>3. Max(T) \in 0..Len(n)
  BY <1>1, <1>2, MaxIsGreatest
<1>4. ASSUME NEW m \in 0..Len(n) PROVE SubSeq(n, 1, m) \in Seq(Range(n))
  BY <1>1, <1>4
<1>5. Stripped(n) = SubSeq(n, 1, Max(T))
  BY DEF Stripped
<1> HIDE DEF T
<1> QED
  BY <1>3, <1>4, <1>5

\* Two nicknames with the same stem are variants of each other.
LEMMA SameStemIsRetry ==
    ASSUME NEW n, NEW r \in Name, n # r,
           Stripped(n) = Stripped(r), Stripped(n) # << >>
    PROVE  IsRetryOf(n, r)
<1>1. Stripped(n) \in Seq(Range(r)) /\ Len(Stripped(n)) \in Nat
  BY StrippedIsSequence
<1>2. Len(Stripped(n)) >= Least(Len(Stripped(n)), Stem)
  BY <1>1, SizeAssumption DEF Least
<1>3. IsPrefix(Stripped(n), Stripped(n))
  BY <1>1 DEF IsPrefix
<1> QED
  BY <1>2, <1>3 DEF IsRetryOf

\* A variant of a nickname whose stem is short has the same stem.
LEMMA ShortRetryHasStem ==
    ASSUME NEW n \in Name, NEW r \in Name, IsRetryOf(n, r), Len(Stripped(r)) <= Stem
    PROVE  Stripped(n) = Stripped(r)
<1> DEFINE s == Stripped(n)
           t == Stripped(r)
<1>1. s \in Seq(Range(n)) /\ t \in Seq(Range(r)) /\ Len(s) \in Nat /\ Len(t) \in Nat
  BY StrippedIsSequence
<1>2. Len(s) <= Len(t) /\ SubSeq(s, 1, Len(s)) = SubSeq(t, 1, Len(s))
  BY DEF IsRetryOf, IsPrefix
<1>3. Len(s) >= Len(t)
  BY <1>1, SizeAssumption DEF IsRetryOf, Least
<1>4. Len(s) = Len(t)
  BY <1>1, <1>2, <1>3
<1>5. SubSeq(s, 1, Len(s)) = s /\ SubSeq(t, 1, Len(t)) = t
  BY <1>1
<1> QED
  BY <1>2, <1>4, <1>5

-----------------------------------------------------------------------------
\* The inductive invariant: refused nicknames differ by more than a suffix, those
\* that are nothing but suffix excepted, which are variants of no nickname.
StemsDiffer ==
    /\ rejected \subseteq Name
    /\ \A n, r \in rejected :
          n # r /\ Stripped(n) = Stripped(r) => Stripped(n) = << >>

\* The second of two nicknames with one stem is taken for a retry of the first,
\* whichever comes first, so it is never remembered (handleNick), unless there is
\* nothing but suffix to them.
LEMMA StemsStayDifferent == Spec => []StemsDiffer
<1>1. Init => StemsDiffer
  BY DEF Init, StemsDiffer
<1>2. StemsDiffer /\ [Next]_rejected => StemsDiffer'
  <2> SUFFICES ASSUME StemsDiffer, [Next]_rejected PROVE StemsDiffer'
    OBVIOUS
  <2>1. CASE UNCHANGED rejected
    BY <2>1 DEF StemsDiffer
  <2>2. ASSUME NEW nick \in Name, NickInUse(nick) PROVE StemsDiffer'
    <3>1. rejected' = rejected \cup {nick} /\ rejected \subseteq Name
      BY <2>2 DEF NickInUse, StemsDiffer
    <3>2. ASSUME NEW r \in rejected, nick # r, Stripped(nick) = Stripped(r)
          PROVE  Stripped(nick) = << >>
      <4>1. ~IsRetryOf(nick, r)
        BY <2>2 DEF NickInUse, IsNicknameVariant
      <4> QED
        BY <4>1, <3>1, <3>2, SameStemIsRetry
    <3>3. ASSUME NEW n \in rejected', NEW r \in rejected', n # r, Stripped(n) = Stripped(r)
          PROVE  Stripped(n) = << >>
      <4>1. CASE n = nick
        BY <4>1, <3>1, <3>2, <3>3
      <4>2. CASE r = nick
        BY <4>2, <3>1, <3>2, <3>3
      <4>3. CASE n \in rejected /\ r \in rejected
        BY <4>3, <3>3 DEF StemsDiffer
      <4> QED
        BY <4>1, <4>2, <4>3, <3>1
    <3> QED
      BY <3>1, <3>3 DEF StemsDiffer
  <2> QED
    BY <2>1, <2>2 DEF Next
<1> QED
  BY <1>1, <1>2, PTL DEF Spec

\* A client may ask again for any nickname it was refused, as long as those
\* refused to it are short (isNicknameVariant, handleNick).
THEOREM RefusedStayFree == Spec => []RefusedMayRetry
<1>1. StemsDiffer => RefusedMayRetry
  <2> SUFFICES ASSUME StemsDiffer, NEW n \in rejected,
                      \A r \in rejected : Len(Stripped(r)) <= Stem,
                      NEW r \in rejected, IsRetryOf(n, r)
               PROVE  FALSE
    BY DEF RefusedMayRetry, IsNicknameVariant
  <2>1. n \in Name /\ r \in Name
    BY DEF StemsDiffer
  <2>2. Stripped(n) = Stripped(r)
    BY <2>1, ShortRetryHasStem
  <2> QED
    BY <2>2 DEF StemsDiffer, IsRetryOf
<1> QED
  BY <1>1, StemsStayDifferent, PTL

-----------------------------------------------------------------------------
(* The retries of irssi *)

\* stripNickSuffix stops at the last character that is none of the suffix.
LEMMA StemEnds ==
    ASSUME NEW C, NEW v \in Seq(C), NEW m \in 0..Len(v),
           m # 0 => v[m] \notin Suffix, \A i \in m+1..Len(v) : v[i] \in Suffix
    PROVE  Stripped(v) = SubSeq(v, 1, m)
<1> DEFINE B == {0} \cup {i \in DOMAIN v : v[i] \notin Suffix}
<1>1. Len(v) \in Nat /\ DOMAIN v = 1..Len(v)
  OBVIOUS
<1>2. B \in SUBSET (0..Len(v)) /\ B # {} /\ m \in B
  BY <1>1
<1>3. \A i \in B : i <= m
  BY <1>1
<1>4. Stripped(v) = SubSeq(v, 1, Max(B))
  BY DEF Stripped
<1> HIDE DEF B
<1>5. Max(B) \in B /\ \A i \in B : i <= Max(B)
  BY <1>1, <1>2, MaxIsGreatest
<1>6. Max(B) = m
  <2>1. Max(B) \in 0..Len(v) /\ Max(B) <= m /\ m <= Max(B)
    BY <1>2, <1>3, <1>5
  <2> QED
    BY <1>1, <2>1
<1> QED
  BY <1>4, <1>6

\* Where that is, for a nickname.
LEMMA StemOfName ==
    ASSUME NEW n \in Name
    PROVE  LET m == Len(Stripped(n))
           IN  /\ m \in 0..Len(n) /\ Stripped(n) = SubSeq(n, 1, m)
               /\ m # 0 => n[m] \notin Suffix
               /\ \A i \in m+1..Len(n) : n[i] \in Suffix
<1> DEFINE B == {0} \cup {i \in DOMAIN n : n[i] \notin Suffix}
           m == Max(B)
<1>1. n \in Seq(Range(n)) /\ Len(n) \in Nat /\ DOMAIN n = 1..Len(n)
  BY NameAssumption
<1>2. B \in SUBSET (0..Len(n)) /\ B # {}
  BY <1>1
<1>3. m \in B /\ \A i \in B : i <= m
  <2> HIDE DEF B
  <2> QED
    BY <1>1, <1>2, MaxIsGreatest
<1>4. Stripped(n) = SubSeq(n, 1, m)
  BY DEF Stripped
<1> HIDE DEF m
<1>5. m \in 0..Len(n) /\ (m # 0 => n[m] \notin Suffix)
  BY <1>1, <1>2, <1>3
<1>6. ASSUME NEW i \in m+1..Len(n)
      PROVE  n[i] \in Suffix
  <2>1. i \in 1..Len(n) /\ ~(i <= m)
    BY <1>1, <1>5
  <2> QED
    BY <1>1, <1>3, <2>1
<1>7. Len(SubSeq(n, 1, m)) = m
  <2>1. 1 \in 1..Len(n)+1 /\ m \in 1-1..Len(n) /\ m - 1 + 1 = m
    BY <1>1, <1>5
  <2> QED
    BY <1>1, <2>1, PartIs
<1> QED
  BY <1>4, <1>5, <1>6, <1>7

\* The characters of the retries of a nickname.
RetryChar(n) == Range(n) \cup {"_", "1"}

\* The nickname that is left of one that is too long.
Cut(n) == Append(SubSeq(n, 1, Full - 1), "1")

\* The stem of n and more of a suffix.
HasStemOf(v, n) ==
    /\ v \in Seq(RetryChar(n))
    /\ Len(Stripped(n)) <= Len(v)
    /\ \A i \in 1..Len(Stripped(n)) : v[i] = n[i]
    /\ \A i \in Len(Stripped(n)) + 1..Len(v) : v[i] \in Suffix

\* A nickname has its own stem.
LEMMA NameHasStem ==
    ASSUME NEW n \in Name
    PROVE  n \in Seq(RetryChar(n)) /\ HasStemOf(n, n)
<1>1. n \in [1..Len(n) -> Range(n)] /\ Len(n) \in Nat
  BY NameAssumption
<1>2. n \in [1..Len(n) -> RetryChar(n)]
  BY <1>1 DEF RetryChar
<1>3. n \in Seq(RetryChar(n))
  BY <1>1, <1>2, FunctionIsSeq
<1>4. Len(Stripped(n)) \in 0..Len(n) /\ \A i \in Len(Stripped(n)) + 1..Len(n) : n[i] \in Suffix
  BY StemOfName
<1> QED
  BY <1>3, <1>4 DEF HasStemOf

\* One more character.
LEMMA AppendIs ==
    ASSUME NEW C, NEW v \in Seq(C), NEW c \in C
    PROVE  /\ Append(v, c) \in Seq(C) /\ Len(Append(v, c)) = Len(v) + 1
           /\ Append(v, c)[Len(v) + 1] = c
<1> QED
  BY AppendProperties

\* The others stay.
LEMMA AppendKeeps ==
    ASSUME NEW C, NEW v \in Seq(C)
    PROVE  \A c \in C : \A i \in 1..Len(v) : Append(v, c)[i] = v[i]
<1> QED
  BY AppendProperties

\* A retry keeps a stem that is short.
LEMMA RetryKeepsStem ==
    ASSUME NEW n \in Name, Len(Stripped(n)) < Full, NEW v, HasStemOf(v, n)
    PROVE  HasStemOf(Retry(v), n)
<1> DEFINE C == RetryChar(n)
           m == Len(Stripped(n))
           L == Len(v)
           p == SubSeq(v, 1, Full - 1)
<1>1. /\ v \in Seq(C) /\ L \in Nat /\ m \in Nat /\ m <= L /\ m < Full /\ Full \in Nat \ {0}
      /\ \A i \in 1..m : v[i] = n[i]
      /\ \A i \in m+1..L : v[i] \in Suffix
  BY StrippedIsSequence, SizeAssumption DEF HasStemOf
<1>2. "_" \in C /\ "1" \in C /\ "_" \in Suffix /\ "1" \in Suffix
  BY SuffixAssumption DEF RetryChar
<1> HIDE DEF C, m, L
<1>3. CASE L < Full
  <2> DEFINE w == Append(v, "_")
  <2>1. Retry(v) = w
    BY <1>3 DEF Retry, L
  <2>2. /\ w \in Seq(C) /\ Len(w) = L + 1 /\ w[L + 1] = "_"
        /\ \A i \in 1..L : w[i] = v[i]
    <3>1. v \in Seq(C) /\ "_" \in C
      BY <1>1, <1>2
    <3>2. w \in Seq(C) /\ Len(w) = Len(v) + 1 /\ w[Len(v) + 1] = "_"
      BY <3>1, AppendIs
    <3>3. \A i \in 1..Len(v) : w[i] = v[i]
      <4>1. v \in Seq(C)
        BY <3>1
      <4>2. \A c \in C : \A i \in 1..Len(v) : Append(v, c)[i] = v[i]
        BY <4>1, AppendKeeps
      <4> QED
        BY <3>1, <4>2
    <3> QED
      BY <3>2, <3>3 DEF L
  <2> HIDE DEF w
  <2>3. m <= Len(w) /\ \A i \in 1..m : w[i] = n[i]
    <3>1. \A i \in 1..m : i \in 1..L
      BY <1>1
    <3>2. m <= L + 1
      BY <1>1
    <3> QED
      BY <1>1, <2>2, <3>1, <3>2
  <2>4. ASSUME NEW i \in m+1..Len(w)
        PROVE  w[i] \in Suffix
    <3>0. i \in m+1..L+1
      BY <2>2
    <3>1. i = L + 1 \/ (i \in 1..L /\ i \in m+1..L)
      BY <1>1, <3>0
    <3> QED
      BY <1>1, <1>2, <2>2, <3>1
  <2> QED
    BY <2>1, <2>2, <2>3, <2>4 DEF HasStemOf, C, m
<1>4. CASE ~(L < Full)
  <2> DEFINE w == Append(p, "1")
  <2>1. Retry(v) = w
    BY <1>4 DEF Retry, L
  <2>2. p \in Seq(C) /\ Len(p) = Full - 1 /\ \A i \in 1..Full-1 : p[i] = v[i]
    <3>1. /\ 1 \in 1..Len(v)+1 /\ Full - 1 \in 1-1..Len(v) /\ (Full - 1) - 1 + 1 = Full - 1
          /\ \A i \in 1..Full-1 : 1 + i - 1 = i
      BY <1>1, <1>4 DEF L
    <3>2. p \in Seq(C) /\ Len(p) = (Full - 1) - 1 + 1
      BY <1>1, <3>1, PartIs
    <3>3. \A i \in 1..(Full-1)-1+1 : p[i] = v[1+i-1]
      BY <1>1, <3>1, PartIs
    <3> QED
      BY <3>1, <3>2, <3>3
  <2> HIDE DEF p
  <2>3. /\ w \in Seq(C) /\ Len(w) = Full /\ w[Full] = "1"
        /\ \A i \in 1..Full-1 : w[i] = v[i]
    <3>1. w \in Seq(C) /\ Len(w) = Len(p) + 1 /\ w[Len(p) + 1] = "1"
      BY <1>2, <2>2, AppendIs
    <3>2. \A i \in 1..Len(p) : w[i] = p[i]
      <4>1. p \in Seq(C)
        BY <2>2
      <4>2. \A c \in C : \A i \in 1..Len(p) : Append(p, c)[i] = p[i]
        BY <4>1, AppendKeeps
      <4> QED
        BY <1>2, <4>2
    <3> HIDE DEF w
    <3>3. Full - 1 + 1 = Full
      BY <1>1
    <3> QED
      BY <2>2, <3>1, <3>2, <3>3
  <2> HIDE DEF w
  <2>4. m <= Len(w) /\ \A i \in 1..m : w[i] = n[i]
    <3>1. \A i \in 1..m : i \in 1..Full-1
      BY <1>1
    <3> QED
      BY <1>1, <2>3, <3>1
  <2>5. ASSUME NEW i \in m+1..Len(w)
        PROVE  w[i] \in Suffix
    <3>1. i = Full \/ (i \in 1..Full-1 /\ i \in m+1..L)
      BY <1>1, <1>4, <2>3
    <3> QED
      BY <1>1, <1>2, <2>3, <3>1
  <2> QED
    BY <2>1, <2>3, <2>4, <2>5 DEF HasStemOf, C, m
<1> QED
  BY <1>3, <1>4

\* A nickname that has the stem of a refused one is taken for a retry of it.
LEMMA StemIsCaught ==
    ASSUME NEW n \in Name, Stripped(n) # << >>, NEW v, HasStemOf(v, n), v # n
    PROVE  IsRetryOf(v, n)
<1> DEFINE C == RetryChar(n)
           m == Len(Stripped(n))
           a == SubSeq(v, 1, m)
           b == SubSeq(n, 1, m)
<1>1. /\ v \in Seq(C) /\ Len(v) \in Nat /\ m \in 0..Len(v)
      /\ \A i \in 1..m : v[i] = n[i]
      /\ \A i \in m+1..Len(v) : v[i] \in Suffix
  BY StrippedIsSequence DEF HasStemOf
<1>2. /\ m \in 0..Len(n) /\ Stripped(n) = b /\ (m # 0 => n[m] \notin Suffix)
      /\ n \in Seq(Range(n)) /\ Len(n) \in Nat
  BY StemOfName, NameAssumption
<1> HIDE DEF m, C
<1>3. Stripped(v) = a
  <2>1. m # 0 => m \in 1..m /\ v[m] \notin Suffix
    BY <1>1, <1>2
  <2> QED
    BY <1>1, <2>1, StemEnds
<1>4. a = b
  <2>1. 1 \in 1..Len(v)+1 /\ m \in 1-1..Len(v) /\ 1 \in 1..Len(n)+1 /\ m \in 1-1..Len(n)
    BY <1>1, <1>2
  <2>2. a \in Seq(C) /\ Len(a) = m - 1 + 1
    BY <1>1, <2>1, PartIs
  <2>3. \A i \in 1..m-1+1 : a[i] = v[1+i-1]
    BY <1>1, <2>1, PartIs
  <2>4. b \in Seq(Range(n)) /\ Len(b) = m - 1 + 1
    BY <1>2, <2>1, PartIs
  <2>5. \A i \in 1..m-1+1 : b[i] = n[1+i-1]
    BY <1>2, <2>1, PartIs
  <2> HIDE DEF a, b
  <2>6. m - 1 + 1 = m /\ \A i \in 1..m : 1 + i - 1 = i
    BY <1>1
  <2>7. Len(a) = Len(b) /\ \A i \in 1..Len(a) : a[i] = b[i]
    BY <1>1, <2>2, <2>3, <2>4, <2>5, <2>6
  <2> QED
    BY <2>2, <2>4, <2>7, SeqEqual
<1>5. Stripped(v) = Stripped(n) /\ Stripped(v) # << >>
  BY <1>2, <1>3, <1>4
<1> QED
  BY <1>5, SameStemIsRetry

\* irssi's retries, one after the other: the function that RetriesOf defines.
LEMMA ChainHasFunction ==
    ASSUME NEW n, NEW N \in Nat
    PROVE  \E f : f = [i \in 0..N |-> IF i = 0 THEN n ELSE Retry(f[i-1])]
<1> DEFINE Solved(d) == \E f : f = [i \in 0..d |-> IF i = 0 THEN n ELSE Retry(f[i-1])]
           unsolved == {d \in Nat : ~Solved(d)}
<1>1. Solved(0)
  <2> DEFINE f == [i \in 0..0 |-> n]
  <2>1. f = [i \in 0..0 |-> IF i = 0 THEN n ELSE Retry(f[i-1])]
    OBVIOUS
  <2> QED
    BY <2>1
<1>2. ASSUME NEW d \in Nat, Solved(d)
      PROVE  Solved(d + 1)
  <2>1. PICK f : f = [i \in 0..d |-> IF i = 0 THEN n ELSE Retry(f[i-1])]
    BY <1>2
  <2> DEFINE g == [i \in 0..d+1 |-> IF i = d + 1 THEN Retry(f[d]) ELSE f[i]]
  <2>2. \A i \in 0..d : g[i] = f[i]
    OBVIOUS
  <2>3. ASSUME NEW i \in 0..d+1
        PROVE  g[i] = IF i = 0 THEN n ELSE Retry(g[i-1])
    <3>1. CASE i = d + 1
      <4>1. g[i] = Retry(f[d]) /\ i # 0 /\ i - 1 = d /\ d \in 0..d
        BY <3>1
      <4> HIDE DEF g
      <4> QED
        BY <2>2, <4>1
    <3>2. CASE i # d + 1
      <4>1. i \in 0..d /\ (i # 0 => i - 1 \in 0..d)
        BY <3>2
      <4>2. f[i] = IF i = 0 THEN n ELSE Retry(f[i-1])
        BY <2>1, <4>1
      <4> HIDE DEF g
      <4> QED
        BY <2>2, <4>1, <4>2
    <3> QED
      BY <3>1, <3>2
  <2>4. g = [i \in 0..d+1 |-> IF i = 0 THEN n ELSE Retry(g[i-1])]
    BY <2>3
  <2> HIDE DEF g
  <2> QED
    BY <2>4
<1>3. unsolved = {}
  <2>1. SUFFICES ASSUME unsolved # {} PROVE FALSE
    OBVIOUS
  <2> DEFINE d == Min(unsolved)
  <2> HIDE DEF Solved
  <2>2. d \in unsolved /\ \A x \in unsolved : d <= x
    <3>1. unsolved \in SUBSET Nat
      OBVIOUS
    <3> HIDE DEF unsolved
    <3> QED
      BY <2>1, <3>1, MinIsLeast
  <2> HIDE DEF d
  <2>3. d \in Nat /\ ~Solved(d) /\ d # 0
    BY <1>1, <2>2
  <2>4. d - 1 \in Nat /\ (d - 1) + 1 = d /\ ~(d <= d - 1)
    BY <2>3
  <2>5. Solved(d - 1)
    BY <2>2, <2>4
  <2>6. Solved((d - 1) + 1)
    BY <1>2, <2>4, <2>5
  <2> QED
    BY <2>3, <2>4, <2>6
<1> QED
  BY <1>3

\* What holds of a nickname, and of the retry of what it holds of, holds of all
\* its retries: P is the set of those it holds of.
LEMMA RetriesStayIn ==
    ASSUME NEW n, NEW P, n \in P, \A v \in P : Retry(v) \in P
    PROVE  \A v \in RetriesOf(n) : v \in P /\ v # n
<1> DEFINE N == MaxRetries
           f == CHOOSE g : g = [i \in 0..N |-> IF i = 0 THEN n ELSE Retry(g[i-1])]
           out == {i \in 0..N : f[i] \notin P}
<1>1. N \in Nat
  BY BoundAssumption
<1>2. f = [i \in 0..N |-> IF i = 0 THEN n ELSE Retry(f[i-1])]
  <2>1. \E g : g = [i \in 0..N |-> IF i = 0 THEN n ELSE Retry(g[i-1])]
    BY <1>1, ChainHasFunction
  <2> QED
    BY <2>1
<1>3. RetriesOf(n) = {f[i] : i \in 1..N} \ {n}
  BY DEF RetriesOf
<1> HIDE DEF f, N
<1>4. out = {}
  <2>1. SUFFICES ASSUME out # {} PROVE FALSE
    OBVIOUS
  <2> DEFINE i == Min(out)
  <2>2. i \in out /\ \A x \in out : i <= x
    <3>1. out \in SUBSET Nat
      BY <1>1
    <3> HIDE DEF out
    <3> QED
      BY <2>1, <3>1, MinIsLeast
  <2> HIDE DEF i
  <2>3. i \in 0..N /\ f[i] \notin P
    BY <2>2
  <2>4. f[i] = IF i = 0 THEN n ELSE Retry(f[i-1])
    BY <1>2, <2>3
  <2>5. i # 0
    BY <2>3, <2>4
  <2>6. i - 1 \in 0..N /\ ~(i <= i - 1)
    BY <1>1, <2>3, <2>5
  <2>7. f[i-1] \in P
    BY <2>2, <2>6
  <2> QED
    BY <2>3, <2>4, <2>5, <2>7
<1>5. ASSUME NEW i \in 1..N
      PROVE  f[i] \in P
  <2>1. i \in 0..N
    BY <1>1
  <2> QED
    BY <1>4, <2>1
<1> QED
  BY <1>3, <1>5

\* A stem that is too long is cut before its end; the rest counts as a retry,
\* and is its own retry.
LEMMA CutIsCaught ==
    ASSUME NEW n \in Name, ~(Len(Stripped(n)) < Full), n[Full - 1] \notin Suffix, Stripped(n) # << >>
    PROVE  /\ Retry(n) = Cut(n) /\ Retry(Cut(n)) = Cut(n)
           /\ Cut(n) # n => IsRetryOf(Cut(n), n)
<1> DEFINE C == RetryChar(n)
           m == Len(Stripped(n))
           L == Len(n)
           F == Full - 1
           p == SubSeq(n, 1, F)
           w == Append(p, "1")
<1>1. /\ n \in Seq(C) /\ L \in Nat /\ m \in 0..L /\ Stripped(n) = SubSeq(n, 1, m)
      /\ Full \in Nat /\ F \in Nat \ {0} /\ Stem \in Nat /\ Stem <= F /\ F < m /\ n[F] \notin Suffix
  <2>1. n \in Seq(Range(n)) /\ m \in 0..L /\ Stripped(n) = SubSeq(n, 1, m)
    BY NameAssumption, StemOfName
  <2> HIDE DEF m
  <2>2. n \in [1..L -> Range(n)] /\ L \in Nat
    BY <2>1
  <2>3. n \in [1..L -> C]
    BY <2>2 DEF RetryChar
  <2>4. n \in Seq(C)
    BY <2>2, <2>3, FunctionIsSeq
  <2>5. Full \in Nat /\ F \in Nat \ {0} /\ Stem \in Nat /\ Stem <= F
    BY SizeAssumption
  <2>6. F < m
    BY <2>1, <2>2, <2>5 DEF m
  <2> QED
    BY <2>1, <2>2, <2>4, <2>5, <2>6
<1>2. "1" \in C /\ "1" \in Suffix
  BY SuffixAssumption DEF RetryChar
<1> HIDE DEF C, m, F, L
<1>3. p \in Seq(C) /\ Len(p) = F /\ \A i \in 1..F : p[i] = n[i]
  <2>1. /\ 1 \in 1..Len(n)+1 /\ F \in 1-1..Len(n) /\ F - 1 + 1 = F
        /\ \A i \in 1..F : 1 + i - 1 = i
    BY <1>1 DEF L
  <2>2. p \in Seq(C) /\ Len(p) = F - 1 + 1
    BY <1>1, <2>1, PartIs
  <2>3. \A i \in 1..F-1+1 : p[i] = n[1+i-1]
    BY <1>1, <2>1, PartIs
  <2> QED
    BY <2>1, <2>2, <2>3
<1> HIDE DEF p
<1>4. /\ w \in Seq(C) /\ Len(w) = F + 1 /\ w[F + 1] = "1"
      /\ \A i \in 1..F : w[i] = n[i]
  <2>1. w \in Seq(C) /\ Len(w) = Len(p) + 1 /\ w[Len(p) + 1] = "1"
    BY <1>2, <1>3, AppendIs
  <2>2. \A i \in 1..Len(p) : w[i] = p[i]
    <3>1. p \in Seq(C)
      BY <1>3
    <3>2. \A c \in C : \A i \in 1..Len(p) : Append(p, c)[i] = p[i]
      BY <3>1, AppendKeeps
    <3> QED
      BY <1>2, <3>2
  <2> HIDE DEF w
  <2> QED
    BY <1>3, <2>1, <2>2
<1>5. Cut(n) = w
  BY DEF Cut, p, F
<1>6. Full = F + 1 /\ ~(L < Full)
  BY <1>1 DEF F
<1>7. Retry(n) = w
  BY <1>6 DEF Retry, L, p, F
<1> HIDE DEF w
<1>8. SubSeq(w, 1, F) = p
  <2> DEFINE q == SubSeq(w, 1, F)
  <2>1. /\ 1 \in 1..Len(w)+1 /\ F \in 1-1..Len(w) /\ F - 1 + 1 = F
        /\ \A i \in 1..F : 1 + i - 1 = i
    BY <1>1, <1>4
  <2>2. q \in Seq(C) /\ Len(q) = F - 1 + 1
    BY <1>4, <2>1, PartIs
  <2>3. \A i \in 1..F-1+1 : q[i] = w[1+i-1]
    BY <1>4, <2>1, PartIs
  <2> HIDE DEF q
  <2>4. Len(q) = Len(p) /\ \A i \in 1..Len(q) : q[i] = p[i]
    BY <1>3, <1>4, <2>1, <2>2, <2>3
  <2>5. q = p
    BY <1>3, <2>2, <2>4, SeqEqual
  <2> QED
    BY <2>5 DEF q
<1>9. Retry(w) = w
  <2>1. Retry(w) = Append(SubSeq(w, 1, F), "1")
    <3>1. ~(Len(w) < Full)
      BY <1>1, <1>4, <1>6
    <3> QED
      BY <3>1 DEF Retry, F
  <2> QED
    BY <1>8, <2>1 DEF w
<1>10. Stripped(w) = p
  <2>1. w \in Seq(C) /\ F \in 0..Len(w) /\ w[F] \notin Suffix
    <3>1. F \in 1..F
      BY <1>1
    <3> QED
      BY <1>1, <1>4, <3>1
  <2>2. \A i \in F+1..Len(w) : w[i] \in Suffix
    <3>1. \A i \in F+1..Len(w) : i = F + 1
      BY <1>1, <1>4
    <3> QED
      BY <1>2, <1>4, <3>1
  <2>3. Stripped(w) = SubSeq(w, 1, F)
    BY <2>1, <2>2, StemEnds
  <2> QED
    BY <1>8, <2>3
<1>11. ASSUME w # n
       PROVE  IsRetryOf(w, n)
  <2>1. p # << >>
    BY <1>1, <1>3, EmptySeq
  <2>2. F >= Least(m, Stem)
    BY <1>1 DEF Least
  <2>3. IsPrefix(p, Stripped(n))
    <3>1. SubSeq(SubSeq(n, 1, m), 1, F) = SubSeq(n, 1, F) /\ F <= m
      <4> DEFINE b == SubSeq(n, 1, m)
                 q == SubSeq(b, 1, F)
      <4>1. /\ 1 \in 1..Len(n)+1 /\ m \in 1-1..Len(n) /\ m - 1 + 1 = m /\ F \in 1..m
            /\ \A i \in 1..F : 1 + i - 1 = i /\ i \in 1..m
            /\ F - 1 + 1 = F
        BY <1>1 DEF L
      <4>2. b \in Seq(C) /\ Len(b) = m - 1 + 1
        BY <1>1, <4>1, PartIs
      <4>3. \A i \in 1..m-1+1 : b[i] = n[1+i-1]
        BY <1>1, <4>1, PartIs
      <4> HIDE DEF b
      <4>4. 1 \in 1..Len(b)+1 /\ F \in 1-1..Len(b)
        BY <1>1, <4>1, <4>2
      <4>5. q \in Seq(C) /\ Len(q) = F - 1 + 1
        BY <4>2, <4>4, PartIs
      <4>6. \A i \in 1..F-1+1 : q[i] = b[1+i-1]
        BY <4>2, <4>4, PartIs
      <4> HIDE DEF q
      <4>7. Len(q) = Len(p) /\ \A i \in 1..Len(q) : q[i] = p[i]
        BY <1>3, <4>1, <4>3, <4>5, <4>6
      <4>8. q = p
        BY <1>3, <4>5, <4>7, SeqEqual
      <4> QED
        BY <1>1, <4>1, <4>8 DEF q, b, p
    <3>2. SubSeq(p, 1, F) = p
      BY <1>3
    <3>3. Len(Stripped(n)) = m
      BY DEF m
    <3> QED
      BY <1>1, <1>3, <3>1, <3>2, <3>3 DEF IsPrefix, p
  <2> QED
    BY <1>1, <1>3, <1>10, <1>11, <2>1, <2>2, <2>3 DEF IsRetryOf, m
<1> QED
  BY <1>5, <1>7, <1>9, <1>11

\* The retries irssi makes of a refused nickname are taken for what they are
\* (isNicknameVariant, and the comment above it).
THEOREM RetriesAreCaught == Spec => []RetriesCaught
<1>1. StemsDiffer => RetriesCaught
  <2> SUFFICES ASSUME StemsDiffer, NEW n \in rejected, Stripped(n) # << >>,
                      Len(Stripped(n)) < Full \/ n[Full - 1] \notin Suffix,
                      NEW v \in RetriesOf(n)
               PROVE  IsRetryOf(v, n)
    BY DEF RetriesCaught, IsNicknameVariant
  <2>1. n \in Name
    BY DEF StemsDiffer
  <2>2. CASE Len(Stripped(n)) < Full
    <3> DEFINE P == {x \in Seq(RetryChar(n)) : HasStemOf(x, n)}
    <3>1. n \in P
      BY <2>1, NameHasStem
    <3>2. \A x \in P : Retry(x) \in P
      <4>1. \A x \in P : HasStemOf(Retry(x), n)
        BY <2>1, <2>2, RetryKeepsStem
      <4> QED
        BY <4>1 DEF HasStemOf
    <3> HIDE DEF P
    <3>3. v \in P /\ v # n
      BY <3>1, <3>2, RetriesStayIn
    <3>4. HasStemOf(v, n)
      BY <3>3 DEF P
    <3> QED
      BY <2>1, <3>3, <3>4, StemIsCaught
  <2>3. CASE ~(Len(Stripped(n)) < Full)
    <3> DEFINE P == {n, Cut(n)}
    <3>1. /\ Retry(n) = Cut(n) /\ Retry(Cut(n)) = Cut(n)
          /\ Cut(n) # n => IsRetryOf(Cut(n), n)
      BY <2>1, <2>3, CutIsCaught
    <3>2. n \in P /\ \A x \in P : Retry(x) \in P
      BY <3>1
    <3>3. v \in P /\ v # n
      <4> HIDE DEF P
      <4> QED
        BY <3>2, RetriesStayIn
    <3> QED
      BY <3>1, <3>3
  <2> QED
    BY <2>2, <2>3
<1> QED
  BY <1>1, StemsStayDifferent, PTL
=============================================================================
