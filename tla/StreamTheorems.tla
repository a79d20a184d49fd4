--------------------------- MODULE StreamTheorems ---------------------------
(***************************************************************************)
(* Theorems about InputStream and Parser: however the stream of a client   *)
(* is cut, the commands of the whole stream are executed; a handler gets   *)
(* words; and parse loses nothing.                                         *)
(***************************************************************************)
EXTENDS InputStream, Positions, SequenceTheorems, FiniteSetTheorems, TLAPS

(* Lines and commands of a stream *)

\* Stripping the '\r' leaves a line of the same characters.
LEMMA LineOfIsSeq ==
    ASSUME NEW T, NEW text \in Seq(T)
    PROVE  LineOf(text) \in Seq(T)
<1>1. CASE text # << >>
  <2>1. Len(text) \in Nat \ {0} /\ \A j \in 1..Len(text) : text[j] \in T
    BY <1>1, EmptySeq, ElementOfSeq
  <2>2. Front(text) = SubSeq(text, 1, Len(text) - 1)
    BY DEF Front
  <2>3. Front(text) \in Seq(T)
    BY <2>1, <2>2, SubSeqProperties
  <2> QED
    BY <2>3 DEF LineOf
<1> QED
  BY <1>1 DEF LineOf

\* The type of what the server executes.
Parsed == {Parse(line) : line \in Seq(DOMAIN Upper)}

\* find('\n') is the first line feed, if there is one.
LEMMA LineFeedIsFirst ==
    ASSUME NEW T, NEW s \in Seq(T)
    PROVE  /\ LineFeed(s) = 0 <=> Feeds(s) = {}
           /\ Feeds(s) # {} => /\ LineFeed(s) \in Feeds(s)
                               /\ \A j \in Feeds(s) : LineFeed(s) <= j
           /\ LineFeed(s) \in 0..Len(s)
<1> DEFINE L == Len(s)
           F == {i \in DOMAIN s : s[i] = "\n"}
           m == Min(F \cup {L + 1})
<1>1. L \in Nat /\ DOMAIN s = 1..L
  OBVIOUS
<1>2. F \cup {L + 1} \in SUBSET Nat /\ F \cup {L + 1} # {}
  BY <1>1
<1>3. m \in F \cup {L + 1} /\ \A x \in F \cup {L + 1} : m <= x
  <2> HIDE DEF F, L
  <2> QED
    BY <1>2, MinIsLeast
<1>4. LineFeed(s) = m % (L + 1)
  BY DEF LineFeed
<1>5. F = Feeds(s) /\ F \subseteq 1..L
  BY <1>1 DEF Feeds
<1> HIDE DEF m, F, L
<1>6. CASE m = L + 1
  <2>1. (L + 1) % (L + 1) = 0
    BY <1>1
  <2>2. F = {}
    <3>1. \A x \in F : L + 1 <= x /\ x <= L /\ x \in Nat
      BY <1>1, <1>3, <1>5, <1>6
    <3> QED
      BY <1>1, <3>1
  <2> QED
    BY <1>1, <1>4, <1>5, <1>6, <2>1, <2>2
<1>7. CASE m # L + 1
  <2>1. m \in F /\ m \in 1..L
    BY <1>3, <1>5, <1>7
  <2>2. m % (L + 1) = m
    BY <1>1, <2>1
  <2> QED
    BY <1>1, <1>3, <1>4, <1>5, <2>1, <2>2
<1> QED
  BY <1>6, <1>7

\* A list of nothing but empty lists is empty put together.
LEMMA FlattenNothing ==
    ASSUME NEW n \in Nat
    PROVE  FlattenSeq([i \in 1..n |-> << >>]) = << >>
<1>1. [i \in 1..n |-> << >>] \in Seq(Seq({}))
  <2>1. [i \in 1..n |-> << >>] \in [1..n -> Seq({})]
    BY EmptySeq
  <2> QED
    BY <2>1, FunctionIsSeq
<1>2. FlattenSeq([i \in 1..n |-> << >>]) \in Seq({})
  BY <1>1, FlattenAppend, EmptySeq
<1>3. \A q \in Seq({}) : q = << >>
  <2>1. ASSUME NEW q \in Seq({})
        PROVE  q = << >>
    <3>1. Len(q) \in Nat /\ \A i \in 1..Len(q) : q[i] \in {}
      BY <2>1, ElementOfSeq
    <3>2. Len(q) = 0
      BY <3>1
    <3> QED
      BY <2>1, <3>2, EmptySeq
  <2> QED
    BY <2>1
<1> QED
  BY <1>2, <1>3

\* The line that ends at i, and its command.
LEMMA TextIsSeq ==
    ASSUME NEW s \in Seq(DOMAIN Upper), NEW i \in DOMAIN s
    PROVE  /\ TextAt(s, i) \in Seq(DOMAIN Upper)
           /\ LineOf(TextAt(s, i)) \in Seq(DOMAIN Upper)
           /\ CommandAt(s, i) \in Seq(Parsed)
<1> DEFINE C == DOMAIN Upper
           B == {0} \cup {j \in Feeds(s) : j < i}
<1>1. Len(s) \in Nat /\ DOMAIN s = 1..Len(s) /\ i \in Nat
  OBVIOUS
<1>2. B \in SUBSET (0..i) /\ B # {}
  BY <1>1 DEF Feeds
<1>3. Max(B) \in B /\ Max(B) \in 0..i
  <2> HIDE DEF B
  <2> QED
    BY <1>1, <1>2, MaxIsGreatest
<1> HIDE DEF B
<1>4. TextAt(s, i) = SubSeq(s, Max(B) + 1, i - 1)
  BY DEF TextAt, B
<1>5. TextAt(s, i) \in Seq(C)
  <2>1. \A j \in Max(B)+1..i-1 : s[j] \in C
    BY <1>1, <1>3, ElementOfSeq
  <2> QED
    BY <1>1, <1>3, <1>4, <2>1, SubSeqProperties
<1>6. LineOf(TextAt(s, i)) \in Seq(C)
  BY <1>5, LineOfIsSeq
<1>7. CommandAt(s, i) \in Seq(Parsed)
  <2>1. Parse(LineOf(TextAt(s, i))) \in Parsed
    BY <1>6 DEF Parsed
  <2> QED
    BY <2>1, EmptySeq DEF CommandAt
<1> QED
  BY <1>5, <1>6, <1>7

\* The commands of a stream are that of its first line, and those of the rest.
LEMMA FirstLineFirst ==
    ASSUME NEW s \in Seq(DOMAIN Upper), NEW f \in Feeds(s), \A j \in Feeds(s) : f <= j
    PROVE  LET t == SubSeq(s, f + 1, Len(s))
           IN  /\ t \in Seq(DOMAIN Upper)
               /\ TextAt(s, f) = SubSeq(s, 1, f - 1)
               /\ AllCommands(s) = CommandAt(s, f) \o AllCommands(t)
               /\ AllCommands(t) \in Seq(Parsed)
<1> DEFINE C == DOMAIN Upper
           L == Len(s)
           t == SubSeq(s, f + 1, L)
<1>1. L \in Nat /\ DOMAIN s = 1..L /\ f \in 1..L /\ \A i \in 1..L : s[i] \in C
  BY ElementOfSeq DEF Feeds
<1>2. /\ t \in Seq(C) /\ Len(t) = L - f /\ DOMAIN t = 1..L-f
      /\ \A i \in 1..L-f : t[i] = s[f+i]
  <2>1. \A i \in f+1..L : s[i] \in C
    BY <1>1
  <2>2. /\ t \in Seq(C) /\ Len(t) = IF f + 1 <= L THEN L - (f + 1) + 1 ELSE 0
        /\ \A i \in 1..L - (f + 1) + 1 : t[i] = s[(f + 1) + i - 1]
    BY <1>1, <2>1, SubSeqProperties
  <2> HIDE DEF t, L
  <2>3. Len(t) = L - f
    BY <1>1, <2>2
  <2>4. L - (f + 1) + 1 = L - f /\ \A i \in 1..L-f : (f + 1) + i - 1 = f + i
    BY <1>1
  <2> QED
    BY <2>2, <2>3, <2>4
<1> HIDE DEF t
<1>3. \A i \in 1..L-f : f + i \in 1..L /\ (f + i \in Feeds(s) <=> i \in Feeds(t))
  BY <1>1, <1>2 DEF Feeds
<1>4. {j \in Feeds(s) : j < f} = {}
  BY <1>1 DEF Feeds
<1>5. TextAt(s, f) = SubSeq(s, 1, f - 1)
  <2>1. {0} \cup {j \in Feeds(s) : j < f} = {0} /\ {0} \in SUBSET (0..0) /\ {0} # {}
    BY <1>4
  <2>2. Max({0}) \in {0}
    BY <2>1, MaxIsGreatest
  <2>3. Max({0}) + 1 = 1
    BY <2>2
  <2> QED
    BY <2>1, <2>3 DEF TextAt
<1>6. ASSUME NEW i \in 1..L-f
      PROVE  TextAt(s, f + i) = TextAt(t, i)
  <2> DEFINE Bs == {0} \cup {j \in Feeds(s) : j < f + i}
             Bt == {0} \cup {j \in Feeds(t) : j < i}
  <2>1. Bs \in SUBSET (0..L) /\ Bs # {} /\ Bt \in SUBSET (0..L) /\ Bt # {}
    BY <1>1, <1>2 DEF Feeds
  <2>2. /\ Max(Bs) \in Bs /\ \A x \in Bs : x <= Max(Bs)
        /\ Max(Bt) \in Bt /\ \A x \in Bt : x <= Max(Bt)
    <3> HIDE DEF Bs, Bt
    <3> QED
      BY <1>1, <2>1, MaxIsGreatest
  <2> DEFINE ms == Max(Bs)
             mt == Max(Bt)
  <2>3. ms \in Bs /\ mt \in Bt /\ (\A x \in Bs : x <= ms) /\ \A x \in Bt : x <= mt
    BY <2>2
  <2> HIDE DEF ms, mt
  <2>4. ms \in 0..L /\ mt \in 0..L
    BY <2>1, <2>3
  <2>5. f <= ms
    BY <1>1, <2>3
  <2>6. f + mt \in Bs
    <3>1. CASE mt = 0
      BY <1>1, <3>1
    <3>2. CASE mt # 0
      <4>1. mt \in Feeds(t) /\ mt < i /\ mt \in 1..L-f
        BY <1>2, <2>3, <3>2 DEF Feeds
      <4> QED
        BY <1>1, <1>3, <4>1
    <3> QED
      BY <3>1, <3>2
  <2>7. ms - f \in Bt
    <3>1. CASE ms = f
      BY <1>1, <3>1
    <3>2. CASE ms # f
      <4>1. ms \in Feeds(s) /\ ms < f + i
        BY <1>1, <2>3, <2>5, <3>2
      <4>2. ms - f \in 1..L-f /\ f + (ms - f) = ms /\ ms - f < i
        BY <1>1, <2>4, <2>5, <3>2, <4>1
      <4>3. ms - f \in Feeds(t)
        BY <1>3, <4>1, <4>2
      <4> QED
        BY <4>2, <4>3
    <3> QED
      BY <3>1, <3>2
  <2>8. ms = f + mt
    <3>1. f + mt <= ms /\ ms - f <= mt
      BY <2>3, <2>6, <2>7
    <3> QED
      BY <1>1, <2>4, <3>1
  <2>9. TextAt(s, f + i) = SubSeq(s, (f + mt) + 1, (f + i) - 1) /\ TextAt(t, i) = SubSeq(t, mt + 1, i - 1)
    BY <2>8 DEF TextAt, ms, mt
  <2>10. mt <= i - 1
    BY <2>3, <1>1
  <2> DEFINE u == SubSeq(s, (f + mt) + 1, (f + i) - 1)
             v == SubSeq(t, mt + 1, i - 1)
             n == (i - 1) - mt
  <2>11. /\ \A k \in (f + mt) + 1..(f + i) - 1 : s[k] \in C
         /\ \A k \in mt + 1..i - 1 : t[k] \in C
    BY <1>1, <1>2, <2>4, ElementOfSeq
  <2>12. u \in Seq(C) /\ Len(u) = n /\ \A k \in 1..n : u[k] = s[f + mt + k]
    <3>1. (f + mt) + 1 \in Int /\ (f + i) - 1 \in Int
      BY <1>1, <2>4
    <3>2. /\ u \in Seq(C)
          /\ Len(u) = IF (f + mt) + 1 <= (f + i) - 1 THEN ((f + i) - 1) - ((f + mt) + 1) + 1 ELSE 0
          /\ \A k \in 1..((f + i) - 1) - ((f + mt) + 1) + 1 : u[k] = s[((f + mt) + 1) + k - 1]
      BY <2>11, <3>1, SubSeqProperties
    <3> HIDE DEF u
    <3>3. Len(u) = n /\ ((f + i) - 1) - ((f + mt) + 1) + 1 = n
      BY <1>1, <2>4, <2>10, <3>2
    <3>4. \A k \in 1..n : ((f + mt) + 1) + k - 1 = f + mt + k
      BY <1>1, <2>4
    <3> QED
      BY <3>2, <3>3, <3>4
  <2>13. v \in Seq(C) /\ Len(v) = n /\ \A k \in 1..n : v[k] = t[mt + k]
    <3>1. mt + 1 \in Int /\ i - 1 \in Int
      BY <1>1, <2>4
    <3>2. /\ v \in Seq(C)
          /\ Len(v) = IF mt + 1 <= i - 1 THEN (i - 1) - (mt + 1) + 1 ELSE 0
          /\ \A k \in 1..(i - 1) - (mt + 1) + 1 : v[k] = t[(mt + 1) + k - 1]
      BY <2>11, <3>1, SubSeqProperties
    <3> HIDE DEF v
    <3>3. Len(v) = n /\ (i - 1) - (mt + 1) + 1 = n
      BY <1>1, <2>4, <2>10, <3>2
    <3>4. \A k \in 1..n : (mt + 1) + k - 1 = mt + k
      BY <1>1, <2>4
    <3> QED
      BY <3>2, <3>3, <3>4
  <2>14. \A k \in 1..n : mt + k \in 1..L-f /\ f + (mt + k) = f + mt + k
    BY <1>1, <2>4
  <2> HIDE DEF u, v, n
  <2>15. \A k \in 1..n : u[k] = v[k]
    BY <1>2, <2>12, <2>13, <2>14
  <2>16. u = v
    BY <2>12, <2>13, <2>15, SeqEqual
  <2> QED
    BY <2>9, <2>16 DEF u, v
<1> DEFINE A == [i \in 1..f-1 |-> << >>]
           D == <<CommandAt(s, f)>>
           B == [i \in DOMAIN t |-> CommandAt(t, i)]
           M == [i \in DOMAIN s |-> CommandAt(s, i)]
           S == Seq(Parsed)
<1>7. CommandAt(s, f) \in S /\ << >> \in S
  BY <1>1, TextIsSeq, EmptySeq
<1>8. /\ A \in Seq(S) /\ Len(A) = f - 1 /\ \A i \in 1..f-1 : A[i] = << >>
      /\ D \in Seq(S) /\ Len(D) = 1 /\ D[1] = CommandAt(s, f)
      /\ B \in Seq(S) /\ Len(B) = L - f /\ \A i \in 1..L-f : B[i] = CommandAt(t, i)
      /\ M \in Seq(S) /\ Len(M) = L /\ \A i \in 1..L : M[i] = CommandAt(s, i)
  <2>1. f - 1 \in Nat /\ L - f \in Nat
    BY <1>1
  <2>2. A \in [1..f-1 -> S]
    BY <1>7
  <2>3. B \in [1..L-f -> S]
    BY <1>2, TextIsSeq
  <2>4. M \in [1..L -> S]
    BY <1>1, TextIsSeq
  <2>5. D \in Seq(S) /\ Len(D) = 1 /\ D[1] = CommandAt(s, f)
    BY <1>7
  <2>6. /\ \A i \in 1..f-1 : A[i] = << >>
        /\ \A i \in 1..L-f : B[i] = CommandAt(t, i)
        /\ \A i \in 1..L : M[i] = CommandAt(s, i)
    BY <1>1, <1>2
  <2> HIDE DEF A, B, D, M, S
  <2> QED
    BY <1>1, <2>1, <2>2, <2>3, <2>4, <2>5, <2>6, FunctionIsSeq
<1>9. /\ \A i \in 1..f-1 : CommandAt(s, i) = << >>
      /\ \A i \in 1..L-f : CommandAt(s, f + i) = CommandAt(t, i)
  <2>1. \A i \in 1..f-1 : i \notin Feeds(s)
    BY <1>1
  <2> QED
    BY <1>3, <1>6, <2>1 DEF CommandAt
<1>10. FlattenSeq(A) = << >>
  <2>1. f - 1 \in Nat
    BY <1>1
  <2> QED
    BY <2>1, FlattenNothing
<1>11. AllCommands(s) = FlattenSeq(M) /\ AllCommands(t) = FlattenSeq(B)
  BY DEF AllCommands
<1> HIDE DEF A, B, D, M, S
<1>12. M = A \o (D \o B)
  <2> DEFINE E == D \o B
             N == A \o E
  <2>0. /\ A \in Seq(S) /\ D \in Seq(S) /\ B \in Seq(S)
        /\ Len(A) = f - 1 /\ Len(D) = 1 /\ Len(B) = L - f
    BY <1>8
  <2>1. /\ E \in Seq(S) /\ Len(E) = 1 + (L - f)
        /\ \A i \in 1..1 + (L - f) : E[i] = IF i <= 1 THEN D[i] ELSE B[i - 1]
    <3>1. /\ E \in Seq(S) /\ Len(E) = Len(D) + Len(B)
          /\ \A i \in 1..Len(D) + Len(B) : E[i] = IF i <= Len(D) THEN D[i] ELSE B[i - Len(D)]
      BY <2>0, ConcatProperties
    <3> HIDE DEF E
    <3> QED
      BY <2>0, <3>1
  <2> HIDE DEF E
  <2>2. /\ N \in Seq(S) /\ Len(N) = (f - 1) + (1 + (L - f))
        /\ \A i \in 1..(f - 1) + (1 + (L - f)) :
              N[i] = IF i <= f - 1 THEN A[i] ELSE E[i - (f - 1)]
    <3>1. /\ N \in Seq(S) /\ Len(N) = Len(A) + Len(E)
          /\ \A i \in 1..Len(A) + Len(E) : N[i] = IF i <= Len(A) THEN A[i] ELSE E[i - Len(A)]
      BY <2>0, <2>1, ConcatProperties
    <3> HIDE DEF N
    <3> QED
      BY <2>0, <2>1, <3>1
  <2> HIDE DEF N
  <2>3. (f - 1) + (1 + (L - f)) = L
    BY <1>1
  <2>4. ASSUME NEW i \in 1..L
        PROVE  N[i] = M[i]
    <3>1. CASE i <= f - 1
      <4>1. i \in 1..f-1 /\ N[i] = A[i]
        BY <1>1, <2>2, <2>3, <3>1
      <4> QED
        BY <1>8, <1>9, <4>1
    <3>2. CASE i = f
      <4>1. N[i] = E[i - (f - 1)] /\ i - (f - 1) = 1 /\ 1 \in 1..1 + (L - f)
        BY <1>1, <2>2, <2>3, <3>2
      <4>2. E[1] = D[1]
        BY <2>1, <4>1
      <4> QED
        BY <1>8, <3>2, <4>1, <4>2
    <3>3. CASE f < i
      <4>1. N[i] = E[i - (f - 1)] /\ i - (f - 1) \in 1..1 + (L - f) /\ ~(i - (f - 1) <= 1)
        BY <1>1, <2>2, <2>3, <3>3
      <4>2. (i - (f - 1)) - 1 = i - f /\ i - f \in 1..L-f /\ f + (i - f) = i
        BY <1>1, <3>3
      <4>3. N[i] = B[i - f]
        BY <2>1, <4>1, <4>2
      <4> QED
        BY <1>8, <1>9, <4>2, <4>3
    <3> QED
      BY <1>1, <3>1, <3>2, <3>3
  <2>5. N = M
    BY <1>8, <2>2, <2>3, <2>4, SeqEqual
  <2> QED
    BY <2>5 DEF N, E
<1>13. FlattenSeq(B) \in Seq(Parsed) /\ FlattenSeq(D \o B) = CommandAt(s, f) \o FlattenSeq(B)
  <2>1. FlattenSeq(D) = CommandAt(s, f)
    BY <1>7, FlattenOne DEF D, S
  <2>2. D \in Seq(Seq(Parsed)) /\ B \in Seq(Seq(Parsed))
    BY <1>8 DEF S
  <2>3. FlattenSeq(D \o B) = FlattenSeq(D) \o FlattenSeq(B)
    BY <2>2, FlattenConcat
  <2>4. FlattenSeq(B) \in Seq(Parsed)
    BY <2>2, FlattenAppend, EmptySeq
  <2> QED
    BY <2>1, <2>3, <2>4
<1>14. FlattenSeq(M) = CommandAt(s, f) \o FlattenSeq(B)
  <2>1. D \o B \in Seq(Seq(Parsed))
    BY <1>8, ConcatProperties DEF S
  <2>2. FlattenSeq(M) = << >> \o FlattenSeq(D \o B)
    BY <1>8, <1>10, <1>12, <2>1, FlattenConcat DEF S
  <2>3. FlattenSeq(D \o B) \in Seq(Parsed)
    BY <2>1, FlattenAppend, EmptySeq
  <2> QED
    BY <1>13, <2>2, <2>3, ConcatEmptySeq
<1> QED
  BY <1>2, <1>5, <1>11, <1>13, <1>14 DEF t

\* The commands up to the first QUIT are commands.
LEMMA UpToQuitIsSeq ==
    ASSUME NEW a \in Seq(Parsed)
    PROVE  /\ Min({k \in DOMAIN a : a[k].command = Quit} \cup {Len(a)}) \in 0..Len(a)
           /\ UpToQuit(a) \in Seq(Parsed)
<1> DEFINE Q == {k \in DOMAIN a : a[k].command = Quit} \cup {Len(a)}
           m == Min(Q)
<1>1. Len(a) \in Nat /\ DOMAIN a = 1..Len(a) /\ \A k \in 1..Len(a) : a[k] \in Parsed
  BY ElementOfSeq
<1>2. Q \in SUBSET (0..Len(a)) /\ Q \in SUBSET Nat /\ Q # {}
  BY <1>1
<1>3. m \in 0..Len(a)
  <2> HIDE DEF Q
  <2>1. m \in Q
    BY <1>2, MinIsLeast
  <2> QED
    BY <1>2, <2>1
<1>4. UpToQuit(a) = SubSeq(a, 1, m)
  BY DEF UpToQuit
<1> HIDE DEF m
<1>5. \A k \in 1..m : a[k] \in Parsed
  BY <1>1, <1>3
<1>6. UpToQuit(a) \in Seq(Parsed)
  BY <1>3, <1>4, <1>5, SubSeqProperties
<1> QED
  BY <1>3, <1>6 DEF m

\* If the first command is QUIT it is all; otherwise it comes before those of
\* the rest.
LEMMA UpToQuitFirst ==
    ASSUME NEW x \in Parsed, NEW a \in Seq(Parsed)
    PROVE  UpToQuit(<<x>> \o a) = IF x.command = Quit THEN <<x>> ELSE <<x>> \o UpToQuit(a)
<1> DEFINE b  == <<x>> \o a
           Qa == {k \in DOMAIN a : a[k].command = Quit} \cup {Len(a)}
           Qb == {k \in DOMAIN b : b[k].command = Quit} \cup {Len(b)}
           ma == Min(Qa)
           mb == Min(Qb)
           n  == Len(a)
<1>1. n \in Nat /\ DOMAIN a = 1..n /\ \A k \in 1..n : a[k] \in Parsed
  BY ElementOfSeq
<1>2. <<x>> \in Seq(Parsed) /\ Len(<<x>>) = 1 /\ <<x>>[1] = x
  OBVIOUS
<1>3. /\ b \in Seq(Parsed) /\ Len(b) = 1 + n /\ DOMAIN b = 1..1+n
      /\ b[1] = x /\ \A k \in 1..n : b[k+1] = a[k]
  <2>1. b \in Seq(Parsed) /\ Len(b) = 1 + n
        /\ \A k \in 1..1+n : b[k] = IF k <= 1 THEN <<x>>[k] ELSE a[k-1]
    <3>1. b \in Seq(Parsed) /\ Len(b) = Len(<<x>>) + n
          /\ \A k \in 1..Len(<<x>>) + n : b[k] = IF k <= Len(<<x>>) THEN <<x>>[k] ELSE a[k - Len(<<x>>)]
      BY <1>2, ConcatProperties
    <3> HIDE DEF b
    <3> QED
      BY <1>2, <3>1
  <2> HIDE DEF b
  <2>2. b[1] = x
    BY <1>1, <1>2, <2>1
  <2>3. ASSUME NEW k \in 1..n
        PROVE  b[k+1] = a[k]
    <3>1. k + 1 \in 1..1+n /\ ~(k + 1 <= 1) /\ (k + 1) - 1 = k
      BY <1>1
    <3> QED
      BY <2>1, <3>1
  <2>4. DOMAIN b = 1..Len(b)
    BY <2>1
  <2> QED
    BY <2>1, <2>2, <2>3, <2>4
<1>4. UpToQuit(b) = SubSeq(b, 1, mb) /\ UpToQuit(a) = SubSeq(a, 1, ma)
  BY DEF UpToQuit
<1>5. UpToQuit(a) \in Seq(Parsed) /\ ma \in 0..n
  BY UpToQuitIsSeq
<1> HIDE DEF b
<1>6. /\ Qa \in SUBSET Nat /\ Qa # {}
      /\ Qb \in SUBSET (1..1+n) /\ Qb \in SUBSET Nat /\ Qb # {}
  BY <1>1, <1>3
<1>7. /\ ma \in Qa /\ \A k \in Qa : ma <= k
      /\ mb \in Qb /\ \A k \in Qb : mb <= k
  <2> HIDE DEF Qa, Qb
  <2> QED
    BY <1>6, MinIsLeast
<1> HIDE DEF ma, mb
<1>8. mb \in 1..1+n
  BY <1>6, <1>7
<1>9. CASE x.command = Quit
  <2>1. mb = 1
    <3>1. 1 \in Qb
      BY <1>1, <1>3, <1>9
    <3>2. mb <= 1
      BY <1>7, <3>1
    <3> HIDE DEF Qb
    <3> QED
      BY <1>8, <3>2
  <2>2. \A k \in 1..1 : b[k] \in Parsed
    BY <1>3
  <2>3. SubSeq(b, 1, 1) \in Seq(Parsed) /\ Len(SubSeq(b, 1, 1)) = 1 /\ SubSeq(b, 1, 1)[1] = b[1]
    <3>1. /\ SubSeq(b, 1, 1) \in Seq(Parsed)
          /\ Len(SubSeq(b, 1, 1)) = IF 1 <= 1 THEN 1-1+1 ELSE 0
          /\ \A k \in 1..1-1+1 : SubSeq(b, 1, 1)[k] = b[1+k-1]
      BY <2>2, SubSeqProperties
    <3> QED
      BY <3>1
  <2>4. SubSeq(b, 1, 1) = <<x>>
    <3> DEFINE c == SubSeq(b, 1, 1)
               d == <<x>>
    <3>1. c \in Seq(Parsed) /\ Len(c) = 1 /\ c[1] = x /\ d \in Seq(Parsed) /\ Len(d) = 1 /\ d[1] = x
      BY <1>2, <1>3, <2>3
    <3> HIDE DEF c, d
    <3>2. \A k \in 1..Len(c) : c[k] = d[k]
      BY <3>1
    <3>3. c = d
      BY <3>1, <3>2, SeqEqual
    <3> QED
      BY <3>3 DEF c, d
  <2> QED
    BY <1>4, <1>9, <2>1, <2>4 DEF b
<1>10. CASE x.command # Quit
  <2>1. mb = ma + 1
    <3>1. mb - 1 \in Qa
      <4>1. CASE mb = 1 + n
        BY <1>1, <4>1
      <4>2. CASE mb # 1 + n
        <5>1. b[mb].command = Quit
          BY <1>3, <1>7, <4>2
        <5>2. mb # 1
          BY <1>3, <1>10, <5>1
        <5>3. mb - 1 \in 1..n /\ (mb - 1) + 1 = mb
          BY <1>1, <1>8, <5>2
        <5>4. a[mb - 1] = b[mb]
          BY <1>3, <5>3
        <5> QED
          BY <1>1, <5>1, <5>3, <5>4
      <4> QED
        BY <4>1, <4>2
    <3>2. ma + 1 \in Qb
      <4>1. CASE ma = n
        BY <1>1, <1>3, <4>1
      <4>2. CASE ma # n
        <5>1. ma \in 1..n /\ a[ma].command = Quit
          BY <1>1, <1>7, <4>2
        <5>2. b[ma + 1] = a[ma] /\ ma + 1 \in 1..1+n
          BY <1>1, <1>3, <5>1
        <5> QED
          BY <1>3, <5>1, <5>2
      <4> QED
        BY <4>1, <4>2
    <3>3. ma <= mb - 1 /\ mb <= ma + 1
      BY <1>7, <3>1, <3>2
    <3> HIDE DEF Qa, Qb
    <3> QED
      BY <1>1, <1>5, <1>8, <3>3
  <2> DEFINE c == SubSeq(b, 1, ma + 1)
             e == SubSeq(a, 1, ma)
             d == <<x>> \o e
  <2>2. c \in Seq(Parsed) /\ Len(c) = ma + 1 /\ \A k \in 1..ma+1 : c[k] = b[k]
    <3>1. \A k \in 1..ma+1 : b[k] \in Parsed
      BY <1>1, <1>3, <1>5, ElementOfSeq
    <3>2. /\ c \in Seq(Parsed)
          /\ Len(c) = IF 1 <= ma + 1 THEN (ma+1)-1+1 ELSE 0
          /\ \A k \in 1..(ma+1)-1+1 : c[k] = b[1+k-1]
      BY <1>1, <1>5, <3>1, SubSeqProperties
    <3> HIDE DEF c
    <3>3. (ma+1)-1+1 = ma + 1 /\ 1 <= ma + 1 /\ \A k \in 1..ma+1 : 1+k-1 = k
      BY <1>1, <1>5
    <3> QED
      BY <3>2, <3>3
  <2>3. e \in Seq(Parsed) /\ Len(e) = ma /\ \A k \in 1..ma : e[k] = a[k]
    <3>1. \A k \in 1..ma : a[k] \in Parsed
      BY <1>1, <1>5
    <3>2. /\ e \in Seq(Parsed)
          /\ Len(e) = IF 1 <= ma THEN ma-1+1 ELSE 0
          /\ \A k \in 1..ma-1+1 : e[k] = a[1+k-1]
      BY <1>1, <1>5, <3>1, SubSeqProperties
    <3> HIDE DEF e
    <3>3. ma-1+1 = ma /\ (1 <= ma \/ ma = 0) /\ \A k \in 1..ma : 1+k-1 = k
      BY <1>1, <1>5
    <3> QED
      BY <3>2, <3>3
  <2> HIDE DEF c, e
  <2>4. d \in Seq(Parsed) /\ Len(d) = 1 + ma
        /\ \A k \in 1..1+ma : d[k] = IF k <= 1 THEN <<x>>[k] ELSE e[k-1]
    <3>1. d \in Seq(Parsed) /\ Len(d) = Len(<<x>>) + Len(e)
          /\ \A k \in 1..Len(<<x>>) + Len(e) : d[k] = IF k <= Len(<<x>>) THEN <<x>>[k] ELSE e[k - Len(<<x>>)]
      BY <1>2, <2>3, ConcatProperties
    <3> HIDE DEF d
    <3> QED
      BY <1>2, <2>3, <3>1
  <2> HIDE DEF d
  <2>5. ASSUME NEW k \in 1..ma+1
        PROVE  c[k] = d[k]
    <3>1. CASE k = 1
      <4>1. c[1] = x
        BY <1>1, <1>3, <1>5, <2>2, <3>1
      <4>2. d[1] = x
        BY <1>2, <1>5, <2>4
      <4> QED
        BY <3>1, <4>1, <4>2
    <3>2. CASE k # 1
      <4>1. k \in 1..1+ma /\ k - 1 \in 1..ma /\ k - 1 \in 1..n /\ ~(k <= 1) /\ (k - 1) + 1 = k
        BY <1>1, <1>5, <3>2
      <4>2. c[k] = a[k - 1]
        BY <1>3, <2>2, <4>1
      <4>3. d[k] = a[k - 1]
        BY <2>3, <2>4, <4>1
      <4> QED
        BY <4>2, <4>3
    <3> QED
      BY <3>1, <3>2
  <2>6. Len(c) = Len(d)
    BY <1>5, <2>2, <2>4
  <2>7. c = d
    BY <2>2, <2>4, <2>5, <2>6, SeqEqual
  <2> QED
    BY <1>4, <1>10, <2>1, <2>7 DEF b, c, d, e
<1> QED
  BY <1>9, <1>10

\* The commands of a stream are commands.
LEMMA CommandsAreParsed ==
    ASSUME NEW s \in Seq(DOMAIN Upper)
    PROVE  AllCommands(s) \in Seq(Parsed) /\ Commands(s) \in Seq(Parsed)
<1> DEFINE M == [i \in DOMAIN s |-> CommandAt(s, i)]
<1>1. Len(s) \in Nat /\ DOMAIN s = 1..Len(s)
  OBVIOUS
<1>2. M \in [1..Len(s) -> Seq(Parsed)]
  BY <1>1, TextIsSeq
<1>3. M \in Seq(Seq(Parsed))
  <2> HIDE DEF M
  <2> QED
    BY <1>1, <1>2, FunctionIsSeq
<1>4. AllCommands(s) \in Seq(Parsed)
  <2>1. FlattenSeq(M) \in Seq(Parsed)
    <3> HIDE DEF M
    <3> QED
      BY <1>3, FlattenAppend, EmptySeq
  <2> QED
    BY <2>1 DEF AllCommands
<1> QED
  BY <1>4, UpToQuitIsSeq DEF Commands

\* A buffer cut at a place within it, when more follows the buffer.
LEMMA CutBuffer ==
    ASSUME NEW T, NEW u \in Seq(T), NEW v \in Seq(T), NEW f \in 1..Len(u)
    PROVE  /\ u \o v \in Seq(T)
           /\ SubSeq(u \o v, 1, f - 1) = SubSeq(u, 1, f - 1)
           /\ SubSeq(u \o v, f + 1, Len(u \o v)) = SubSeq(u, f + 1, Len(u)) \o v
           /\ SubSeq(u, f + 1, Len(u)) \in Seq(T)
<1> DEFINE s == u \o v
           L == Len(u)
           N == Len(v)
<1>1. L \in Nat /\ N \in Nat /\ (\A i \in 1..L : u[i] \in T) /\ \A i \in 1..N : v[i] \in T
  BY ElementOfSeq
<1>2. /\ s \in Seq(T) /\ Len(s) = L + N
      /\ \A i \in 1..L+N : s[i] = IF i <= L THEN u[i] ELSE v[i - L]
  BY ConcatProperties
<1> HIDE DEF s, L, N
<1>3. f \in 1..L
  BY DEF L
<1>4. SubSeq(s, 1, f - 1) = SubSeq(u, 1, f - 1)
  <2>1. CASE f = 1
    BY <2>1, SubSeqEmpty
  <2>2. CASE f # 1
    <3>1. 1 \in 1..Len(u) /\ f - 1 \in 1..Len(u)
      BY <1>1, <1>3, <2>2 DEF L
    <3> QED
      BY <3>1, SubSeqOfConcat1 DEF s
  <2> QED
    BY <2>1, <2>2
<1> DEFINE a == SubSeq(s, f + 1, L + N)
           b == SubSeq(u, f + 1, L)
           c == b \o v
<1>5. a \in Seq(T) /\ Len(a) = (L - f) + N /\ \A i \in 1..(L-f)+N : a[i] = s[f+i]
  <2>1. \A i \in f+1..L+N : s[i] \in T
    BY <1>1, <1>2, <1>3, ElementOfSeq
  <2>2. /\ a \in Seq(T)
        /\ Len(a) = IF f + 1 <= L + N THEN (L + N) - (f + 1) + 1 ELSE 0
        /\ \A i \in 1..(L + N) - (f + 1) + 1 : a[i] = s[(f + 1) + i - 1]
    BY <1>1, <1>3, <2>1, SubSeqProperties
  <2> HIDE DEF a
  <2>3. /\ (L + N) - (f + 1) + 1 = (L - f) + N
        /\ ~(f + 1 <= L + N) => (L - f) + N = 0
        /\ \A i \in 1..(L-f)+N : (f + 1) + i - 1 = f + i
    BY <1>1, <1>3
  <2> QED
    BY <2>2, <2>3
<1>6. b \in Seq(T) /\ Len(b) = L - f /\ \A i \in 1..L-f : b[i] = u[f+i]
  <2>1. \A i \in f+1..L : u[i] \in T
    BY <1>1, <1>3
  <2>2. /\ b \in Seq(T)
        /\ Len(b) = IF f + 1 <= L THEN L - (f + 1) + 1 ELSE 0
        /\ \A i \in 1..L - (f + 1) + 1 : b[i] = u[(f + 1) + i - 1]
    BY <1>1, <1>3, <2>1, SubSeqProperties
  <2> HIDE DEF b
  <2>3. /\ L - (f + 1) + 1 = L - f
        /\ ~(f + 1 <= L) => L - f = 0
        /\ \A i \in 1..L-f : (f + 1) + i - 1 = f + i
    BY <1>1, <1>3
  <2> QED
    BY <2>2, <2>3
<1> HIDE DEF a, b
<1>7. /\ c \in Seq(T) /\ Len(c) = (L - f) + N
      /\ \A i \in 1..(L-f)+N : c[i] = IF i <= L - f THEN b[i] ELSE v[i - (L - f)]
  <2>1. /\ c \in Seq(T) /\ Len(c) = Len(b) + Len(v)
        /\ \A i \in 1..Len(b) + Len(v) : c[i] = IF i <= Len(b) THEN b[i] ELSE v[i - Len(b)]
    BY <1>6, ConcatProperties
  <2> HIDE DEF c
  <2> QED
    BY <1>6, <2>1 DEF N
<1> HIDE DEF c
<1>8. ASSUME NEW i \in 1..(L-f)+N
      PROVE  a[i] = c[i]
  <2>1. f + i \in 1..L+N /\ a[i] = s[f + i]
    BY <1>1, <1>3, <1>5
  <2>2. CASE i <= L - f
    <3>1. f + i <= L /\ i \in 1..L-f
      BY <1>1, <1>3, <2>2
    <3> QED
      BY <1>2, <1>6, <1>7, <2>1, <2>2, <3>1
  <2>3. CASE ~(i <= L - f)
    <3>1. ~(f + i <= L) /\ (f + i) - L = i - (L - f)
      BY <1>1, <1>3, <2>3
    <3> QED
      BY <1>2, <1>7, <2>1, <2>3, <3>1
  <2> QED
    BY <2>2, <2>3
<1>9. a = c
  BY <1>5, <1>7, <1>8, SeqEqual
<1> QED
  BY <1>2, <1>4, <1>6, <1>9 DEF a, b, c, s, L

-----------------------------------------------------------------------------
(* The commands of the stream, however it is cut *)

\* The types, and that no more was received than was sent.
StreamTypeOK ==
    /\ stream \in Stream
    /\ inBuffer \in Seq(DOMAIN Upper)
    /\ received \in 0..Len(stream)
    /\ executed \in Seq(Parsed)
    /\ connected \in BOOLEAN

IInv == StreamTypeOK /\ ChunksDoNotMatter

\* Nothing was received yet: all the commands are to come.
LEMMA StreamInit == Init => IInv
<1> SUFFICES ASSUME Init PROVE IInv
  OBVIOUS
<1>1. stream \in Stream /\ stream \in Seq(DOMAIN Upper) /\ Len(stream) \in Nat
  BY StreamAssumption DEF Init
<1>2. StreamTypeOK
  BY <1>1, EmptySeq DEF Init, StreamTypeOK
<1>3. SubSeq(stream, received + 1, Len(stream)) = stream
  <2>1. received + 1 = 1
    BY DEF Init
  <2> DEFINE c == SubSeq(stream, 1, Len(stream))
  <2>2. \A i \in 1..Len(stream) : stream[i] \in DOMAIN Upper
    BY <1>1, ElementOfSeq
  <2>3. /\ c \in Seq(DOMAIN Upper)
        /\ Len(c) = IF 1 <= Len(stream) THEN Len(stream)-1+1 ELSE 0
        /\ \A i \in 1..Len(stream)-1+1 : c[i] = stream[1+i-1]
    BY <1>1, <2>2, SubSeqProperties
  <2> HIDE DEF c
  <2>4. /\ Len(stream)-1+1 = Len(stream) /\ (~(1 <= Len(stream)) => Len(stream) = 0)
        /\ \A i \in 1..Len(stream) : 1+i-1 = i
    BY <1>1
  <2>5. Len(c) = Len(stream) /\ \A i \in 1..Len(c) : c[i] = stream[i]
    BY <2>3, <2>4
  <2>6. c = stream
    BY <1>1, <2>3, <2>5, SeqEqual
  <2> QED
    BY <2>1, <2>6 DEF c
<1>4. Commands(stream) \in Seq(Parsed)
  BY <1>1, CommandsAreParsed
<1>5. << >> \o stream = stream /\ << >> \o Commands(stream) = Commands(stream)
  BY <1>1, <1>4, ConcatEmptySeq
<1>6. ChunksDoNotMatter
  <2>1. inBuffer = << >> /\ executed = << >> /\ connected
    BY DEF Init
  <2> QED
    BY <1>3, <1>5, <2>1 DEF ChunksDoNotMatter
<1> QED
  BY <1>2, <1>6 DEF IInv

\* recv() takes the next bytes from what is to come: together they are the same.
LEMMA ReadKeepsStream ==
    ASSUME IInv, HandleClientRead
    PROVE  IInv'
<1> DEFINE C == DOMAIN Upper
           L == Len(stream)
           rest == inBuffer \o SubSeq(stream, received + 1, L)
<1>1. PICK n \in 1..Chunk : /\ received + n <= L
                            /\ inBuffer' = inBuffer \o SubSeq(stream, received + 1, received + n)
                            /\ received' = received + n
                            /\ stream' = stream /\ executed' = executed /\ connected' = connected
  BY DEF HandleClientRead, Appended
<1>2. /\ n \in Nat \ {0} /\ L \in Nat /\ received \in 0..L /\ stream \in Seq(C)
      /\ inBuffer \in Seq(C) /\ \A i \in 1..L : stream[i] \in C
  BY StreamAssumption, ChunkAssumption, ElementOfSeq DEF IInv, StreamTypeOK
<1> DEFINE a == SubSeq(stream, received + 1, received + n)
           b == SubSeq(stream, received + n + 1, L)
           c == SubSeq(stream, received + 1, L)
<1>3. a \in Seq(C) /\ b \in Seq(C) /\ c = a \o b
  <2>1. \A i \in received + 1..received + n : stream[i] \in C
    BY <1>1, <1>2
  <2>2. \A i \in received + n + 1..L : stream[i] \in C
    BY <1>2
  <2>3. a \in Seq(C) /\ b \in Seq(C)
    BY <1>2, <2>1, <2>2, SubSeqProperties
  <2>4. /\ received + 1 \in 1..L+1
        /\ received + n \in (received + 1)-1..L
        /\ L \in received + n..L
    BY <1>1, <1>2
  <2>5. a \o b = c
    BY <1>2, <2>4, ConcatAdjacentSubSeq
  <2> QED
    BY <2>3, <2>5
<1> HIDE DEF a, b, c
<1>4. inBuffer' = inBuffer \o a /\ inBuffer' \in Seq(C)
  BY <1>1, <1>2, <1>3, ConcatProperties DEF a
<1>5. inBuffer' \o b = rest
  <2>1. (inBuffer \o a) \o b = inBuffer \o (a \o b)
    <3>1. inBuffer \in Seq(C) /\ a \in Seq(C) /\ b \in Seq(C)
      BY <1>2, <1>3
    <3> HIDE DEF C
    <3> QED
      BY <3>1, ConcatAssociative
  <2>2. inBuffer' \o b = inBuffer \o c
    BY <1>3, <1>4, <2>1
  <2> QED
    BY <2>2 DEF c
<1>6. SubSeq(stream', received' + 1, Len(stream')) = b
  BY <1>1 DEF b
<1>7. StreamTypeOK'
  <2>1. received + n \in 0..L
    BY <1>1, <1>2
  <2> QED
    BY <1>1, <1>4, <2>1 DEF IInv, StreamTypeOK
<1>8. ChunksDoNotMatter'
  <2>1. executed \o (IF connected THEN Commands(rest) ELSE << >>) = Commands(stream)
    BY DEF IInv, ChunksDoNotMatter
  <2> HIDE DEF rest
  <2>2. executed' \o (IF connected' THEN Commands(inBuffer' \o SubSeq(stream', received' + 1, Len(stream'))) ELSE << >>)
           = Commands(stream')
    BY <1>1, <1>5, <1>6, <2>1
  <2> QED
    BY <2>2 DEF ChunksDoNotMatter
<1> QED
  BY <1>7, <1>8 DEF IInv

\* The line taken out of the buffer is the first of what is to be executed.
LEMMA ExtractKeepsStream ==
    ASSUME IInv, ExtractCommand
    PROVE  IInv'
<1> DEFINE C == DOMAIN Upper
           L == Len(stream)
           f == LineFeed(inBuffer)
           v == SubSeq(stream, received + 1, L)
           s == inBuffer \o v
           w == SubSeq(inBuffer, f + 1, Len(inBuffer))
           t == w \o v
           line == LineOf(SubSeq(inBuffer, 1, f - 1))
           x == Parse(line)
<1>1. /\ connected /\ f # 0 /\ inBuffer' = w
      /\ executed' = IF line = << >> THEN executed ELSE Append(executed, x)
      /\ connected' = (line = << >> \/ x.command # Quit)
      /\ stream' = stream /\ received' = received
  BY DEF ExtractCommand
<1>2. /\ L \in Nat /\ received \in 0..L /\ stream \in Seq(C) /\ stream \in Stream
      /\ inBuffer \in Seq(C) /\ executed \in Seq(Parsed) /\ \A i \in 1..L : stream[i] \in C
  BY StreamAssumption, ElementOfSeq DEF IInv, StreamTypeOK
<1>3. v \in Seq(C)
  <2>1. \A i \in received + 1..L : stream[i] \in C
    BY <1>2
  <2> QED
    BY <1>2, <2>1, SubSeqProperties
<1>4. /\ f \in Feeds(inBuffer) /\ f \in 1..Len(inBuffer)
      /\ \A j \in Feeds(inBuffer) : f <= j
  <2>1. f \in Feeds(inBuffer) /\ \A j \in Feeds(inBuffer) : f <= j
    BY <1>1, <1>2, LineFeedIsFirst
  <2> HIDE DEF f
  <2>2. DOMAIN inBuffer = 1..Len(inBuffer)
    BY <1>2
  <2> QED
    BY <2>1, <2>2 DEF Feeds
<1>5. executed \o Commands(s) = Commands(stream)
  BY <1>1 DEF IInv, ChunksDoNotMatter
<1> HIDE DEF f, v
<1>6. /\ s \in Seq(C) /\ SubSeq(s, 1, f - 1) = SubSeq(inBuffer, 1, f - 1)
      /\ SubSeq(s, f + 1, Len(s)) = t /\ w \in Seq(C)
  <2>1. inBuffer \in Seq(C) /\ v \in Seq(C) /\ f \in 1..Len(inBuffer)
    BY <1>2, <1>3, <1>4
  <2> HIDE DEF C
  <2>2. s \in Seq(C)
    BY <2>1, CutBuffer
  <2>3. w \in Seq(C)
    BY <2>1, CutBuffer
  <2>4. SubSeq(s, 1, f - 1) = SubSeq(inBuffer, 1, f - 1)
    BY <2>1, CutBuffer
  <2>5. SubSeq(s, f + 1, Len(s)) = t
    BY <2>1, CutBuffer
  <2> QED
    BY <2>2, <2>3, <2>4, <2>5
<1>7. f \in Feeds(s) /\ \A j \in Feeds(s) : f <= j
  <2>1. /\ Len(inBuffer) \in Nat /\ Len(s) = Len(inBuffer) + Len(v) /\ Len(v) \in Nat
        /\ \A i \in 1..Len(inBuffer) : s[i] = inBuffer[i]
    <3>1. /\ Len(s) = Len(inBuffer) + Len(v)
          /\ \A i \in 1..Len(inBuffer) + Len(v) :
                s[i] = IF i <= Len(inBuffer) THEN inBuffer[i] ELSE v[i - Len(inBuffer)]
      BY <1>2, <1>3, ConcatProperties
    <3>2. Len(inBuffer) \in Nat /\ Len(v) \in Nat
      BY <1>2, <1>3
    <3> HIDE DEF s
    <3> QED
      BY <3>1, <3>2
  <2>2. DOMAIN s = 1..Len(s) /\ DOMAIN inBuffer = 1..Len(inBuffer)
    BY <1>2, <1>6
  <2> HIDE DEF s
  <2>3. f \in Feeds(s)
    BY <1>4, <2>1, <2>2 DEF Feeds
  <2>4. ASSUME NEW j \in Feeds(s)
        PROVE  f <= j
    <3>1. j \in 1..Len(s) /\ s[j] = "\n"
      BY <2>2 DEF Feeds
    <3>2. CASE j <= Len(inBuffer)
      <4>1. j \in Feeds(inBuffer)
        BY <2>1, <2>2, <3>1, <3>2 DEF Feeds
      <4> QED
        BY <1>4, <4>1
    <3>3. CASE ~(j <= Len(inBuffer))
      BY <1>4, <2>1, <3>1, <3>3
    <3> QED
      BY <3>2, <3>3
  <2> QED
    BY <2>3, <2>4
<1> HIDE DEF s, w, t
<1>8. /\ t \in Seq(C) /\ TextAt(s, f) = SubSeq(inBuffer, 1, f - 1)
      /\ AllCommands(s) = CommandAt(s, f) \o AllCommands(t)
      /\ AllCommands(t) \in Seq(Parsed)
  BY <1>6, <1>7, FirstLineFirst
<1>9. CommandAt(s, f) = IF line = << >> THEN << >> ELSE <<x>>
  BY <1>7, <1>8 DEF CommandAt
<1>10. x \in Parsed
  <2>1. f \in DOMAIN s
    BY <1>7 DEF Feeds
  <2>2. LineOf(TextAt(s, f)) \in Seq(C)
    BY <1>6, <2>1, TextIsSeq
  <2> QED
    BY <1>8, <2>2 DEF Parsed
<1> HIDE DEF line, x
<1>11. executed' \in Seq(Parsed)
  BY <1>1, <1>2, <1>10, AppendProperties
<1>12. StreamTypeOK'
  BY <1>1, <1>2, <1>6, <1>11 DEF StreamTypeOK
<1>13. Commands(t) \in Seq(Parsed)
  BY <1>8, UpToQuitIsSeq DEF Commands
<1>14. executed' \o (IF connected' THEN Commands(t) ELSE << >>) = Commands(stream)
  <2>1. CASE line = << >>
    <3>1. AllCommands(s) = AllCommands(t)
      BY <1>8, <1>9, <2>1, ConcatEmptySeq
    <3>2. Commands(s) = Commands(t)
      BY <3>1 DEF Commands
    <3> QED
      BY <1>1, <1>5, <2>1, <3>2
  <2>2. CASE line # << >>
    <3>1. AllCommands(s) = <<x>> \o AllCommands(t)
      BY <1>8, <1>9, <2>2
    <3>2. Commands(s) = IF x.command = Quit THEN <<x>> ELSE <<x>> \o Commands(t)
      BY <1>8, <1>10, <3>1, UpToQuitFirst DEF Commands
    <3>3. executed' = executed \o <<x>>
      BY <1>1, <1>2, <1>10, <2>2, AppendIsConcat
    <3>4. CASE x.command = Quit
      <4>1. ~connected'
        BY <1>1, <2>2, <3>4
      <4> QED
        BY <1>5, <1>11, <3>2, <3>3, <3>4, <4>1, ConcatEmptySeq
    <3>5. CASE x.command # Quit
      <4>1. connected'
        BY <1>1, <3>5
      <4>2. <<x>> \in Seq(Parsed)
        BY <1>10
      <4>3. (executed \o <<x>>) \o Commands(t) = executed \o (<<x>> \o Commands(t))
        BY <1>2, <1>13, <4>2, ConcatAssociative
      <4> QED
        BY <1>5, <3>2, <3>3, <3>5, <4>1, <4>3
    <3> QED
      BY <3>4, <3>5
  <2> QED
    BY <2>1, <2>2
<1>15. inBuffer' \o SubSeq(stream', received' + 1, Len(stream')) = t
  BY <1>1 DEF t, v
<1>16. ChunksDoNotMatter'
  <2>1. executed' \o (IF connected' THEN Commands(inBuffer' \o SubSeq(stream', received' + 1, Len(stream')))
                      ELSE << >>) = Commands(stream')
    BY <1>1, <1>14, <1>15
  <2> QED
    BY <2>1 DEF ChunksDoNotMatter
<1> QED
  BY <1>12, <1>16 DEF IInv

\* Every step keeps the invariant.
LEMMA StreamNext == IInv /\ [Next]_vars => IInv'
<1> SUFFICES ASSUME IInv, [Next]_vars PROVE IInv'
  OBVIOUS
<1>1. CASE HandleClientRead
  BY <1>1, ReadKeepsStream
<1>2. CASE ExtractCommand
  BY <1>2, ExtractKeepsStream
<1>3. CASE UNCHANGED vars
  BY <1>3 DEF vars, IInv, StreamTypeOK, ChunksDoNotMatter
<1> QED
  BY <1>1, <1>2, <1>3 DEF Next

\* Wherever TCP cuts the stream and however handleClientRead and
\* extractCommands alternate, the commands executed and those still to come
\* are at every moment those of the stream.
THEOREM CutsDoNotMatter == Spec => []ChunksDoNotMatter
<1>1. Init => IInv
  BY StreamInit
<1>2. IInv /\ [Next]_vars => IInv'
  BY StreamNext
<1>3. IInv => ChunksDoNotMatter
  BY DEF IInv
<1> QED
  BY <1>1, <1>2, <1>3, PTL DEF Spec

-----------------------------------------------------------------------------
(* What the parser finds *)

\* skipSpaces stops at the first character that is no space, or at the end.
LEMMA SkipSpacesStops ==
    ASSUME NEW T, NEW line \in Seq(T), NEW pos \in 1..Len(line)+1
    PROVE  /\ SkipSpaces(line, pos) \in pos..Len(line)+1
           /\ SkipSpaces(line, pos) <= Len(line) => line[SkipSpaces(line, pos)] # Space
           /\ \A k \in pos..SkipSpaces(line, pos)-1 : line[k] = Space
<1> DEFINE L == Len(line)
           Q == {q \in pos..L : line[q] # Space} \cup {L + 1}
           m == Min(Q)
<1>1. L \in Nat /\ pos \in 1..L+1 /\ m = SkipSpaces(line, pos)
  BY DEF SkipSpaces
<1> HIDE DEF L
<1>2. Q \in SUBSET (pos..L+1) /\ Q \in SUBSET Nat /\ Q # {}
  BY <1>1
<1>3. m \in Q /\ \A x \in Q : m <= x
  <2> HIDE DEF Q
  <2> QED
    BY <1>2, MinIsLeast
<1> HIDE DEF m
<1>4. ASSUME NEW k \in pos..m-1
      PROVE  line[k] = Space
  <2>1. k \notin Q
    <3>1. ~(m <= k)
      BY <1>1, <1>2, <1>3
    <3> QED
      BY <1>3, <3>1
  <2>2. k \in pos..L
    BY <1>1, <1>2, <1>3
  <2> QED
    BY <2>1, <2>2
<1>5. m \in pos..L+1 /\ (m <= L => line[m] # Space)
  BY <1>1, <1>2, <1>3
<1> QED
  BY <1>1, <1>4, <1>5 DEF L

\* A word ends at the next space, or at the end.
LEMMA EndOfWordStops ==
    ASSUME NEW T, NEW line \in Seq(T), NEW pos \in 1..Len(line)+1
    PROVE  /\ EndOfWord(line, pos) \in pos..Len(line)+1
           /\ EndOfWord(line, pos) <= Len(line) => line[EndOfWord(line, pos)] = Space
           /\ \A k \in pos..EndOfWord(line, pos)-1 : line[k] # Space
           /\ pos <= Len(line) /\ line[pos] # Space => pos < EndOfWord(line, pos)
<1> DEFINE L == Len(line)
           Q == {q \in pos..L : line[q] = Space} \cup {L + 1}
           m == Min(Q)
<1>1. L \in Nat /\ pos \in 1..L+1 /\ m = EndOfWord(line, pos)
  BY DEF EndOfWord
<1> HIDE DEF L
<1>2. Q \in SUBSET (pos..L+1) /\ Q \in SUBSET Nat /\ Q # {}
  BY <1>1
<1>3. m \in Q /\ \A x \in Q : m <= x
  <2> HIDE DEF Q
  <2> QED
    BY <1>2, MinIsLeast
<1> HIDE DEF m
<1>4. ASSUME NEW k \in pos..m-1
      PROVE  line[k] # Space
  <2>1. k \notin Q
    <3>1. ~(m <= k)
      BY <1>1, <1>2, <1>3
    <3> QED
      BY <1>3, <3>1
  <2>2. k \in pos..L
    BY <1>1, <1>2, <1>3
  <2> QED
    BY <2>1, <2>2
<1>5. m \in pos..L+1 /\ (m <= L => line[m] = Space)
  BY <1>1, <1>2, <1>3
<1>6. ASSUME pos <= L, line[pos] # Space
      PROVE  pos < m
  <2>1. m # pos
    BY <1>1, <1>5, <1>6
  <2> QED
    BY <1>1, <1>5, <2>1
<1> QED
  BY <1>1, <1>4, <1>5, <1>6 DEF L

\* One turn of the loop of parseParams, when f gives the parameters from
\* later positions on.
ParamsFrom(line, f, pos) ==
    LET p == SkipSpaces(line, pos)
        q == EndOfWord(line, p)
    IN  IF p > Len(line) THEN << >>
        ELSE IF line[p] = ":" THEN <<SubSeq(line, p + 1, Len(line))>>
        ELSE <<SubSeq(line, p, q - 1)>> \o f[q]

\* The loop of parseParams goes forward: what is found from a position on
\* depends on later positions only.
LEMMA ParamsGoForward ==
    ASSUME NEW T, NEW line \in Seq(T), NEW pos \in 1..Len(line)+1, NEW f, NEW g,
           \A q \in pos+1..Len(line)+1 : f[q] = g[q]
    PROVE  ParamsFrom(line, f, pos) = ParamsFrom(line, g, pos)
<1> DEFINE L == Len(line)
           p == SkipSpaces(line, pos)
           q == EndOfWord(line, p)
<1>1. L \in Nat /\ p \in pos..L+1 /\ (p <= L => line[p] # Space)
  BY SkipSpacesStops
<1>2. p \in 1..L+1
  BY <1>1
<1> HIDE DEF p
<1>3. q \in p..L+1 /\ (p <= L /\ line[p] # Space => p < q)
  BY <1>2, EndOfWordStops
<1> HIDE DEF q
<1>4. ~(p > L) => q \in pos+1..L+1
  BY <1>1, <1>3
<1> QED
  BY <1>4 DEF ParamsFrom, p, q

\* The equation of the function that Params defines has a solution.
LEMMA ParamsHasFunction ==
    ASSUME NEW T, NEW line \in Seq(T)
    PROVE  \E f : f = [pos \in 1..Len(line)+1 |-> ParamsFrom(line, f, pos)]
<1> DEFINE L == Len(line)
           Solved(d) == \E f : f = [pos \in L+1-d..L+1 |-> ParamsFrom(line, f, pos)]
           unsolved == {d \in 0..L : ~Solved(d)}
<1>1. L \in Nat
  OBVIOUS
<1>2. Solved(0)
  <2> DEFINE f == [pos \in L+1..L+1 |-> << >>]
  <2>1. ASSUME NEW pos \in L+1..L+1
        PROVE  ParamsFrom(line, f, pos) = << >>
    <3>1. pos \in 1..L+1 /\ pos = L + 1
      BY <1>1
    <3>2. SkipSpaces(line, pos) \in pos..L+1
      BY <3>1, SkipSpacesStops
    <3>3. SkipSpaces(line, pos) > L
      BY <1>1, <3>1, <3>2
    <3> QED
      BY <3>3 DEF ParamsFrom
  <2>2. f = [pos \in L+1..L+1 |-> ParamsFrom(line, f, pos)]
    BY <2>1
  <2>3. L+1-0 = L+1
    BY <1>1
  <2> QED
    BY <2>2, <2>3
<1>3. ASSUME NEW d \in 0..L, d # L, Solved(d)
      PROVE  Solved(d + 1)
  <2> DEFINE a == L + 1 - d
             b == L + 1 - (d + 1)
  <2>1. PICK f : f = [pos \in a..L+1 |-> ParamsFrom(line, f, pos)]
    BY <1>3
  <2>2. a \in 2..L+1 /\ b \in 1..L /\ b + 1 = a
    BY <1>1, <1>3
  <2> HIDE DEF a, b
  <2> DEFINE g == [pos \in b..L+1 |-> IF pos = b THEN ParamsFrom(line, f, pos) ELSE f[pos]]
  <2>3. \A q \in a..L+1 : g[q] = f[q]
    BY <1>1, <2>2
  <2>4. ASSUME NEW pos \in b..L+1
        PROVE  g[pos] = ParamsFrom(line, g, pos)
    <3>1. pos \in 1..L+1
      BY <1>1, <2>2
    <3>2. \A q \in pos+1..L+1 : f[q] = g[q]
      BY <1>1, <2>2, <2>3
    <3> HIDE DEF g
    <3>3. ParamsFrom(line, f, pos) = ParamsFrom(line, g, pos)
      BY <3>1, <3>2, ParamsGoForward
    <3>4. CASE pos = b
      BY <3>3, <3>4 DEF g
    <3>5. CASE pos # b
      <4>1. pos \in a..L+1
        BY <1>1, <2>2, <3>5
      <4>2. f[pos] = ParamsFrom(line, f, pos)
        BY <2>1, <4>1
      <4> QED
        BY <2>3, <3>3, <4>1, <4>2
    <3> QED
      BY <3>4, <3>5
  <2>5. g = [pos \in b..L+1 |-> ParamsFrom(line, g, pos)]
    BY <2>4
  <2> HIDE DEF g
  <2>6. \E h : h = [pos \in b..L+1 |-> ParamsFrom(line, h, pos)]
    BY <2>5
  <2> QED
    BY <2>6 DEF b
<1>4. unsolved = {}
  <2>1. SUFFICES ASSUME unsolved # {} PROVE FALSE
    OBVIOUS
  <2> DEFINE d == Min(unsolved)
  <2> HIDE DEF Solved
  <2>2. unsolved \in SUBSET Nat
    BY <1>1
  <2>3. d \in unsolved /\ \A x \in unsolved : d <= x
    <3> HIDE DEF unsolved
    <3> QED
      BY <2>1, <2>2, MinIsLeast
  <2> HIDE DEF d
  <2>4. d \in 0..L /\ ~Solved(d)
    BY <2>3
  <2>5. d - 1 \in 0..L /\ d - 1 # L /\ (d - 1) + 1 = d /\ ~(d <= d - 1)
    BY <1>1, <1>2, <2>4
  <2>6. Solved(d - 1)
    BY <2>3, <2>5
  <2>7. Solved((d - 1) + 1)
    BY <1>3, <2>5, <2>6
  <2> QED
    BY <2>4, <2>5, <2>7
<1>5. Solved(L)
  BY <1>1, <1>4
<1>6. L + 1 - L = 1
  BY <1>1
<1> QED
  BY <1>5, <1>6

\* parseParams from each position on.
LEMMA ParamsSteps ==
    ASSUME NEW T, NEW line \in Seq(T), NEW pos \in 1..Len(line)+1
    PROVE  LET p == SkipSpaces(line, pos)
           IN  Params(line, pos) =
                  IF p > Len(line) THEN << >>
                  ELSE IF line[p] = ":" THEN <<SubSeq(line, p + 1, Len(line))>>
                  ELSE <<SubSeq(line, p, EndOfWord(line, p) - 1)>> \o Params(line, EndOfWord(line, p))
<1> DEFINE L == Len(line)
           f0 == CHOOSE f : f = [x \in 1..L+1 |-> ParamsFrom(line, f, x)]
           p == SkipSpaces(line, pos)
           q == EndOfWord(line, p)
<1>1. f0 = [x \in 1..L+1 |-> ParamsFrom(line, f0, x)]
  <2>1. \E f : f = [x \in 1..L+1 |-> ParamsFrom(line, f, x)]
    BY ParamsHasFunction
  <2> QED
    BY <2>1
<1>2. \A x : Params(line, x) = f0[x]
  BY DEF Params, ParamsFrom
<1> HIDE DEF f0
<1>3. L \in Nat /\ p \in pos..L+1 /\ p \in 1..L+1
  BY SkipSpacesStops
<1>4. f0[pos] = ParamsFrom(line, f0, pos)
  BY <1>1
<1>5. Params(line, pos) = ParamsFrom(line, f0, pos) /\ Params(line, q) = f0[q]
  BY <1>2, <1>4
<1> QED
  BY <1>5 DEF ParamsFrom

\* The parameters from each position on are words, but for the last.
LEMMA ParamsType ==
    ASSUME NEW T, NEW line \in Seq(T), NEW from \in 1..Len(line)+1
    PROVE  Params(line, from) \in Seq(Seq(T)) /\ OnlyWords(Params(line, from))
<1> DEFINE L == Len(line)
           Good(pos) == Params(line, pos) \in Seq(Seq(T)) /\ OnlyWords(Params(line, pos))
           bad == {d \in 0..L : ~Good(L+1-d)}
<1>1. L \in Nat
  OBVIOUS
<1>2. ASSUME NEW pos \in 1..L+1, \A q \in pos+1..L+1 : Good(q)
      PROVE  Good(pos)
  <2> DEFINE p == SkipSpaces(line, pos)
             q == EndOfWord(line, p)
             w == SubSeq(line, p, q - 1)
             r == Params(line, q)
             last == SubSeq(line, p + 1, L)
  <2>1. p \in pos..L+1 /\ (p <= L => line[p] # Space)
    BY SkipSpacesStops
  <2>2. p \in 1..L+1
    BY <1>1, <2>1
  <2> HIDE DEF p
  <2>3. q \in p..L+1 /\ (\A k \in p..q-1 : line[k] # Space) /\ (p <= L /\ line[p] # Space => p < q)
    BY <2>2, EndOfWordStops
  <2> HIDE DEF q
  <2>4. Params(line, pos) = IF p > L THEN << >>
                            ELSE IF line[p] = ":" THEN <<last>>
                            ELSE <<w>> \o r
    BY ParamsSteps DEF p, q
  <2>5. CASE p > L
    <3>1. Params(line, pos) = << >>
      BY <2>4, <2>5
    <3>2. << >> \in Seq(Seq(T)) /\ DOMAIN << >> = {}
      BY EmptySeq
    <3> QED
      BY <3>1, <3>2 DEF OnlyWords
  <2>6. CASE ~(p > L) /\ line[p] = ":"
    <3>1. p + 1 \in 1..L+1 /\ L \in (p+1)-1..L
      BY <1>1, <2>2, <2>6
    <3>2. last \in Seq(T)
      BY <3>1, PartIs
    <3> HIDE DEF last
    <3>3. Params(line, pos) = <<last>>
      BY <2>4, <2>6
    <3>4. <<last>> \in Seq(Seq(T)) /\ DOMAIN <<last>> = 1..1 /\ Len(<<last>>) = 1
      BY <3>2
    <3>5. OnlyWords(<<last>>)
      BY <3>4 DEF OnlyWords
    <3> QED
      BY <3>3, <3>4, <3>5
  <2>7. CASE ~(p > L) /\ line[p] # ":"
    <3>1. p <= L /\ line[p] # Space /\ p < q /\ q \in pos+1..L+1
      BY <1>1, <2>1, <2>2, <2>3, <2>7
    <3>2. r \in Seq(Seq(T)) /\ OnlyWords(r)
      BY <1>2, <3>1
    <3>3. q - 1 \in p-1..L
      BY <1>1, <2>2, <2>3
    <3>4. w \in Seq(T) /\ Len(w) = (q-1)-p+1 /\ \A k \in 1..(q-1)-p+1 : w[k] = line[p+k-1]
      BY <2>2, <3>3, PartIs
    <3> HIDE DEF w, r
    <3>5. /\ (q-1)-p+1 = q - p /\ q - p \in Nat \ {0} /\ p+1-1 = p
          /\ \A k \in 1..q-p : p+k-1 \in p..q-1
      BY <1>1, <2>2, <2>3, <3>1
    <3>6. w # << >> /\ Head(w) = w[1] /\ w[1] = line[p]
      <4>1. Len(w) # 0 /\ 1 \in 1..q-p
        BY <3>4, <3>5
      <4> QED
        BY <3>4, <3>5, <4>1, EmptySeq, HeadTailProperties
    <3>7. Space \notin Range(w)
      <4>1. DOMAIN w = 1..q-p
        BY <3>4, <3>5
      <4>2. \A k \in DOMAIN w : w[k] # Space
        BY <2>3, <3>4, <3>5, <4>1
      <4> QED
        BY <4>2 DEF Range
    <3> DEFINE ps == <<w>> \o r
    <3>8. /\ ps \in Seq(Seq(T)) /\ Len(ps) = Len(r) + 1 /\ DOMAIN ps = 1..Len(r)+1
          /\ ps[1] = w /\ \A k \in 1..Len(r) : ps[k+1] = r[k]
      BY <3>2, <3>4, InFront
    <3> HIDE DEF ps
    <3>9. ASSUME NEW j \in 1..Len(r)+1
          PROVE  j = Len(ps) \/ IsWord(ps[j])
      <4>1. CASE j = 1
        BY <2>7, <3>6, <3>7, <3>8, <4>1 DEF IsWord
      <4>2. CASE j # 1
        <5>1. Len(r) \in Nat /\ DOMAIN r = 1..Len(r)
          BY <3>2
        <5>2. j - 1 \in 1..Len(r) /\ (j - 1) + 1 = j
          BY <4>2, <5>1
        <5>3. ps[j] = r[j - 1]
          BY <3>8, <5>2
        <5>4. j - 1 = Len(r) \/ IsWord(r[j-1])
          BY <3>2, <5>1, <5>2 DEF OnlyWords
        <5> QED
          BY <3>8, <5>2, <5>3, <5>4
      <4> QED
        BY <4>1, <4>2
    <3>10. OnlyWords(ps)
      BY <3>8, <3>9 DEF OnlyWords
    <3> QED
      BY <2>4, <2>7, <3>8, <3>10 DEF ps
  <2> QED
    BY <2>5, <2>6, <2>7
<1>3. bad = {}
  <2>1. SUFFICES ASSUME bad # {} PROVE FALSE
    OBVIOUS
  <2> DEFINE d == Min(bad)
  <2> HIDE DEF Good
  <2>2. bad \in SUBSET Nat
    BY <1>1
  <2>3. d \in bad /\ \A x \in bad : d <= x
    <3> HIDE DEF bad
    <3> QED
      BY <2>1, <2>2, MinIsLeast
  <2> HIDE DEF d
  <2>4. d \in 0..L /\ ~Good(L+1-d) /\ L+1-d \in 1..L+1
    BY <1>1, <2>3
  <2>5. ASSUME NEW q \in (L+1-d)+1..L+1
        PROVE  Good(q)
    <3>1. L+1-q \in 0..L /\ ~(d <= L+1-q) /\ L+1-(L+1-q) = q
      BY <1>1, <2>4
    <3>2. L+1-q \notin bad
      BY <2>3, <3>1
    <3>3. Good(L+1-(L+1-q))
      BY <3>1, <3>2
    <3> QED
      BY <3>1, <3>3
  <2> QED
    BY <1>2, <2>4, <2>5
<1>4. L+1-from \in 0..L /\ L+1-(L+1-from) = from
  BY <1>1
<1>5. Good(L+1-(L+1-from))
  <2> HIDE DEF Good
  <2> QED
    BY <1>3, <1>4
<1> QED
  BY <1>4, <1>5

\* What parse makes of a line.
Readable(c) ==
    /\ c = [prefix |-> c.prefix, command |-> c.command, params |-> c.params]
    /\ c.prefix \in Seq(DOMAIN Upper) /\ \A k \in 1..Len(c.prefix) : c.prefix[k] # Space
    /\ c.command \in Seq(DOMAIN Upper)
    /\ \A k \in 1..Len(c.command) : c.command[k] # Space /\ Upper[c.command[k]] = c.command[k]
    /\ c.params \in Seq(Seq(DOMAIN Upper)) /\ OnlyWords(c.params)
    /\ c.command = << >> => c.params = << >>

\* Past the end there are no parameters.
LEMMA ParamsAtEnd ==
    ASSUME NEW T, NEW line \in Seq(T)
    PROVE  Params(line, Len(line) + 1) = << >>
<1> DEFINE e == Len(line) + 1
           p == SkipSpaces(line, e)
<1>1. Len(line) \in Nat /\ e \in 1..Len(line)+1
  OBVIOUS
<1>2. p \in e..Len(line)+1
  BY <1>1, SkipSpacesStops
<1>3. Params(line, e) = IF p > Len(line) THEN << >>
                        ELSE IF line[p] = ":" THEN <<SubSeq(line, p + 1, Len(line))>>
                        ELSE <<SubSeq(line, p, EndOfWord(line, p) - 1)>> \o Params(line, EndOfWord(line, p))
  BY <1>1, ParamsSteps
<1> HIDE DEF p
<1>4. p > Len(line)
  BY <1>1, <1>2
<1> QED
  BY <1>3, <1>4

\* Every line gives a command of this kind.
LEMMA ParseIsReadable ==
    ASSUME NEW line \in Seq(DOMAIN Upper)
    PROVE  Readable(Parse(line))
<1> DEFINE C == DOMAIN Upper
           L == Len(line)
           start == SkipSpaces(line, 1)
           prefixed == start <= L /\ line[start] = ":"
           prefixEnd == IF prefixed THEN EndOfWord(line, start) ELSE start
           word == SkipSpaces(line, prefixEnd)
           wordEnd == EndOfWord(line, word)
           next == SkipSpaces(line, wordEnd)
           prefix == IF prefixed THEN SubSeq(line, start + 1, prefixEnd - 1) ELSE << >>
           command == [i \in 1..wordEnd - word |-> Upper[line[word + i - 1]]]
           params == Params(line, next)
           full  == [prefix |-> prefix, command |-> command, params |-> params]
           none  == [prefix |-> << >>, command |-> << >>, params |-> << >>]
<1>1. Parse(line) = IF start > L THEN none ELSE full
  BY DEF Parse
<1>2. L \in Nat /\ 1 \in 1..L+1 /\ \A i \in 1..L : line[i] \in C
  BY ElementOfSeq
<1>3. << >> \in Seq(C) /\ << >> \in Seq(Seq(C)) /\ Len(<< >>) = 0 /\ DOMAIN << >> = {}
  BY EmptySeq
<1>4. Readable(none)
  BY <1>3 DEF Readable, OnlyWords
<1>5. start \in 1..L+1
  BY <1>2, SkipSpacesStops
<1> HIDE DEF start
<1>6. EndOfWord(line, start) \in start..L+1 /\ \A k \in start..EndOfWord(line, start)-1 : line[k] # Space
  BY <1>5, EndOfWordStops
<1>7. prefixEnd \in start..L+1 /\ prefixEnd \in 1..L+1
  BY <1>2, <1>5, <1>6
<1>8. prefix \in Seq(C) /\ \A k \in 1..Len(prefix) : prefix[k] # Space
  <2>1. CASE ~prefixed
    <3>1. prefix = << >>
      BY <2>1
    <3> HIDE DEF prefix
    <3> QED
      BY <1>3, <3>1
  <2>2. CASE prefixed
    <3> DEFINE e == EndOfWord(line, start)
               c == SubSeq(line, start + 1, e - 1)
    <3>1. prefix = c
      BY <2>2
    <3>2. start \in Nat /\ start <= L /\ line[start] = ":"
      BY <1>2, <1>5, <2>2
    <3>3. start < e
      <4>1. ":" # Space
        BY Zenon DEF Space
      <4>2. line[start] # Space
        BY <3>2, <4>1
      <4> QED
        BY <1>5, <3>2, <4>2, EndOfWordStops
    <3> HIDE DEF prefix, e
    <3>4. e \in start..L+1 /\ \A k \in start..e-1 : line[k] # Space
      BY <1>6 DEF e
    <3>5. start + 1 \in 1..L+1 /\ e - 1 \in (start+1)-1..L
      BY <1>2, <3>2, <3>3, <3>4
    <3>6. /\ c \in Seq(C) /\ Len(c) = (e-1)-(start+1)+1
          /\ \A k \in 1..(e-1)-(start+1)+1 : c[k] = line[(start+1)+k-1]
      BY <3>5, PartIs
    <3> HIDE DEF c
    <3>7. \A k \in 1..(e-1)-(start+1)+1 : (start+1)+k-1 \in start..e-1
      BY <1>2, <3>2, <3>3, <3>4
    <3> QED
      BY <3>1, <3>4, <3>6, <3>7
  <2> QED
    BY <2>1, <2>2
<1> HIDE DEF prefixEnd, prefix, prefixed
<1>9. word \in prefixEnd..L+1 /\ (word <= L => line[word] # Space)
  BY <1>7, SkipSpacesStops
<1>10. word \in 1..L+1
  BY <1>2, <1>7, <1>9
<1> HIDE DEF word
<1>11. /\ wordEnd \in word..L+1 /\ \A k \in word..wordEnd-1 : line[k] # Space
       /\ word <= L /\ line[word] # Space => word < wordEnd
  BY <1>10, EndOfWordStops
<1>12. wordEnd \in 1..L+1
  BY <1>2, <1>10, <1>11
<1> HIDE DEF wordEnd
<1>13. ASSUME NEW i \in 1..wordEnd-word
       PROVE  word + i - 1 \in 1..L /\ word + i - 1 \in word..wordEnd-1
  BY <1>2, <1>10, <1>11, <1>12
<1>14. \A i \in 1..wordEnd-word : Upper[line[word + i - 1]] \in C
  BY <1>2, <1>13, UpperAssumption
<1>15. command \in Seq(C) /\ Len(command) = wordEnd - word
  <2>1. command \in [1..wordEnd-word -> C]
    BY <1>14
  <2>2. wordEnd - word \in Nat
    BY <1>2, <1>10, <1>11
  <2> HIDE DEF command, C
  <2> QED
    BY <2>1, <2>2, FunctionIsSeq
<1>16. ASSUME NEW k \in 1..wordEnd-word
       PROVE  command[k] # Space /\ Upper[command[k]] = command[k]
  <2> DEFINE x == line[word + k - 1]
  <2>1. x \in C /\ x # Space /\ command[k] = Upper[x]
    BY <1>2, <1>11, <1>13
  <2> HIDE DEF x, command
  <2>2. Upper[Upper[x]] = Upper[x] /\ (Upper[x] = Space => x = Space)
    BY <2>1, UpperAssumption
  <2> QED
    BY <2>1, <2>2
<1>17. next \in wordEnd..L+1
  BY <1>12, SkipSpacesStops
<1>18. next \in 1..L+1
  BY <1>2, <1>12, <1>17
<1> HIDE DEF next
<1>19. params \in Seq(Seq(C)) /\ OnlyWords(params)
  BY <1>18, ParamsType
<1>20. command = << >> => params = << >>
  <2>1. SUFFICES ASSUME command = << >> PROVE params = << >>
    OBVIOUS
  <2>2. wordEnd = word
    <3>1. Len(command) = 0
      BY <1>3, <2>1
    <3> HIDE DEF command
    <3> QED
      BY <1>2, <1>10, <1>12, <1>15, <3>1
  <2>3. word = L + 1
    BY <1>2, <1>9, <1>10, <1>11, <2>2
  <2>4. next = L + 1
    BY <1>2, <1>17, <1>18, <2>2, <2>3
  <2> QED
    BY <2>4, ParamsAtEnd
<1> HIDE DEF command, params
<1>21. Readable(full)
  <2>1. \A k \in 1..Len(command) : command[k] # Space /\ Upper[command[k]] = command[k]
    BY <1>15, <1>16
  <2>2. full.prefix = prefix /\ full.command = command /\ full.params = params
    OBVIOUS
  <2>3. full = [prefix |-> full.prefix, command |-> full.command, params |-> full.params]
    BY <2>2
  <2> HIDE DEF full
  <2> QED
    BY <1>8, <1>15, <1>19, <1>20, <2>1, <2>2, <2>3 DEF Readable
<1> QED
  BY <1>1, <1>4, <1>21

-----------------------------------------------------------------------------
(* What is written is read back *)

\* SkipSpaces is the position before which there are only spaces, if something
\* else or the end is there.
LEMMA SkipSpacesIs ==
    ASSUME NEW T, NEW line \in Seq(T), NEW pos \in 1..Len(line)+1, NEW m \in pos..Len(line)+1,
           m <= Len(line) => line[m] # Space, \A k \in pos..m-1 : line[k] = Space
    PROVE  SkipSpaces(line, pos) = m
<1> DEFINE p == SkipSpaces(line, pos)
<1>1. /\ p \in pos..Len(line)+1 /\ (p <= Len(line) => line[p] # Space)
      /\ \A k \in pos..p-1 : line[k] = Space
  BY SkipSpacesStops
<1> HIDE DEF p
<1>2. Len(line) \in Nat
  OBVIOUS
<1>3. CASE p < m
  <2>1. p \in pos..m-1 /\ p <= Len(line)
    BY <1>1, <1>2, <1>3
  <2> QED
    BY <1>1, <2>1
<1>4. CASE m < p
  <2>1. m \in pos..p-1 /\ m <= Len(line)
    BY <1>1, <1>2, <1>4
  <2> QED
    BY <1>1, <2>1
<1>5. p = m \/ p < m \/ m < p
  BY <1>1, <1>2
<1> QED
  BY <1>3, <1>4, <1>5 DEF p

\* EndOfWord is the position before which there is no space, if a space or the
\* end is there.
LEMMA EndOfWordIs ==
    ASSUME NEW T, NEW line \in Seq(T), NEW pos \in 1..Len(line)+1, NEW m \in pos..Len(line)+1,
           m <= Len(line) => line[m] = Space, \A k \in pos..m-1 : line[k] # Space
    PROVE  EndOfWord(line, pos) = m
<1> DEFINE p == EndOfWord(line, pos)
<1>1. /\ p \in pos..Len(line)+1 /\ (p <= Len(line) => line[p] = Space)
      /\ \A k \in pos..p-1 : line[k] # Space
  BY EndOfWordStops
<1> HIDE DEF p
<1>2. Len(line) \in Nat
  OBVIOUS
<1>3. CASE p < m
  <2>1. p \in pos..m-1 /\ p <= Len(line)
    BY <1>1, <1>2, <1>3
  <2> QED
    BY <1>1, <2>1
<1>4. CASE m < p
  <2>1. m \in pos..p-1 /\ m <= Len(line)
    BY <1>1, <1>2, <1>4
  <2> QED
    BY <1>1, <2>1
<1>5. p = m \/ p < m \/ m < p
  BY <1>1, <1>2
<1> QED
  BY <1>3, <1>4, <1>5 DEF p

\* Spaces may be skipped first.
LEMMA ParamsAfterSpaces ==
    ASSUME NEW T, NEW line \in Seq(T), NEW pos \in 1..Len(line)+1
    PROVE  Params(line, SkipSpaces(line, pos)) = Params(line, pos)
<1> DEFINE p == SkipSpaces(line, pos)
           t == SkipSpaces(line, p)
<1>1. Len(line) \in Nat /\ p \in pos..Len(line)+1 /\ (p <= Len(line) => line[p] # Space)
  BY SkipSpacesStops
<1>2. p \in 1..Len(line)+1 /\ p \in p..Len(line)+1 /\ \A k \in p..p-1 : line[k] = Space
  BY <1>1
<1>3. Params(line, pos) = IF p > Len(line) THEN << >>
                          ELSE IF line[p] = ":" THEN <<SubSeq(line, p + 1, Len(line))>>
                          ELSE <<SubSeq(line, p, EndOfWord(line, p) - 1)>> \o Params(line, EndOfWord(line, p))
  BY ParamsSteps
<1> HIDE DEF p
<1>4. t = p
  BY <1>1, <1>2, SkipSpacesIs
<1>5. Params(line, p) = IF t > Len(line) THEN << >>
                        ELSE IF line[t] = ":" THEN <<SubSeq(line, t + 1, Len(line))>>
                        ELSE <<SubSeq(line, t, EndOfWord(line, t) - 1)>> \o Params(line, EndOfWord(line, t))
  BY <1>2, ParamsSteps
<1> HIDE DEF t
<1>6. Params(line, p) = Params(line, pos)
  BY <1>3, <1>4, <1>5
<1> QED
  BY <1>6 DEF p

\* The last parameter, and another one, as a line has them.
WrittenLast(x) == <<Space, ":">> \o x

WrittenWord(x) == <<Space>> \o x

\* The parameter x, when r comes after it.
WrittenBefore(x, r) == IF r = << >> THEN WrittenLast(x) ELSE WrittenWord(x)

\* Parameters are written one by one.
LEMMA WrittenIs ==
    ASSUME NEW T, Space \in T, ":" \in T, NEW x \in Seq(T), NEW r \in Seq(Seq(T))
    PROVE  /\ Written(<< >>) = << >>
           /\ Written(r) \in Seq(T)
           /\ WrittenLast(x) \in Seq(T) /\ WrittenWord(x) \in Seq(T)
           /\ Written(<<x>> \o r) = WrittenBefore(x, r) \o Written(r)
<1> DEFINE One(y, b) == IF b THEN WrittenLast(y) ELSE WrittenWord(y)
           M(q) == [i \in DOMAIN q |-> One(q[i], i = Len(q))]
<1>1. \A q : Written(q) = FlattenSeq(M(q))
  <2>1. ASSUME NEW q
        PROVE  \A i \in DOMAIN q :
                  (IF i = Len(q) THEN <<Space, ":">> ELSE <<Space>>) \o q[i] = One(q[i], i = Len(q))
    BY DEF WrittenLast, WrittenWord
  <2>2. ASSUME NEW q
        PROVE  [i \in DOMAIN q |-> (IF i = Len(q) THEN <<Space, ":">> ELSE <<Space>>) \o q[i]] = M(q)
    <3> HIDE DEF One
    <3> QED
      BY <2>1
  <2> HIDE DEF M
  <2> QED
    BY <2>2 DEF Written
<1>2. ASSUME NEW y \in Seq(T)
      PROVE  WrittenLast(y) \in Seq(T) /\ WrittenWord(y) \in Seq(T)
  <2>1. <<Space, ":">> \in Seq(T) /\ <<Space>> \in Seq(T)
    OBVIOUS
  <2> QED
    BY <2>1, ConcatProperties DEF WrittenLast, WrittenWord
<1>3. Written(<< >>) = << >>
  <2>1. M(<< >>) = << >>
    OBVIOUS
  <2>2. << >> \in Seq(Seq(T)) /\ << >> \in Seq(T)
    BY EmptySeq
  <2> HIDE DEF M
  <2> QED
    BY <1>1, <2>1, <2>2, FlattenAppend
<1>4. ASSUME NEW q \in Seq(Seq(T))
      PROVE  M(q) \in Seq(Seq(T)) /\ Len(M(q)) = Len(q) /\ Written(q) \in Seq(T)
  <2>1. Len(q) \in Nat /\ DOMAIN q = 1..Len(q) /\ \A i \in DOMAIN q : q[i] \in Seq(T)
    BY ElementOfSeq
  <2>2. M(q) \in [1..Len(q) -> Seq(T)]
    BY <1>2, <2>1
  <2> HIDE DEF M
  <2>3. M(q) \in Seq(Seq(T)) /\ Len(M(q)) = Len(q)
    BY <2>1, <2>2, FunctionIsSeq
  <2>4. << >> \in Seq(T)
    BY EmptySeq
  <2> QED
    BY <1>1, <2>3, <2>4, FlattenAppend
<1>5. Written(<<x>> \o r) = WrittenBefore(x, r) \o Written(r)
  <2> DEFINE ps == <<x>> \o r
             w == IF r = << >> THEN WrittenLast(x) ELSE WrittenWord(x)
             c == <<w>> \o M(r)
             n == Len(r)
  <2>1. /\ ps \in Seq(Seq(T)) /\ Len(ps) = n + 1 /\ DOMAIN ps = 1..n+1
        /\ ps[1] = x /\ \A k \in 1..n : ps[k+1] = r[k]
    BY InFront
  <2> HIDE DEF ps
  <2>2. w \in Seq(T) /\ M(r) \in Seq(Seq(T)) /\ Len(M(r)) = n
    BY <1>2, <1>4
  <2>3. n \in Nat /\ DOMAIN r = 1..n /\ (r = << >> <=> n = 0)
    BY EmptySeq
  <2>4. M(ps) \in Seq(Seq(T)) /\ Len(M(ps)) = n + 1
    BY <1>4, <2>1
  <2>5. /\ c \in Seq(Seq(T)) /\ Len(c) = n + 1
        /\ c[1] = w /\ \A k \in 1..n : c[k+1] = M(r)[k]
    <3> HIDE DEF M, w
    <3> QED
      BY <2>2, InFront
  <2> HIDE DEF c
  <2>6. ASSUME NEW k \in 1..n+1
        PROVE  M(ps)[k] = c[k]
    <3>1. M(ps)[k] = IF k = n + 1 THEN WrittenLast(ps[k]) ELSE WrittenWord(ps[k])
      BY <2>1
    <3>2. CASE k = 1
      <4>1. (k = n + 1) <=> (r = << >>)
        BY <2>3, <3>2
      <4> HIDE DEF M
      <4> QED
        BY <2>1, <2>5, <3>1, <3>2, <4>1
    <3>3. CASE k # 1
      <4>1. k - 1 \in 1..n /\ (k - 1) + 1 = k /\ (k = n + 1 <=> k - 1 = n)
        BY <2>3, <3>3
      <4>2. c[k] = M(r)[k - 1] /\ ps[k] = r[k - 1]
        BY <2>1, <2>5, <4>1
      <4>3. M(r)[k - 1] = IF k - 1 = n THEN WrittenLast(r[k - 1]) ELSE WrittenWord(r[k - 1])
        BY <2>3, <4>1
      <4> HIDE DEF M
      <4> QED
        BY <3>1, <4>1, <4>2, <4>3
    <3> QED
      BY <3>2, <3>3
  <2> HIDE DEF M, w
  <2>7. M(ps) = c
    BY <2>4, <2>5, <2>6, SeqEqual
  <2>8. <<w>> \in Seq(Seq(T)) /\ FlattenSeq(<<w>>) = w
    BY <2>2, FlattenOne
  <2>9. FlattenSeq(c) = FlattenSeq(<<w>>) \o FlattenSeq(M(r))
    BY <2>2, <2>8, FlattenConcat DEF c
  <2> QED
    BY <1>1, <2>7, <2>8, <2>9 DEF ps, w, WrittenBefore
<1>6. Written(r) \in Seq(T) /\ WrittenLast(x) \in Seq(T) /\ WrittenWord(x) \in Seq(T)
  BY <1>2, <1>4
<1> QED
  BY <1>3, <1>5, <1>6

\* The last parameter is written after a ':'.
LEMMA WrittenOne ==
    ASSUME NEW T, Space \in T, ":" \in T, NEW x \in Seq(T)
    PROVE  Written(<<x>>) = WrittenLast(x)
<1>1. << >> \in Seq(Seq(T))
  BY EmptySeq
<1>2. WrittenLast(x) \in Seq(T) /\ Written(<< >>) = << >>
  BY <1>1, WrittenIs
<1>3. Written(<<x>> \o << >>) = WrittenBefore(x, << >>) \o Written(<< >>)
  BY <1>1, WrittenIs
<1>4. <<x>> \o << >> = <<x>>
  <2>1. <<x>> \in Seq(Seq(T))
    OBVIOUS
  <2> QED
    BY <2>1, ConcatEmptySeq
<1>5. WrittenBefore(x, << >>) = WrittenLast(x)
  BY DEF WrittenBefore
<1>6. WrittenLast(x) \o << >> = WrittenLast(x)
  BY <1>2, ConcatEmptySeq
<1> HIDE DEF Written
<1> QED
  BY <1>2, <1>3, <1>4, <1>5, <1>6

\* A parameter that is not the last is written after a space.
LEMMA WrittenMore ==
    ASSUME NEW T, Space \in T, ":" \in T, NEW x \in Seq(T), NEW r \in Seq(Seq(T)), r # << >>
    PROVE  Written(<<x>> \o r) = WrittenWord(x) \o Written(r)
<1>1. Written(<<x>> \o r) = WrittenBefore(x, r) \o Written(r)
  BY WrittenIs
<1>2. WrittenBefore(x, r) = WrittenWord(x)
  BY DEF WrittenBefore
<1> QED
  BY <1>1, <1>2

\* Parameters as written begin with a space.
LEMMA WrittenStarts ==
    ASSUME NEW T, Space \in T, ":" \in T, NEW r \in Seq(Seq(T)), r # << >>
    PROVE  Len(Written(r)) >= 1 /\ Written(r)[1] = Space
<1>1. PICK x \in Seq(T), q \in Seq(Seq(T)) : r = <<x>> \o q
  BY FirstAndRest
<1> DEFINE w == WrittenBefore(x, q)
           h == IF q = << >> THEN <<Space, ":">> ELSE <<Space>>
<1>2. w \in Seq(T) /\ Written(q) \in Seq(T) /\ Written(r) = w \o Written(q)
  <2>1. WrittenLast(x) \in Seq(T) /\ WrittenWord(x) \in Seq(T) /\ Written(q) \in Seq(T)
    BY WrittenIs
  <2>2. Written(<<x>> \o q) = w \o Written(q)
    BY WrittenIs
  <2>3. w \in Seq(T)
    BY <2>1 DEF WrittenBefore
  <2> QED
    BY <1>1, <2>1, <2>2, <2>3
<1>3. h \in Seq(T) /\ Len(h) >= 1 /\ h[1] = Space /\ Len(h) \in Nat
  OBVIOUS
<1>4. w = h \o x
  BY DEF WrittenBefore, WrittenLast, WrittenWord
<1> HIDE DEF w, h
<1>5. Len(w) = Len(h) + Len(x) /\ \A i \in 1..Len(h) : w[i] = h[i]
  BY <1>3, <1>4, JoinedIs
<1>6. Len(x) \in Nat /\ Len(w) \in Nat /\ Len(Written(q)) \in Nat
  BY <1>2
<1>7. Len(w) >= 1 /\ w[1] = Space
  BY <1>3, <1>5, <1>6
<1>8. Len(Written(r)) = Len(w) + Len(Written(q)) /\ \A i \in 1..Len(w) : Written(r)[i] = w[i]
  BY <1>2, JoinedIs
<1> QED
  BY <1>6, <1>7, <1>8

\* The last parameter, after its ':', is read back.
LEMMA LastIsRead ==
    ASSUME NEW T, Space \in T, ":" \in T, NEW u \in Seq(T), NEW x \in Seq(T)
    PROVE  Params(u \o WrittenLast(x), Len(u) + 1) = <<x>>
<1> DEFINE h == <<Space, ":">>
           w == h \o x
           line == u \o w
           a == Len(u)
           n == Len(x)
           L == Len(line)
           last == SubSeq(line, a + 2 + 1, L)
<1>1. h \in Seq(T) /\ Len(h) = 2 /\ h[1] = Space /\ h[2] = ":" /\ a \in Nat /\ n \in Nat
  OBVIOUS
<1>2. WrittenLast(x) = w
  BY DEF WrittenLast
<1> HIDE DEF h
<1>3. /\ w \in Seq(T) /\ Len(w) = 2 + n /\ w[1] = Space /\ w[2] = ":"
      /\ \A i \in 1..n : w[2 + i] = x[i]
  <2>0. h \in Seq(T)
    BY <1>1
  <2>1. /\ w \in Seq(T) /\ Len(w) = Len(h) + Len(x)
        /\ \A i \in 1..Len(h) : w[i] = h[i]
        /\ \A i \in 1..Len(x) : w[Len(h) + i] = x[i]
    BY <2>0, JoinedIs
  <2> HIDE DEF w
  <2> QED
    BY <1>1, <2>1
<1> HIDE DEF w
<1>4. /\ line \in Seq(T) /\ L = a + Len(w)
      /\ \A i \in 1..Len(w) : line[a + i] = w[i]
  <2>1. w \in Seq(T)
    BY <1>3
  <2>2. line \in Seq(T) /\ Len(line) = Len(u) + Len(w)
    BY <2>1, JoinedIs
  <2>3. \A i \in 1..Len(w) : line[Len(u) + i] = w[i]
    BY <2>1, JoinedIs
  <2> QED
    BY <2>2, <2>3
<1> HIDE DEF line, L
<1>5. L = a + 2 + n /\ line[a + 1] = Space /\ line[a + 2] = ":" /\ L \in Nat
  <2>1. 1 \in 1..Len(w) /\ 2 \in 1..Len(w)
    BY <1>1, <1>3
  <2> QED
    BY <1>1, <1>3, <1>4, <2>1
<1>6. \A i \in 1..n : line[a + 2 + i] = x[i]
  <2>1. ASSUME NEW i \in 1..n
        PROVE  line[a + 2 + i] = x[i]
    <3>1. 2 + i \in 1..Len(w) /\ a + (2 + i) = a + 2 + i
      BY <1>1, <1>3
    <3> QED
      BY <1>3, <1>4, <3>1
  <2> QED
    BY <2>1
<1>7. SkipSpaces(line, a + 1) = a + 2
  <2>1. a + 1 \in 1..Len(line)+1 /\ a + 2 \in a+1..Len(line)+1 /\ Len(line) = L
    BY <1>1, <1>5 DEF L
  <2>2. \A k \in a+1..(a+2)-1 : line[k] = Space
    BY <1>1, <1>5
  <2>3. line[a + 2] # Space
    <3>1. ":" # Space
      BY Zenon DEF Space
    <3> QED
      BY <1>5, <3>1
  <2> QED
    BY <1>4, <2>1, <2>2, <2>3, SkipSpacesIs
<1>8. Params(line, a + 1) = <<last>>
  <2>1. a + 1 \in 1..Len(line)+1 /\ Len(line) = L /\ ~(a + 2 > L)
    BY <1>1, <1>5 DEF L
  <2> DEFINE p == SkipSpaces(line, a + 1)
  <2>2. Params(line, a + 1) = IF p > Len(line) THEN << >>
                        ELSE IF line[p] = ":" THEN <<SubSeq(line, p + 1, Len(line))>>
                        ELSE <<SubSeq(line, p, EndOfWord(line, p) - 1)>> \o Params(line, EndOfWord(line, p))
    BY <1>4, <2>1, ParamsSteps
  <2>3. p = a + 2
    BY <1>7
  <2> HIDE DEF p
  <2> QED
    BY <1>5, <2>1, <2>2, <2>3
<1>9. last = x
  <2>1. a + 2 + 1 \in 1..Len(line)+1 /\ L \in (a + 2 + 1)-1..Len(line)
    BY <1>1, <1>5 DEF L
  <2>2. /\ last \in Seq(T) /\ Len(last) = L - (a + 2 + 1) + 1
        /\ \A k \in 1..L - (a + 2 + 1) + 1 : last[k] = line[(a + 2 + 1) + k - 1]
    BY <1>4, <2>1, PartIs
  <2> HIDE DEF last
  <2>3. L - (a + 2 + 1) + 1 = n /\ \A k \in 1..n : (a + 2 + 1) + k - 1 = a + 2 + k
    BY <1>1, <1>5
  <2>4. Len(last) = Len(x) /\ \A k \in 1..Len(last) : last[k] = x[k]
    BY <1>6, <2>2, <2>3
  <2> QED
    BY <2>2, <2>4, SeqEqual
<1> QED
  BY <1>2, <1>8, <1>9 DEF line

\* After u, a written x is read, and then what begins with z.
ReadsWord(u, x, z) ==
    LET v == u \o WrittenWord(x)
    IN  Params(v \o z, Len(u) + 1) = <<x>> \o Params(v \o z, Len(v) + 1)

\* A parameter that is a word, with more to come, is read back.
LEMMA WordIsRead ==
    ASSUME NEW T, Space \in T, ":" \in T, NEW u \in Seq(T), NEW x \in Seq(T), NEW z \in Seq(T),
           IsWord(x), Len(z) >= 1, z[1] = Space
    PROVE  ReadsWord(u, x, z)
<1> DEFINE h == <<Space>>
           w == h \o x
           v == u \o w
           line == v \o z
           a == Len(u)
           n == Len(x)
           b == Len(v)
           L == Len(line)
           word == SubSeq(line, a + 2, (b + 1) - 1)
<1>1. /\ h \in Seq(T) /\ Len(h) = 1 /\ h[1] = Space
      /\ a \in Nat /\ n \in Nat \ {0} /\ Len(z) \in Nat
  BY EmptySeq DEF IsWord
<1>0. (\A k \in 1..n : x[k] # Space) /\ x[1] # ":"
  <2>1. DOMAIN x = 1..n
    OBVIOUS
  <2>2. Head(x) = x[1]
    BY EmptySeq, HeadTailProperties DEF IsWord
  <2> QED
    BY <2>1, <2>2 DEF IsWord, Range
<1>2. WrittenWord(x) = w
  BY DEF WrittenWord
<1> HIDE DEF h
<1>3. w \in Seq(T) /\ Len(w) = 1 + n /\ w[1] = Space /\ \A i \in 1..n : w[1 + i] = x[i]
  <2>0. h \in Seq(T)
    BY <1>1
  <2>1. /\ w \in Seq(T) /\ Len(w) = Len(h) + Len(x)
        /\ \A i \in 1..Len(h) : w[i] = h[i]
        /\ \A i \in 1..Len(x) : w[Len(h) + i] = x[i]
    BY <2>0, JoinedIs
  <2> HIDE DEF w
  <2> QED
    BY <1>1, <2>1
<1> HIDE DEF w
<1>4. v \in Seq(T) /\ b = a + Len(w) /\ \A i \in 1..Len(w) : v[a + i] = w[i]
  <2>1. w \in Seq(T)
    BY <1>3
  <2>2. v \in Seq(T) /\ Len(v) = Len(u) + Len(w)
    BY <2>1, JoinedIs
  <2>3. \A i \in 1..Len(w) : v[Len(u) + i] = w[i]
    BY <2>1, JoinedIs
  <2> QED
    BY <2>2, <2>3
<1> HIDE DEF v, b
<1>5. b = a + 1 + n /\ v[a + 1] = Space /\ \A i \in 1..n : v[a + 1 + i] = x[i]
  <2>1. 1 \in 1..Len(w)
    BY <1>1, <1>3
  <2>2. ASSUME NEW i \in 1..n
        PROVE  v[a + 1 + i] = x[i]
    <3>1. 1 + i \in 1..Len(w) /\ a + (1 + i) = a + 1 + i
      BY <1>1, <1>3
    <3> QED
      BY <1>3, <1>4, <3>1
  <2> QED
    BY <1>1, <1>3, <1>4, <2>1, <2>2
<1>6. /\ line \in Seq(T) /\ L = b + Len(z)
      /\ \A i \in 1..b : line[i] = v[i]
      /\ \A i \in 1..Len(z) : line[b + i] = z[i]
  <2>1. v \in Seq(T)
    BY <1>4
  <2>2. line \in Seq(T) /\ Len(line) = Len(v) + Len(z)
    BY <2>1, JoinedIs
  <2>3. \A i \in 1..Len(v) : line[i] = v[i]
    BY <2>1, JoinedIs
  <2>4. \A i \in 1..Len(z) : line[Len(v) + i] = z[i]
    BY <2>1, JoinedIs
  <2> QED
    BY <2>2, <2>3, <2>4 DEF b
<1> HIDE DEF line, L
<1>7. L \in Nat /\ b \in Nat /\ b + 1 <= L
  BY <1>1, <1>5, <1>6
<1>8. line[a + 1] = Space /\ line[b + 1] = Space
  <2>1. a + 1 \in 1..b /\ 1 \in 1..Len(z)
    BY <1>1, <1>5
  <2> QED
    BY <1>5, <1>6, <2>1
<1>9. \A i \in 1..n : line[a + 1 + i] = x[i]
  <2>1. \A i \in 1..n : a + 1 + i \in 1..b
    BY <1>1, <1>5
  <2> QED
    BY <1>5, <1>6, <2>1
<1>10. \A k \in a+2..b : line[k] # Space
  <2>1. ASSUME NEW k \in a+2..b
        PROVE  line[k] # Space
    <3>1. k - (a + 1) \in 1..n /\ a + 1 + (k - (a + 1)) = k
      BY <1>1, <1>5
    <3>2. line[k] = x[k - (a + 1)]
      BY <1>9, <3>1
    <3> QED
      BY <1>0, <3>1, <3>2
  <2> QED
    BY <2>1
<1>11. line[a + 2] = x[1] /\ a + 2 \in a+2..b /\ a + 2 <= L
  <2>1. 1 \in 1..n /\ a + 1 + 1 = a + 2
    BY <1>1
  <2> QED
    BY <1>1, <1>5, <1>7, <1>9, <2>1
<1>12. SkipSpaces(line, a + 1) = a + 2
  <2>1. a + 1 \in 1..Len(line)+1 /\ a + 2 \in a+1..Len(line)+1
    BY <1>1, <1>7, <1>11 DEF L
  <2>2. \A k \in a+1..(a+2)-1 : line[k] = Space
    BY <1>1, <1>8
  <2> QED
    BY <1>6, <1>10, <1>11, <2>1, <2>2, SkipSpacesIs
<1>13. EndOfWord(line, a + 2) = b + 1
  <2>1. a + 2 \in 1..Len(line)+1 /\ b + 1 \in a+2..Len(line)+1
    BY <1>1, <1>7, <1>11 DEF L
  <2>2. \A k \in a+2..(b+1)-1 : line[k] # Space
    BY <1>7, <1>10
  <2> QED
    BY <1>6, <1>8, <2>1, <2>2, EndOfWordIs
<1>14. Params(line, a + 1) = <<word>> \o Params(line, b + 1)
  <2>1. a + 1 \in 1..Len(line)+1 /\ Len(line) = L /\ ~(a + 2 > L)
    BY <1>1, <1>7, <1>11 DEF L
  <2> DEFINE p == SkipSpaces(line, a + 1)
             q == EndOfWord(line, p)
  <2>2. Params(line, a + 1) = IF p > Len(line) THEN << >>
                        ELSE IF line[p] = ":" THEN <<SubSeq(line, p + 1, Len(line))>>
                        ELSE <<SubSeq(line, p, q - 1)>> \o Params(line, q)
    BY <1>6, <2>1, ParamsSteps
  <2>3. p = a + 2 /\ q = b + 1
    BY <1>12, <1>13
  <2> HIDE DEF p, q
  <2> QED
    BY <1>0, <1>11, <2>1, <2>2, <2>3
<1>15. word = x
  <2>1. a + 2 \in 1..Len(line)+1 /\ (b + 1) - 1 \in (a + 2)-1..Len(line)
    BY <1>1, <1>5, <1>7 DEF L
  <2>2. /\ word \in Seq(T) /\ Len(word) = ((b + 1) - 1) - (a + 2) + 1
        /\ \A k \in 1..((b + 1) - 1) - (a + 2) + 1 : word[k] = line[(a + 2) + k - 1]
    BY <1>6, <2>1, PartIs
  <2> HIDE DEF word
  <2>3. ((b + 1) - 1) - (a + 2) + 1 = n /\ \A k \in 1..n : (a + 2) + k - 1 = a + 1 + k
    BY <1>1, <1>5
  <2>4. Len(word) = Len(x) /\ \A k \in 1..Len(word) : word[k] = x[k]
    BY <1>9, <2>2, <2>3
  <2> QED
    BY <2>2, <2>4, SeqEqual
<1> QED
  BY <1>2, <1>14, <1>15 DEF line, v, b, ReadsWord

\* ConcatAssociative for three sequences that are named.
Regroups(p, q, s) == p \o (q \o s) = (p \o q) \o s

\* Three sequences may be put together in either order.
LEMMA Regroup ==
    ASSUME NEW T, NEW p \in Seq(T), NEW q \in Seq(T), NEW s \in Seq(T)
    PROVE  Regroups(p, q, s)
<1> QED
  BY ConcatAssociative DEF Regroups

\* Parameters that are read back, whatever comes before them.
IsRead(T, r) == \A t \in Seq(T) : Params(t \o Written(r), Len(t) + 1) = r

\* One step of the induction: the first word and what follows it.
LEMMA WordThenRest ==
    ASSUME NEW T, Space \in T, ":" \in T, NEW v \in Seq(T), NEW x \in Seq(T), NEW r \in Seq(Seq(T)),
           IsWord(x), r # << >>, IsRead(T, r)
    PROVE  Params(v \o Written(<<x>> \o r), Len(v) + 1) = <<x>> \o r
<1> DEFINE w == WrittenWord(x)
           z == Written(r)
           t == v \o w
<1>1. w \in Seq(T) /\ z \in Seq(T)
  BY WrittenIs
<1>2. Written(<<x>> \o r) = w \o z
  BY WrittenMore
<1>3. Len(z) >= 1 /\ z[1] = Space
  BY WrittenStarts
<1> HIDE DEF z
<1>4. t \in Seq(T)
  BY <1>1, ConcatProperties
<1>5. Params(t \o z, Len(v) + 1) = <<x>> \o Params(t \o z, Len(t) + 1)
  <2>1. ReadsWord(v, x, z)
    BY <1>1, <1>3, WordIsRead
  <2> QED
    BY <2>1 DEF ReadsWord
<1> HIDE DEF w
<1>6. v \o (w \o z) = t \o z
  <2>1. w \in Seq(T) /\ z \in Seq(T)
    BY <1>1
  <2>2. Regroups(v, w, z)
    BY <2>1, Regroup
  <2> QED
    BY <2>2 DEF Regroups
<1> HIDE DEF t
<1>7. Params(t \o z, Len(t) + 1) = r
  BY <1>4 DEF z, IsRead
<1> QED
  BY <1>2, <1>5, <1>6, <1>7

\* Parameters are read back as they were written, whatever comes before them.
LEMMA WrittenIsRead ==
    ASSUME NEW T, Space \in T, ":" \in T, NEW u \in Seq(T), NEW ps \in Seq(Seq(T)), OnlyWords(ps)
    PROVE  Params(u \o Written(ps), Len(u) + 1) = ps
<1> DEFINE Wrong(n) == \E v \in Seq(T), qs \in Seq(Seq(T)) :
              /\ Len(qs) = n /\ OnlyWords(qs)
              /\ Params(v \o Written(qs), Len(v) + 1) # qs
           wrong == {n \in Nat : Wrong(n)}
<1>1. wrong = {}
  <2>1. SUFFICES ASSUME wrong # {} PROVE FALSE
    OBVIOUS
  <2> DEFINE n == Min(wrong)
  <2>2. n \in wrong /\ \A m \in wrong : n <= m
    <3>1. wrong \in SUBSET Nat
      OBVIOUS
    <3> HIDE DEF wrong
    <3> QED
      BY <2>1, <3>1, MinIsLeast
  <2> HIDE DEF n
  <2>3. PICK v \in Seq(T), qs \in Seq(Seq(T)) :
              /\ Len(qs) = n /\ OnlyWords(qs)
              /\ Params(v \o Written(qs), Len(v) + 1) # qs
    BY <2>2
  <2>4. qs # << >>
    <3>1. Written(<< >>) = << >>
      BY WrittenIs
    <3>2. v \o << >> = v /\ Params(v, Len(v) + 1) = << >>
      BY ConcatEmptySeq, ParamsAtEnd
    <3> QED
      BY <2>3, <3>1, <3>2
  <2>5. PICK x \in Seq(T), r \in Seq(Seq(T)) : qs = <<x>> \o r /\ Len(qs) = Len(r) + 1
    BY <2>4, FirstAndRest
  <2>6. /\ qs[1] = x /\ DOMAIN qs = 1..Len(r)+1 /\ \A k \in 1..Len(r) : qs[k+1] = r[k]
    BY <2>5, InFront
  <2>7. Len(r) \in Nat /\ DOMAIN r = 1..Len(r) /\ (r = << >> <=> Len(r) = 0)
    BY EmptySeq
  <2>8. OnlyWords(r)
    <3>1. ASSUME NEW j \in DOMAIN r
          PROVE  j = Len(r) \/ IsWord(r[j])
      <4>1. j \in 1..Len(r) /\ j + 1 \in 1..Len(r)+1 /\ (j + 1 = Len(qs) => j = Len(r))
        BY <2>5, <2>7
      <4>2. qs[j+1] = r[j]
        BY <2>6, <4>1
      <4> QED
        BY <2>3, <2>6, <4>1, <4>2 DEF OnlyWords
    <3> QED
      BY <3>1 DEF OnlyWords
  <2>9. CASE r = << >>
    <3>1. Written(<<x>>) = WrittenLast(x)
      BY WrittenOne
    <3>2. qs = <<x>>
      <4>1. <<x>> \in Seq(Seq(T))
        OBVIOUS
      <4> QED
        BY <2>5, <2>9, <4>1, ConcatEmptySeq
    <3> QED
      BY <2>3, <3>1, <3>2, LastIsRead
  <2>10. CASE r # << >>
    <3>1. IsWord(x)
      <4>1. 1 \in 1..Len(r)+1 /\ 1 # Len(qs)
        BY <2>5, <2>7, <2>10
      <4> QED
        BY <2>3, <2>6, <4>1 DEF OnlyWords
    <3>2. IsRead(T, r)
      <4>1. Len(r) \notin wrong
        <5>1. ~(n <= Len(r))
          BY <2>3, <2>5, <2>7
        <5> HIDE DEF wrong
        <5> QED
          BY <2>2, <5>1
      <4>2. ~Wrong(Len(r))
        BY <2>7, <4>1
      <4> QED
        BY <2>8, <4>2 DEF IsRead
    <3>3. Params(v \o Written(<<x>> \o r), Len(v) + 1) = <<x>> \o r
      BY <2>10, <3>1, <3>2, WordThenRest
    <3> QED
      BY <2>3, <2>5, <3>3
  <2> QED
    BY <2>9, <2>10
<1>2. Len(ps) \in Nat
  OBVIOUS
<1>3. ~Wrong(Len(ps))
  BY <1>1, <1>2
<1> QED
  BY <1>3

\* A sequence of some characters is one of more characters.
LEMMA MoreCharacters ==
    ASSUME NEW C, NEW T, C \subseteq T
    PROVE  Seq(C) \subseteq Seq(T) /\ Seq(Seq(C)) \subseteq Seq(Seq(T))
<1>1. ASSUME NEW A, NEW B, A \subseteq B, NEW s \in Seq(A)
      PROVE  s \in Seq(B)
  <2>1. Len(s) \in Nat /\ s \in [1..Len(s) -> A]
    OBVIOUS
  <2>2. s \in [1..Len(s) -> B]
    BY <1>1, <2>1
  <2> QED
    BY <2>1, <2>2, FunctionIsSeq
<1>2. Seq(C) \subseteq Seq(T)
  BY <1>1
<1> QED
  BY <1>1, <1>2

\* Whether Format writes a prefix, and the text of it.
HasPrefix(c) == c.prefix # << >> \/ c.command = << >> \/ Head(c.command) = ":"

PrefixOf(c) == IF HasPrefix(c) THEN <<":">> \o c.prefix \o <<Space>> ELSE << >>

\* The characters of a command, and those that Format adds.
FormatChar == DOMAIN Upper \cup {Space, ":"}

\* A prefix as it is written: ':', the prefix without a space in it, a space.
LEMMA PrefixIs ==
    ASSUME NEW c, Readable(c), HasPrefix(c)
    PROVE  LET P == PrefixOf(c)
               n == Len(P)
           IN  /\ P \in Seq(FormatChar) /\ n = Len(c.prefix) + 2
               /\ P[1] = ":" /\ P[n] = Space
               /\ \A i \in 1..Len(c.prefix) : P[i+1] = c.prefix[i]
<1> DEFINE T == FormatChar
           p == c.prefix
           a == <<":">> \o p
           b == a \o <<Space>>
           k == Len(p)
<1>1. p \in Seq(T) /\ k \in Nat
  <2>1. p \in Seq(DOMAIN Upper)
    BY DEF Readable
  <2> QED
    BY <2>1, MoreCharacters DEF FormatChar
<1>2. ":" \in T /\ Space \in T
  BY DEF FormatChar
<1> HIDE DEF T
<1>3. <<Space>> \in Seq(T) /\ Len(<<Space>>) = 1 /\ <<Space>>[1] = Space
  BY <1>2
<1>4. a \in Seq(T) /\ Len(a) = k + 1 /\ a[1] = ":" /\ \A i \in 1..k : a[i+1] = p[i]
  BY <1>1, <1>2, InFront
<1> HIDE DEF a
<1>5. /\ b \in Seq(T) /\ Len(b) = Len(a) + 1
      /\ \A i \in 1..Len(a) : b[i] = a[i]
      /\ b[Len(a) + 1] = Space
  <2> DEFINE h == <<Space>>
  <2>1. h \in Seq(T) /\ Len(h) = 1 /\ h[1] = Space /\ 1 \in 1..Len(h)
    BY <1>3
  <2> HIDE DEF h
  <2>2. a \in Seq(T) /\ h \in Seq(T)
    BY <1>4, <2>1
  <2>3. a \o h \in Seq(T) /\ Len(a \o h) = Len(a) + Len(h)
    BY <2>2, JoinedIs
  <2>4. \A i \in 1..Len(a) : (a \o h)[i] = a[i]
    BY <2>2, JoinedIs
  <2>5. \A i \in 1..Len(h) : (a \o h)[Len(a) + i] = h[i]
    BY <2>2, JoinedIs
  <2> QED
    BY <2>1, <2>3, <2>4, <2>5 DEF h
<1> HIDE DEF b
<1>6. Len(b) = k + 2 /\ b[1] = ":" /\ b[Len(b)] = Space
  <2>1. 1 \in 1..Len(a) /\ Len(b) = Len(a) + 1
    BY <1>1, <1>4, <1>5
  <2> QED
    BY <1>1, <1>4, <1>5, <2>1
<1>7. ASSUME NEW i \in 1..k
      PROVE  b[i+1] = p[i]
  <2>1. i + 1 \in 1..Len(a)
    BY <1>1, <1>4
  <2> QED
    BY <1>4, <1>5, <2>1
<1>8. PrefixOf(c) = b
  BY DEF PrefixOf, a, b
<1> QED
  BY <1>5, <1>6, <1>7, <1>8 DEF T

\* Where the parts of a command are in the line that Format writes.
LEMMA FormatIs ==
    ASSUME NEW c, Readable(c)
    PROVE  LET P    == PrefixOf(c)
               n    == Len(P)
               m    == n + Len(c.command)
               line == Format(c)
           IN  /\ line \in Seq(FormatChar) /\ n \in Nat /\ 1 <= Len(line) /\ m <= Len(line)
               /\ \A i \in 1..n : line[i] = P[i]
               /\ \A i \in 1..Len(c.command) : line[n+i] = c.command[i]
               /\ m + 1 <= Len(line) => line[m+1] = Space
               /\ c.command = << >> => Len(line) = n
               /\ Params(line, m + 1) = c.params
<1> DEFINE T == FormatChar
           P == PrefixOf(c)
           K == c.command
           W == Written(c.params)
           v == P \o K
           line == v \o W
           n == Len(P)
           k == Len(K)
<1>1. Space \in T /\ ":" \in T
  BY DEF FormatChar
<1>2. K \in Seq(T) /\ c.params \in Seq(Seq(T)) /\ OnlyWords(c.params)
  <2>1. K \in Seq(DOMAIN Upper) /\ c.params \in Seq(Seq(DOMAIN Upper))
    BY DEF Readable
  <2>2. Seq(DOMAIN Upper) \subseteq Seq(T)
    BY MoreCharacters DEF FormatChar
  <2>3. Seq(Seq(DOMAIN Upper)) \subseteq Seq(Seq(T))
    BY MoreCharacters DEF FormatChar
  <2> QED
    BY <2>1, <2>2, <2>3 DEF Readable
<1>3. P \in Seq(T)
  <2>1. CASE HasPrefix(c)
    BY <2>1, PrefixIs
  <2>2. CASE ~HasPrefix(c)
    <3>1. P = << >>
      BY <2>2 DEF PrefixOf
    <3> HIDE DEF P
    <3> QED
      BY <3>1, EmptySeq
  <2> QED
    BY <2>1, <2>2
<1>4. Format(c) = line
  BY DEF Format, PrefixOf, HasPrefix
<1>5. W \in Seq(T)
  BY <1>1, <1>2, WrittenIs
<1>6. n \in Nat /\ k \in Nat /\ Len(W) \in Nat
  BY <1>2, <1>3, <1>5
<1>7. Params(line, Len(v) + 1) = c.params
  <2>1. v \in Seq(T)
    BY <1>2, <1>3, ConcatProperties
  <2> HIDE DEF v, T
  <2> QED
    BY <1>1, <1>2, <2>1, WrittenIsRead
<1>8. c.command = << >> => W = << >>
  <2>1. Written(<< >>) = << >>
    BY <1>1, <1>2, WrittenIs
  <2> QED
    BY <2>1 DEF Readable
<1>9. Len(W) = 0 \/ W[1] = Space
  <2>1. CASE c.params = << >>
    <3>1. Written(<< >>) = << >>
      BY <1>1, <1>2, WrittenIs
    <3> QED
      BY <2>1, <3>1
  <2>2. CASE c.params # << >>
    BY <1>1, <1>2, <2>2, WrittenStarts
  <2> QED
    BY <2>1, <2>2
<1> HIDE DEF P, K, W, T
<1>10. /\ v \in Seq(T) /\ Len(v) = n + k
       /\ \A i \in 1..n : v[i] = P[i]
       /\ \A i \in 1..k : v[n + i] = K[i]
  <2>1. v \in Seq(T) /\ Len(v) = Len(P) + Len(K)
    BY <1>2, <1>3, JoinedIs
  <2>2. \A i \in 1..Len(P) : v[i] = P[i]
    BY <1>2, <1>3, JoinedIs
  <2>3. \A i \in 1..Len(K) : v[Len(P) + i] = K[i]
    BY <1>2, <1>3, JoinedIs
  <2> QED
    BY <2>1, <2>2, <2>3
<1> HIDE DEF v
<1>11. /\ line \in Seq(T) /\ Len(line) = n + k + Len(W)
       /\ \A i \in 1..n+k : line[i] = v[i]
       /\ \A i \in 1..Len(W) : line[n + k + i] = W[i]
  <2>1. line \in Seq(T) /\ Len(line) = Len(v) + Len(W)
    BY <1>5, <1>10, JoinedIs
  <2>2. \A i \in 1..Len(v) : line[i] = v[i]
    BY <1>5, <1>10, JoinedIs
  <2>3. \A i \in 1..Len(W) : line[Len(v) + i] = W[i]
    BY <1>5, <1>10, JoinedIs
  <2> QED
    BY <1>10, <2>1, <2>2, <2>3
<1> HIDE DEF line
<1>12. \A i \in 1..n : line[i] = P[i]
  <2>1. \A i \in 1..n : i \in 1..n+k
    BY <1>6
  <2> QED
    BY <1>10, <1>11, <2>1
<1>13. \A i \in 1..k : line[n+i] = K[i]
  <2>1. \A i \in 1..k : n + i \in 1..n+k
    BY <1>6
  <2> QED
    BY <1>10, <1>11, <2>1
<1>14. n + k + 1 <= Len(line) => line[n + k + 1] = Space
  <2>1. SUFFICES ASSUME n + k + 1 <= Len(line) PROVE line[n + k + 1] = Space
    OBVIOUS
  <2>2. 1 \in 1..Len(W) /\ Len(W) # 0
    BY <1>6, <1>11, <2>1
  <2> QED
    BY <1>9, <1>11, <2>2
<1>15. c.command = << >> => Len(line) = n
  <2>1. Len(<< >>) = 0
    BY EmptySeq
  <2> QED
    BY <1>6, <1>8, <1>11, <2>1 DEF K
<1>16. n + k <= Len(line) /\ 1 <= Len(line)
  <2>1. CASE HasPrefix(c)
    <3>1. n >= 1
      <4>1. Len(c.prefix) \in Nat
        BY DEF Readable
      <4>2. n = Len(c.prefix) + 2
        BY <2>1, PrefixIs DEF P
      <4> QED
        BY <4>1, <4>2
    <3> QED
      BY <1>6, <1>11, <3>1
  <2>2. CASE ~HasPrefix(c)
    <3>1. k >= 1
      BY <1>2, <1>6, <2>2, EmptySeq DEF HasPrefix, K
    <3> QED
      BY <1>6, <1>11, <3>1
  <2> QED
    BY <2>1, <2>2
<1>17. Params(line, n + k + 1) = c.params
  BY <1>7, <1>10 DEF line
<1> HIDE DEF n, k
<1> QED
  BY <1>4, <1>6, <1>11, <1>12, <1>13, <1>14, <1>15, <1>16, <1>17 DEF P, K, T, n, k

\* What is written as a line is read back.
LEMMA FormatIsRead ==
    ASSUME NEW c, Readable(c)
    PROVE  Parse(Format(c)) = c
<1> DEFINE T == FormatChar
           P == PrefixOf(c)
           K == c.command
           n == Len(P)
           k == Len(K)
           m == n + k
           line == Format(c)
           L == Len(line)
<1>1. /\ line \in Seq(T) /\ n \in Nat /\ k \in Nat /\ L \in Nat /\ 1 <= L /\ m <= L
      /\ \A i \in 1..n : line[i] = P[i]
      /\ \A i \in 1..k : line[n+i] = K[i]
      /\ m + 1 <= L => line[m+1] = Space
      /\ c.command = << >> => L = n
      /\ Params(line, m + 1) = c.params
  <2>1. k \in Nat
    BY DEF Readable
  <2>2. /\ line \in Seq(T) /\ n \in Nat /\ 1 <= L /\ m <= L
        /\ \A i \in 1..n : line[i] = P[i]
        /\ \A i \in 1..k : line[n+i] = K[i]
        /\ m + 1 <= L => line[m+1] = Space
        /\ c.command = << >> => L = n
        /\ Params(line, m + 1) = c.params
    BY FormatIs
  <2> HIDE DEF line, n, k, T
  <2>3. L \in Nat
    BY <2>2
  <2> QED
    BY <2>1, <2>2, <2>3
<1>2. HasPrefix(c) => /\ n = Len(c.prefix) + 2 /\ P[1] = ":" /\ P[n] = Space
                      /\ \A i \in 1..Len(c.prefix) : P[i+1] = c.prefix[i]
  BY PrefixIs
<1>3. ~HasPrefix(c) => n = 0 /\ c.prefix = << >> /\ K # << >> /\ K[1] # ":"
  <2>1. SUFFICES ASSUME ~HasPrefix(c) PROVE n = 0 /\ c.prefix = << >> /\ K # << >> /\ K[1] # ":"
    OBVIOUS
  <2>2. n = 0
    <3>1. P = << >>
      BY <2>1 DEF PrefixOf
    <3> HIDE DEF P
    <3> QED
      BY <3>1, EmptySeq
  <2>3. K \in Seq(DOMAIN Upper) /\ K # << >> /\ c.prefix = << >> /\ Head(K) # ":"
    BY <2>1 DEF HasPrefix, Readable
  <2>4. Head(K) = K[1]
    BY <2>3, HeadTailProperties
  <2> QED
    BY <2>2, <2>3, <2>4
<1>4. /\ c = [prefix |-> c.prefix, command |-> c.command, params |-> c.params]
      /\ c.prefix \in Seq(DOMAIN Upper) /\ Len(c.prefix) \in Nat
      /\ \A i \in 1..Len(c.prefix) : c.prefix[i] # Space
      /\ K \in Seq(DOMAIN Upper)
      /\ \A i \in 1..k : K[i] # Space /\ Upper[K[i]] = K[i]
  BY DEF Readable
<1>5. k = 0 <=> K = << >>
  BY <1>4, EmptySeq
<1>6. ":" # Space
  BY Zenon DEF Space
<1> HIDE DEF line, P, n, L
<1>7. ASSUME NEW j \in n+1..m
      PROVE  line[j] = K[j - n] /\ line[j] # Space
  <2>1. j - n \in 1..k /\ n + (j - n) = j
    BY <1>1
  <2> QED
    BY <1>1, <1>4, <2>1
<1> DEFINE start == SkipSpaces(line, 1)
           prefixed == start <= L /\ line[start] = ":"
           prefixEnd == IF prefixed THEN EndOfWord(line, start) ELSE start
           word == SkipSpaces(line, prefixEnd)
           wordEnd == EndOfWord(line, word)
           prefix == IF prefixed THEN SubSeq(line, start + 1, prefixEnd - 1) ELSE << >>
           command == [i \in 1..wordEnd - word |-> Upper[line[word + i - 1]]]
           params == Params(line, SkipSpaces(line, wordEnd))
<1> HIDE DEF K, k
<1>8. HasPrefix(c) => line[1] = ":"
  <2>1. HasPrefix(c) => 1 \in 1..n
    BY <1>1, <1>2, <1>4
  <2> QED
    BY <1>1, <1>2, <2>1
<1>9. ~HasPrefix(c) => line[1] # Space /\ line[1] # ":"
  <2>1. ~HasPrefix(c) => 1 \in n+1..m /\ 1 - n = 1
    BY <1>1, <1>3, <1>5
  <2> QED
    BY <1>3, <1>7, <2>1
<1>10. start = 1
  <2>1. 1 \in 1..L+1 /\ L = Len(line)
    BY <1>1 DEF L
  <2>2. line[1] # Space /\ \A i \in 1..1-1 : line[i] = Space
    BY <1>6, <1>8, <1>9
  <2> QED
    BY <1>1, <2>1, <2>2, SkipSpacesIs
<1> HIDE DEF start
<1>11. prefixed <=> HasPrefix(c)
  BY <1>1, <1>8, <1>9, <1>10
<1>12. prefixEnd = IF HasPrefix(c) THEN n ELSE 1
  <2>1. CASE HasPrefix(c)
    <3>1. n \in 1..L+1 /\ 1 \in 1..L+1 /\ L = Len(line) /\ n \in 1..n
      BY <1>1, <1>2, <1>4, <2>1 DEF L
    <3>2. line[n] = Space
      BY <1>1, <1>2, <2>1, <3>1
    <3>3. ASSUME NEW i \in 1..n-1
          PROVE  line[i] # Space
      <4>1. line[i] = P[i] /\ i \in 1..n
        BY <1>1
      <4>2. CASE i = 1
        BY <1>6, <1>8, <2>1, <4>2
      <4>3. CASE i # 1
        <5>1. i - 1 \in 1..Len(c.prefix) /\ (i - 1) + 1 = i
          BY <1>1, <1>2, <1>4, <2>1, <4>3
        <5>2. P[i] = c.prefix[i - 1]
          BY <1>2, <2>1, <5>1
        <5> QED
          BY <1>4, <4>1, <5>1, <5>2
      <4> QED
        BY <4>2, <4>3
    <3>4. EndOfWord(line, 1) = n
      BY <1>1, <3>1, <3>2, <3>3, EndOfWordIs
    <3> QED
      BY <1>10, <1>11, <2>1, <3>4
  <2>2. CASE ~HasPrefix(c)
    BY <1>10, <1>11, <2>2
  <2> QED
    BY <2>1, <2>2
<1>13. prefix = c.prefix
  <2>1. CASE HasPrefix(c)
    <3> DEFINE s == SubSeq(line, 2, n - 1)
    <3>1. 2 \in 1..Len(line)+1 /\ n - 1 \in 2-1..Len(line)
      BY <1>1, <1>2, <1>4, <2>1 DEF L
    <3>2. /\ s \in Seq(T) /\ Len(s) = (n - 1) - 2 + 1
          /\ \A i \in 1..(n-1)-2+1 : s[i] = line[2+i-1]
      BY <1>1, <3>1, PartIs
    <3>3. prefix = s
      <4>1. prefixed /\ start + 1 = 2 /\ prefixEnd - 1 = n - 1
        BY <1>10, <1>11, <1>12, <2>1
      <4> HIDE DEF prefixed, prefixEnd
      <4> QED
        BY <4>1
    <3> HIDE DEF s, prefix
    <3>4. (n - 1) - 2 + 1 = Len(c.prefix)
      BY <1>1, <1>2, <1>4, <2>1
    <3>5. ASSUME NEW i \in 1..Len(c.prefix)
          PROVE  s[i] = c.prefix[i]
      <4>1. 2 + i - 1 = i + 1 /\ i + 1 \in 1..n
        BY <1>1, <1>2, <1>4, <2>1
      <4> QED
        BY <1>1, <1>2, <2>1, <3>2, <3>4, <4>1
    <3> QED
      BY <1>4, <3>2, <3>3, <3>4, <3>5, SeqEqual
  <2>2. CASE ~HasPrefix(c)
    BY <1>3, <1>11, <2>2
  <2> QED
    BY <2>1, <2>2
<1> HIDE DEF prefixed, prefixEnd, prefix
<1>14. word = n + 1
  <2>1. n + 1 <= L => line[n + 1] # Space
    <3>1. CASE K = << >>
      <4>1. L = n
        BY <1>1, <3>1 DEF K
      <4> QED
        BY <1>1, <4>1
    <3>2. CASE K # << >>
      <4>1. n + 1 \in n+1..m
        BY <1>1, <1>5, <3>2
      <4> QED
        BY <1>7, <4>1
    <3> QED
      BY <3>1, <3>2
  <2>2. CASE HasPrefix(c)
    <3>1. n \in 1..Len(line)+1 /\ n + 1 \in n..Len(line)+1 /\ n \in 1..n
      BY <1>1, <1>2, <1>4, <2>2 DEF L
    <3>2. \A i \in n..(n+1)-1 : line[i] = Space
      BY <1>1, <1>2, <2>2, <3>1
    <3>3. SkipSpaces(line, n) = n + 1
      BY <1>1, <2>1, <3>1, <3>2, SkipSpacesIs DEF L
    <3> QED
      BY <1>12, <2>2, <3>3
  <2>3. CASE ~HasPrefix(c)
    <3>1. prefixEnd = 1 /\ n + 1 = 1
      BY <1>3, <1>12, <2>3
    <3> QED
      BY <1>10, <3>1 DEF start
  <2> QED
    BY <2>2, <2>3
<1> HIDE DEF word
<1>15. wordEnd = m + 1
  <2>1. n + 1 \in 1..Len(line)+1 /\ m + 1 \in n+1..Len(line)+1
    BY <1>1 DEF L
  <2>2. \A i \in n+1..(m+1)-1 : line[i] # Space
    BY <1>1, <1>7
  <2>3. EndOfWord(line, n + 1) = m + 1
    BY <1>1, <2>1, <2>2, EndOfWordIs DEF L
  <2> QED
    BY <1>14, <2>3
<1> HIDE DEF wordEnd
<1>16. command = K
  <2>1. wordEnd - word = k /\ K = [i \in 1..k |-> K[i]]
    <3>1. Len(K) = k
      BY DEF k
    <3> QED
      BY <1>1, <1>4, <1>14, <1>15, <3>1
  <2>2. ASSUME NEW i \in 1..k
        PROVE  Upper[line[word + i - 1]] = K[i]
    <3>1. word + i - 1 = n + i
      BY <1>1, <1>14
    <3> QED
      BY <1>1, <1>4, <3>1
  <2> QED
    BY <2>1, <2>2
<1>17. params = c.params
  <2>1. m + 1 \in 1..Len(line)+1
    BY <1>1 DEF L
  <2>2. Params(line, SkipSpaces(line, m + 1)) = Params(line, m + 1)
    BY <1>1, <2>1, ParamsAfterSpaces
  <2> QED
    BY <1>1, <1>15, <2>2
<1> HIDE DEF command, params
<1>18. Parse(line) = [prefix |-> prefix, command |-> command, params |-> params]
  <2>1. ~(start > L)
    BY <1>1, <1>10
  <2> QED
    BY <2>1 DEF Parse, start, prefixed, prefixEnd, word, wordEnd, prefix, command, params, L
<1> QED
  BY <1>4, <1>13, <1>16, <1>17, <1>18 DEF line, K

-----------------------------------------------------------------------------
(* What is executed *)

\* Every command that is executed was made by parse.
LEMMA ExecutedIsReadable == StreamTypeOK => \A i \in DOMAIN executed : Readable(executed[i])
<1> SUFFICES ASSUME StreamTypeOK, NEW i \in DOMAIN executed
             PROVE  Readable(executed[i])
  OBVIOUS
<1>1. executed \in Seq(Parsed)
  BY DEF StreamTypeOK
<1>2. executed[i] \in Parsed
  BY <1>1, ElementOfSeq
<1>3. PICK line \in Seq(DOMAIN Upper) : executed[i] = Parse(line)
  BY <1>2 DEF Parsed
<1> QED
  BY <1>3, ParseIsReadable

\* The types hold at every moment.
LEMMA StreamTypes == Spec => []StreamTypeOK
<1>1. Init => IInv
  BY StreamInit
<1>2. IInv /\ [Next]_vars => IInv'
  BY StreamNext
<1>3. IInv => StreamTypeOK
  BY DEF IInv
<1> QED
  BY <1>1, <1>2, <1>3, PTL DEF Spec

\* No handler is given a parameter, but for the last, that is empty, has a
\* space or begins with ':': parseParams, for every line.
THEOREM HandlersGetWords == Spec => []ParamsAreWords
<1>1. StreamTypeOK => ParamsAreWords
  BY ExecutedIsReadable DEF ParamsAreWords, Readable
<1> QED
  BY <1>1, StreamTypes, PTL

\* Every command that is executed, written as a line, is read back the same:
\* parse loses nothing and moves nothing to another field.
THEOREM ParseLosesNothing == Spec => []ReadBack
<1>1. StreamTypeOK => ReadBack
  BY ExecutedIsReadable, FormatIsRead DEF ReadBack
<1> QED
  BY <1>1, StreamTypes, PTL
=============================================================================
