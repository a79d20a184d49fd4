----------------------------- MODULE Positions -----------------------------
(***************************************************************************)
(* Least and greatest positions: what Min and Max of FiniteSetsExt return. *)
(* And what FlattenSeq of SequencesExt makes of a sequence of sequences:   *)
(* the models read off a queue, as one sequence, what its lines stand for. *)
(* And the elements of sequences that are put together or cut.             *)
(***************************************************************************)
EXTENDS Naturals, FiniteSetsExt, SequencesExt, SequenceTheorems, WellFoundedInduction, TLAPS

(* A set of positions that is not empty has a least one, and Min is it: the *)
(* loops of promoteSuccessor and std::find stop at the first hit.           *)
LEMMA MinIsLeast ==
    ASSUME NEW T \in SUBSET Nat, T # {}
    PROVE  /\ Min(T) \in T
           /\ \A x \in T : Min(T) <= x
<1>1. PICK x \in T : \A y \in T : ~(<<y, x>> \in OpToRel(<, Nat))
  BY NatLessThanWellFounded, WFMin
<1>2. \A y \in T : <<y, x>> \in OpToRel(<, Nat) <=> y < x
  BY DEF OpToRel
<1>3. ASSUME NEW y \in T PROVE x <= y
  <2>1. ~(y < x)
    BY <1>1, <1>2
  <2>2. x \in Nat /\ y \in Nat
    OBVIOUS
  <2> QED
    BY <2>1, <2>2
<1> QED
  BY <1>3 DEF Min

\* A set of numbers up to N that is not empty has a greatest one.
LEMMA MaxIsGreatest ==
    ASSUME NEW N \in Nat, NEW T \in SUBSET (0..N), T # {}
    PROVE  /\ Max(T) \in T
           /\ \A x \in T : x <= Max(T)
<1> DEFINE D == {N - x : x \in T}
<1>1. D \subseteq Nat /\ D # {}
  <2>1. ASSUME NEW x \in T PROVE N - x \in Nat
    <3>1. x \in 0..N
      OBVIOUS
    <3> QED
      BY <3>1
  <2> QED
    BY <2>1
<1>2. PICK d \in D : \A e \in D : ~(<<e, d>> \in OpToRel(<, Nat))
  BY <1>1, NatLessThanWellFounded, WFMin
<1>3. PICK x \in T : d = N - x
  BY <1>2
<1>4. ASSUME NEW y \in T PROVE x >= y
  <2>1. N - y \in D /\ N - y \in Nat /\ d \in Nat
    BY <1>1
  <2>2. ~(N - y < d)
    BY <1>2, <2>1 DEF OpToRel
  <2>3. x \in 0..N /\ y \in 0..N
    OBVIOUS
  <2> QED
    BY <1>3, <2>2, <2>3
<1>5. Max(T) \in T /\ \A y \in T : Max(T) >= y
  BY <1>4 DEF Max
<1> QED
  BY <1>5

-----------------------------------------------------------------------------
(* FlattenSeq *)

\* The equation of the function FlattenSeq defines has a solution.
LEMMA FlattenHasFunction ==
    ASSUME NEW M, NEW N \in Nat
    PROVE  \E f : f = [i \in 1..N |-> IF i = 1 THEN M[i] ELSE f[i-1] \o M[i]]
<1> DEFINE Solved(n) == \E f : f = [i \in 1..n |-> IF i = 1 THEN M[i] ELSE f[i-1] \o M[i]]
           unsolved  == {n \in Nat : ~Solved(n)}
<1>1. SUFFICES ASSUME unsolved # {} PROVE FALSE
  BY DEF unsolved
<1> DEFINE n == Min(unsolved)
<1>2. n \in unsolved /\ \A x \in unsolved : n <= x
  BY <1>1, MinIsLeast
<1> HIDE DEF n
<1>3. n \in Nat /\ ~Solved(n)
  BY <1>2
<1>4. CASE n = 0
  <2> DEFINE f == [i \in 1..0 |-> << >>]
  <2>1. f = [i \in 1..0 |-> IF i = 1 THEN M[i] ELSE f[i-1] \o M[i]]
    OBVIOUS
  <2> HIDE DEF f
  <2> QED
    BY <1>3, <1>4, <2>1
<1>5. CASE n # 0
  <2>1. n - 1 \in Nat /\ n - 1 \notin unsolved
    <3>1. n - 1 \in Nat /\ ~(n <= n - 1)
      BY <1>3, <1>5
    <3> HIDE DEF unsolved
    <3> QED
      BY <1>2, <3>1
  <2>2. Solved(n - 1)
    BY <2>1 DEF unsolved
  <2>3. PICK f : f = [i \in 1..n-1 |-> IF i = 1 THEN M[i] ELSE f[i-1] \o M[i]]
    BY <2>2
  <2> DEFINE last == IF n = 1 THEN M[n] ELSE f[n-1] \o M[n]
             g    == [i \in 1..n |-> IF i = n THEN last ELSE f[i]]
  <2>4. ASSUME NEW i \in 1..n
        PROVE  g[i] = IF i = 1 THEN M[i] ELSE g[i-1] \o M[i]
    <3>1. CASE i = n
      <4>1. n # 1 => n - 1 \in 1..n /\ n - 1 # n
        BY <1>3, <1>5
      <4> QED
        BY <3>1, <4>1
    <3>2. CASE i # n
      <4>1. i \in 1..n-1 /\ (i # 1 => i - 1 \in 1..n /\ i - 1 # n)
        BY <1>3, <3>2
      <4>2. g[i] = f[i] /\ (i # 1 => g[i-1] = f[i-1])
        BY <3>2, <4>1
      <4>3. f[i] = IF i = 1 THEN M[i] ELSE f[i-1] \o M[i]
        BY <2>3, <4>1
      <4> QED
        BY <4>2, <4>3
    <3> QED
      BY <3>1, <3>2
  <2>5. g = [i \in 1..n |-> g[i]]
    OBVIOUS
  <2> HIDE DEF g
  <2>6. g = [i \in 1..n |-> IF i = 1 THEN M[i] ELSE g[i-1] \o M[i]]
    BY <2>4, <2>5
  <2> QED
    BY <1>3, <2>6
<1> QED
  BY <1>4, <1>5

\* The sequences of M are concatenated one after the other.
LEMMA FlattenSteps ==
    ASSUME NEW T, NEW M \in Seq(Seq(T)), M # << >>
    PROVE  \E f \in [1..Len(M) -> Seq(T)] :
              /\ f[1] = M[1]
              /\ \A i \in 2..Len(M) : f[i] = f[i-1] \o M[i]
              /\ FlattenSeq(M) = f[Len(M)]
<1> DEFINE N  == Len(M)
           f0 == CHOOSE f : f = [i \in 1..N |-> IF i = 1 THEN M[i] ELSE f[i-1] \o M[i]]
<1>1. N \in Nat \ {0} /\ \A i \in 1..N : M[i] \in Seq(T)
  BY EmptySeq, ElementOfSeq
<1>2. f0 = [i \in 1..N |-> IF i = 1 THEN M[i] ELSE f0[i-1] \o M[i]]
  <2>1. \E f : f = [i \in 1..N |-> IF i = 1 THEN M[i] ELSE f[i-1] \o M[i]]
    BY <1>1, FlattenHasFunction
  <2> QED
    BY <2>1
<1>3. FlattenSeq(M) = f0[N]
  BY <1>1 DEF FlattenSeq
<1> HIDE DEF f0, N
<1>4. /\ 1 \in 1..N /\ N \in 1..N
      /\ f0[1] = M[1]
      /\ \A i \in 2..N : i \in 1..N /\ i - 1 \in 1..N /\ f0[i] = f0[i-1] \o M[i]
  <2>1. 1 \in 1..N /\ N \in 1..N /\ \A i \in 2..N : i \in 1..N /\ i # 1 /\ i - 1 \in 1..N
    BY <1>1
  <2> QED
    BY <1>2, <2>1
<1> DEFINE untyped == {i \in 1..N : f0[i] \notin Seq(T)}
<1>5. untyped = {}
  <2>1. SUFFICES ASSUME untyped # {} PROVE FALSE
    OBVIOUS
  <2> DEFINE k == Min(untyped)
  <2>2. untyped \in SUBSET Nat
    BY <1>1
  <2>3. k \in untyped /\ \A x \in untyped : k <= x
    BY <2>1, <2>2, MinIsLeast
  <2> HIDE DEF k
  <2>4. CASE k = 1
    BY <1>1, <1>4, <2>3, <2>4
  <2>5. CASE k # 1
    <3>1. k \in 2..N /\ k - 1 \in 1..N /\ ~(k <= k - 1)
      BY <1>1, <2>3, <2>5
    <3>2. f0[k-1] \in Seq(T)
      BY <2>3, <3>1
    <3>3. f0[k-1] \o M[k] \in Seq(T)
      BY <1>1, <3>1, <3>2, ConcatProperties
    <3> QED
      BY <1>4, <2>3, <3>1, <3>3
  <2> QED
    BY <2>4, <2>5
<1>6. f0 \in [1..N -> Seq(T)]
  <2>1. \A i \in 1..N : f0[i] \in Seq(T)
    BY <1>5
  <2>2. f0 = [i \in 1..N |-> f0[i]]
    BY <1>2
  <2> QED
    BY <2>1, <2>2
<1> QED
  BY <1>3, <1>4, <1>6 DEF N

\* FlattenSeq by its first clauses: nothing, and one more at the end.
LEMMA FlattenAppend ==
    ASSUME NEW T, NEW M \in Seq(Seq(T)), NEW m \in Seq(T)
    PROVE  /\ FlattenSeq(<< >>) = << >>
           /\ FlattenSeq(M) \in Seq(T)
           /\ FlattenSeq(Append(M, m)) = FlattenSeq(M) \o m
<1> DEFINE A == Append(M, m)
           N == Len(M)
<1>1. FlattenSeq(<< >>) = << >>
  BY EmptySeq DEF FlattenSeq
<1>2. /\ A \in Seq(Seq(T)) /\ A # << >> /\ Len(A) = N + 1
      /\ \A i \in 1..N : A[i] = M[i]
      /\ A[N+1] = m
  BY AppendProperties
<1>3. N \in Nat
  BY LenProperties
<1> HIDE DEF A
<1>4. PICK g \in [1..N+1 -> Seq(T)] :
         /\ g[1] = A[1]
         /\ \A i \in 2..N+1 : g[i] = g[i-1] \o A[i]
         /\ FlattenSeq(A) = g[N+1]
  <2>1. \E g \in [1..Len(A) -> Seq(T)] :
           /\ g[1] = A[1]
           /\ \A i \in 2..Len(A) : g[i] = g[i-1] \o A[i]
           /\ FlattenSeq(A) = g[Len(A)]
    BY <1>2, FlattenSteps
  <2>2. Len(A) = N + 1
    BY <1>2
  <2> QED
    BY <2>1, <2>2
<1>5. CASE M = << >>
  <2>1. N = 0
    BY <1>5, EmptySeq
  <2>2. FlattenSeq(A) = m
    BY <1>2, <1>4, <2>1
  <2>3. << >> \o m = m /\ << >> \in Seq(T)
    BY ConcatEmptySeq, EmptySeq
  <2> QED
    BY <1>1, <1>5, <2>2, <2>3 DEF A
<1>6. CASE M # << >>
  <2>1. PICK f \in [1..N -> Seq(T)] :
           /\ f[1] = M[1]
           /\ \A i \in 2..N : f[i] = f[i-1] \o M[i]
           /\ FlattenSeq(M) = f[N]
    BY <1>6, FlattenSteps
  <2>2. N # 0
    BY <1>6, EmptySeq
  <2> HIDE DEF N
  <2> DEFINE other == {i \in 1..N : f[i] # g[i]}
  <2>3. other = {}
    <3>1. SUFFICES ASSUME other # {} PROVE FALSE
      OBVIOUS
    <3> DEFINE k == Min(other)
    <3>2. other \in SUBSET Nat
      BY <1>3
    <3>3. k \in other /\ \A x \in other : k <= x
      BY <3>1, <3>2, MinIsLeast
    <3> HIDE DEF k
    <3>4. k \in 1..N /\ f[k] # g[k]
      BY <3>3
    <3>5. CASE k = 1
      BY <1>2, <1>4, <2>1, <3>4, <3>5
    <3>6. CASE k # 1
      <4>1. k \in 2..N /\ k \in 2..N+1 /\ k - 1 \in 1..N /\ ~(k <= k - 1)
        BY <1>3, <3>4, <3>6
      <4>2. f[k-1] = g[k-1]
        BY <3>3, <4>1
      <4>3. A[k] = M[k]
        BY <1>2, <3>4
      <4> QED
        BY <1>4, <2>1, <3>4, <4>1, <4>2, <4>3
    <3> QED
      BY <3>5, <3>6
  <2>4. N \in 1..N /\ N + 1 \in 2..N+1 /\ (N+1) - 1 = N
    BY <1>3, <2>2
  <2>5. f[N] = g[N] /\ g[N+1] = g[N] \o A[N+1] /\ f[N] \in Seq(T)
    <3>1. f[N] = g[N]
      BY <2>3, <2>4
    <3>2. g[N+1] = g[(N+1)-1] \o A[N+1]
      BY <1>4, <2>4
    <3>3. f[N] \in Seq(T)
      BY <2>4
    <3> QED
      BY <2>4, <3>1, <3>2, <3>3
  <2>6. FlattenSeq(A) = FlattenSeq(M) \o m
    BY <1>2, <1>4, <2>1, <2>5
  <2> QED
    BY <1>1, <2>1, <2>5, <2>6 DEF A
<1> QED
  BY <1>5, <1>6

(* What several queues in a row stand for is what each stands for, in a row. *)
LEMMA FlattenConcat ==
    ASSUME NEW T, NEW M \in Seq(Seq(T)), NEW N \in Seq(Seq(T))
    PROVE  FlattenSeq(M \o N) = FlattenSeq(M) \o FlattenSeq(N)
<1> DEFINE Fails(n) == \E K \in Seq(Seq(T)) : /\ Len(K) = n
                                             /\ FlattenSeq(M \o K) # FlattenSeq(M) \o FlattenSeq(K)
           failing  == {n \in Nat : Fails(n)}
<1>1. failing = {}
  <2>1. SUFFICES ASSUME failing # {} PROVE FALSE
    OBVIOUS
  <2> DEFINE n == Min(failing)
  <2>2. n \in failing /\ \A x \in failing : n <= x
    BY <2>1, MinIsLeast
  <2> HIDE DEF n
  <2>3. PICK K \in Seq(Seq(T)) : /\ Len(K) = n
                                 /\ FlattenSeq(M \o K) # FlattenSeq(M) \o FlattenSeq(K)
    BY <2>2
  <2>4. FlattenSeq(M) \in Seq(T) /\ << >> \in Seq(T)
    BY FlattenAppend, EmptySeq
  <2>5. CASE K = << >>
    <3>1. M \o << >> = M /\ FlattenSeq(M) \o << >> = FlattenSeq(M)
      BY <2>4, ConcatEmptySeq
    <3>2. FlattenSeq(<< >>) = << >>
      BY <2>4, FlattenAppend
    <3> QED
      BY <2>3, <2>5, <3>1, <3>2
  <2>6. CASE K # << >>
    <3>1. PICK L \in Seq(Seq(T)), l \in Seq(T) : K = Append(L, l)
      BY <2>6, SequenceEmptyOrAppend
    <3>2. Len(L) \in Nat /\ Len(K) = Len(L) + 1
      BY <3>1, AppendProperties, LenProperties
    <3>3. FlattenSeq(M \o L) = FlattenSeq(M) \o FlattenSeq(L)
      <4>1. Len(L) \notin failing
        <5>1. ~(n <= Len(L))
          BY <2>3, <3>2
        <5> HIDE DEF failing
        <5> QED
          BY <2>2, <5>1
      <4> QED
        BY <3>2, <4>1
    <3>4. M \o K = Append(M \o L, l)
      <4>1. /\ K = L \o <<l>> /\ Append(M \o L, l) = (M \o L) \o <<l>>
            /\ <<l>> \in Seq(Seq(T)) /\ M \o L \in Seq(Seq(T))
        BY <3>1, AppendIsConcat, ConcatProperties
      <4> QED
        BY <4>1, ConcatAssociative
    <3>5. FlattenSeq(M \o K) = (FlattenSeq(M) \o FlattenSeq(L)) \o l
      <4>1. M \o L \in Seq(Seq(T))
        BY ConcatProperties
      <4> QED
        BY <3>3, <3>4, <4>1, FlattenAppend
    <3>6. FlattenSeq(K) = FlattenSeq(L) \o l /\ FlattenSeq(L) \in Seq(T)
      BY <3>1, FlattenAppend
    <3>7. (FlattenSeq(M) \o FlattenSeq(L)) \o l = FlattenSeq(M) \o (FlattenSeq(L) \o l)
      BY <2>4, <3>6, ConcatAssociative
    <3> QED
      BY <2>3, <3>5, <3>6, <3>7
  <2> QED
    BY <2>5, <2>6
<1>2. Len(N) \in Nat
  BY LenProperties
<1> QED
  BY <1>1, <1>2

\* FlattenSeq of one sequence.
LEMMA FlattenOne ==
    ASSUME NEW T, NEW m \in Seq(T)
    PROVE  FlattenSeq(<<m>>) = m
<1>1. << >> \in Seq(Seq(T)) /\ Append(<< >>, m) = <<m>> /\ << >> \o m = m
  BY EmptySeq, ConcatEmptySeq
<1> QED
  BY <1>1, FlattenAppend

-----------------------------------------------------------------------------
(* What the elements of a queue stand for *)

\* F gives for each element of S a sequence, empty for those that do not count.
Reading(q, F) == FlattenSeq([i \in DOMAIN q |-> F[q[i]]])

Reads(F, S, W) == F \in [S -> Seq(W)]

\* A function on 1..n is a sequence of length n.
LEMMA FunctionIsSeq ==
    ASSUME NEW X, NEW n \in Nat, NEW f \in [1..n -> X]
    PROVE  f \in Seq(X) /\ Len(f) = n
<1> QED
  OBVIOUS

\* What is read off a queue of one element, and off none.
LEMMA ReadingOne ==
    ASSUME NEW S, NEW W, NEW F, Reads(F, S, W), NEW x \in S
    PROVE  Reading(<<x>>, F) = F[x] /\ Reading(<< >>, F) = << >>
<1>1. [i \in DOMAIN <<x>> |-> F[<<x>>[i]]] = <<F[x]>>
  <2> DEFINE s == [i \in DOMAIN <<x>> |-> F[<<x>>[i]]]
             t == <<F[x]>>
  <2>1. <<x>> \in Seq(S) /\ Len(<<x>>) = 1 /\ DOMAIN <<x>> = 1..1 /\ <<x>>[1] = x
    OBVIOUS
  <2>2. s \in [1..1 -> Seq(W)] /\ t \in [1..1 -> Seq(W)] /\ s[1] = t[1]
    BY <2>1 DEF Reads
  <2> HIDE DEF s, t
  <2>3. s = t
    BY <2>2
  <2> QED
    BY <2>3 DEF s, t
<1>2. Reading(<<x>>, F) = F[x]
  BY <1>1, FlattenOne DEF Reading, Reads
<1>3. [i \in DOMAIN << >> |-> F[<< >>[i]]] = << >>
  OBVIOUS
<1>4. << >> \in Seq(Seq(W)) /\ << >> \in Seq(W)
  BY EmptySeq
<1>5. Reading(<< >>, F) = << >>
  BY <1>3, <1>4, FlattenAppend DEF Reading
<1> QED
  BY <1>2, <1>5

\* What is read off two queues in a row.
LEMMA ReadingConcat ==
    ASSUME NEW S, NEW W, NEW F, Reads(F, S, W), NEW q \in Seq(S), NEW r \in Seq(S)
    PROVE  /\ Reading(q, F) \in Seq(W)
           /\ Reading(q \o r, F) = Reading(q, F) \o Reading(r, F)
<1> DEFINE u == q \o r
           a == [i \in DOMAIN q |-> F[q[i]]]
           b == [i \in DOMAIN r |-> F[r[i]]]
           c == [i \in DOMAIN u |-> F[u[i]]]
<1>1. /\ Len(q) \in Nat /\ DOMAIN q = 1..Len(q) /\ \A i \in DOMAIN q : q[i] \in S
      /\ Len(r) \in Nat /\ DOMAIN r = 1..Len(r) /\ \A i \in DOMAIN r : r[i] \in S
      /\ DOMAIN u = 1..Len(q)+Len(r) /\ \A i \in DOMAIN u : u[i] \in S
      /\ \A i \in DOMAIN u : u[i] = IF i <= Len(q) THEN q[i] ELSE r[i - Len(q)]
  <2>1. u \in Seq(S) /\ Len(u) = Len(q) + Len(r)
        /\ \A i \in 1..Len(q)+Len(r) : u[i] = IF i <= Len(q) THEN q[i] ELSE r[i - Len(q)]
    BY ConcatProperties
  <2> HIDE DEF u
  <2> QED
    BY <2>1, LenProperties, ElementOfSeq
<1> HIDE DEF u
<1>2. /\ a \in Seq(Seq(W)) /\ Len(a) = Len(q)
      /\ b \in Seq(Seq(W)) /\ Len(b) = Len(r)
      /\ c \in Seq(Seq(W)) /\ Len(c) = Len(q) + Len(r)
  <2>1. a \in [1..Len(q) -> Seq(W)] /\ b \in [1..Len(r) -> Seq(W)]
        /\ c \in [1..Len(q)+Len(r) -> Seq(W)]
    BY <1>1 DEF Reads
  <2> HIDE DEF a, b, c
  <2>2. Len(q) \in Nat /\ Len(r) \in Nat /\ Len(q) + Len(r) \in Nat
    BY <1>1
  <2>3. a \in Seq(Seq(W)) /\ Len(a) = Len(q)
    BY <2>1, <2>2, FunctionIsSeq
  <2>4. b \in Seq(Seq(W)) /\ Len(b) = Len(r)
    BY <2>1, <2>2, FunctionIsSeq
  <2>5. c \in Seq(Seq(W)) /\ Len(c) = Len(q) + Len(r)
    BY <2>1, <2>2, FunctionIsSeq
  <2> QED
    BY <2>3, <2>4, <2>5
<1>3. /\ \A i \in DOMAIN q : a[i] = F[q[i]]
      /\ \A i \in DOMAIN r : b[i] = F[r[i]]
      /\ \A i \in DOMAIN u : c[i] = F[u[i]]
  OBVIOUS
<1> HIDE DEF a, b, c
<1>4. c = a \o b
  <2> DEFINE d == a \o b
             m == Len(q)
             n == Len(r)
  <2>1. d \in Seq(Seq(W)) /\ Len(d) = m + n
        /\ \A i \in 1..m+n : d[i] = IF i <= m THEN a[i] ELSE b[i - m]
    <3>1. d \in Seq(Seq(W)) /\ Len(d) = Len(a) + Len(b)
          /\ \A i \in 1..Len(a)+Len(b) : d[i] = IF i <= Len(a) THEN a[i] ELSE b[i - Len(a)]
      <4>1. a \in Seq(Seq(W)) /\ b \in Seq(Seq(W))
        BY <1>2
      <4> QED
        BY <4>1, ConcatProperties
    <3>2. Len(a) = m /\ Len(b) = n
      BY <1>2
    <3> HIDE DEF d, m, n
    <3> QED
      BY <3>1, <3>2
  <2> HIDE DEF d, m, n
  <2>2. ASSUME NEW i \in 1..m+n
        PROVE  c[i] = d[i]
    <3>1. m \in Nat /\ n \in Nat /\ DOMAIN q = 1..m /\ DOMAIN r = 1..n /\ DOMAIN u = 1..m+n
          /\ u[i] = IF i <= m THEN q[i] ELSE r[i - m]
      BY <1>1 DEF m, n
    <3>2. CASE i <= m
      <4>1. i \in DOMAIN q /\ i \in DOMAIN u /\ u[i] = q[i]
        BY <3>1, <3>2
      <4> QED
        BY <1>3, <2>1, <3>2, <4>1
    <3>3. CASE ~(i <= m)
      <4>1. i - m \in DOMAIN r /\ i \in DOMAIN u /\ u[i] = r[i - m]
        BY <3>1, <3>3
      <4> QED
        BY <1>3, <2>1, <3>3, <4>1
    <3> QED
      BY <3>2, <3>3
  <2>3. Len(c) = m + n
    BY <1>2 DEF m, n
  <2>4. c = d
    BY <1>2, <2>1, <2>2, <2>3, SeqEqual
  <2> QED
    BY <2>4 DEF d
<1>5. FlattenSeq(c) = FlattenSeq(a) \o FlattenSeq(b)
  BY <1>2, <1>4, FlattenConcat
<1>6. FlattenSeq(a) \in Seq(W)
  <2>1. << >> \in Seq(W)
    BY EmptySeq
  <2> QED
    BY <1>2, <2>1, FlattenAppend
<1> QED
  BY <1>5, <1>6 DEF a, b, c, u, Reading

(* A queue is read element by element, from either end.                     *)
LEMMA ReadingEnds ==
    ASSUME NEW S, NEW W, NEW F, Reads(F, S, W), NEW q \in Seq(S)
    PROVE  /\ \A x \in S : Reading(Append(q, x), F) = Reading(q, F) \o F[x]
           /\ q # << >> => Reading(q, F) = F[Head(q)] \o Reading(Tail(q), F)
<1>1. ASSUME NEW x \in S
      PROVE  Reading(Append(q, x), F) = Reading(q, F) \o F[x]
  <2>1. Append(q, x) = q \o <<x>> /\ <<x>> \in Seq(S)
    BY AppendIsConcat
  <2>2. Reading(q \o <<x>>, F) = Reading(q, F) \o Reading(<<x>>, F)
    <3> DEFINE r == <<x>>
    <3>1. r \in Seq(S)
      BY <2>1
    <3> HIDE DEF r
    <3>2. Reading(q \o r, F) = Reading(q, F) \o Reading(r, F)
      BY <3>1, ReadingConcat
    <3> QED
      BY <3>2 DEF r
  <2>3. Reading(<<x>>, F) = F[x]
    BY ReadingOne
  <2> QED
    BY <2>1, <2>2, <2>3
<1>2. ASSUME q # << >>
      PROVE  Reading(q, F) = F[Head(q)] \o Reading(Tail(q), F)
  <2>1. Head(q) \in S /\ Tail(q) \in Seq(S) /\ Len(q) \in Nat /\ Len(q) # 0
    BY <1>2, HeadTailProperties, LenProperties, EmptySeq
  <2>2. q = <<Head(q)>> \o Tail(q)
    <3>1. 1 \in 1..Len(q) /\ Len(q) \in 1..Len(q)
      BY <2>1
    <3>2. SubSeq(q, 1, Len(q)) = <<q[1]>> \o SubSeq(q, 1+1, Len(q))
      BY <3>1, SubSeqRecursiveFirst
    <3>3. SubSeq(q, 1, Len(q)) = q /\ Tail(q) = SubSeq(q, 2, Len(q)) /\ Head(q) = q[1]
      BY <1>2, SubSeqFull, TailIsSubSeq
    <3> QED
      BY <3>2, <3>3
  <2>3. <<Head(q)>> \in Seq(S)
    BY <2>1
  <2>4. Reading(<<Head(q)>> \o Tail(q), F) = Reading(<<Head(q)>>, F) \o Reading(Tail(q), F)
    <3> DEFINE h == <<Head(q)>>
               r == Tail(q)
    <3>1. h \in Seq(S)
      BY <2>3
    <3>2. r \in Seq(S)
      BY <2>1
    <3> HIDE DEF h, r
    <3>3. Reading(h \o r, F) = Reading(h, F) \o Reading(r, F)
      BY <3>1, <3>2, ReadingConcat
    <3> QED
      BY <3>3 DEF h, r
  <2>5. Reading(<<Head(q)>>, F) = F[Head(q)]
    BY <2>1, ReadingOne
  <2> QED
    BY <2>2, <2>4, <2>5
<1> QED
  BY <1>1, <1>2

\* What is read off a queue of two elements.
LEMMA ReadingTwo ==
    ASSUME NEW S, NEW W, NEW F, Reads(F, S, W), NEW x \in S, NEW y \in S
    PROVE  Reading(<<x, y>>, F) = F[x] \o F[y]
<1> DEFINE q == <<x>>
           r == <<y>>
<1>1. q \in Seq(S) /\ r \in Seq(S)
  OBVIOUS
<1>2. q \o r = <<x, y>>
  <2> DEFINE t == <<x, y>>
  <2>1. t \in Seq(S) /\ Len(t) = 2 /\ t[1] = x /\ t[2] = y
    OBVIOUS
  <2>2. Len(q) = 1 /\ q[1] = x /\ Len(r) = 1 /\ r[1] = y
    OBVIOUS
  <2> HIDE DEF q, r, t
  <2>3. /\ q \o r \in Seq(S) /\ Len(q \o r) = 2
        /\ (q \o r)[1] = x /\ (q \o r)[2] = y
    BY <1>1, <2>2, ConcatProperties
  <2>4. \A i \in 1..2 : (q \o r)[i] = t[i]
    BY <2>1, <2>3
  <2>5. q \o r = t
    BY <2>1, <2>3, <2>4, SeqEqual
  <2> QED
    BY <2>5 DEF t
<1>3. Reading(q, F) = F[x]
  BY ReadingOne
<1>4. Reading(r, F) = F[y]
  BY ReadingOne
<1> HIDE DEF q, r
<1>5. Reading(q \o r, F) = Reading(q, F) \o Reading(r, F)
  BY <1>1, ReadingConcat
<1> QED
  BY <1>2, <1>3, <1>4, <1>5

\* A queue is read in parts as it is read in one.
LEMMA ReadingParts ==
    ASSUME NEW S, NEW W, NEW F, Reads(F, S, W), NEW q \in Seq(S), NEW n \in 1..Len(q)
    PROVE  /\ SubSeq(q, 1, n) \in Seq(S) /\ SubSeq(q, n + 1, Len(q)) \in Seq(S)
           /\ Reading(SubSeq(q, 1, n), F) \in Seq(W)
           /\ Reading(SubSeq(q, n + 1, Len(q)), F) \in Seq(W)
           /\ Reading(q, F) = Reading(SubSeq(q, 1, n), F) \o Reading(SubSeq(q, n + 1, Len(q)), F)
<1> DEFINE a == SubSeq(q, 1, n)
           b == SubSeq(q, n + 1, Len(q))
<1>1. Len(q) \in Nat
  BY LenProperties
<1>2. a \in Seq(S) /\ b \in Seq(S)
  BY <1>1, SubSeqProperties
<1>3. a \o b = q
  <2>1. a \o b = SubSeq(q, 1, Len(q))
    BY <1>1, ConcatAdjacentSubSeq
  <2> QED
    BY <2>1, SubSeqFull
<1> HIDE DEF a, b
<1>4. Reading(a \o b, F) = Reading(a, F) \o Reading(b, F)
  BY <1>2, ReadingConcat
<1>5. Reading(a, F) \in Seq(W)
  BY <1>2, ReadingConcat
<1>6. Reading(b, F) \in Seq(W)
  BY <1>2, ReadingConcat
<1> QED
  BY <1>2, <1>3, <1>4, <1>5, <1>6 DEF a, b

\* How many elements count.
LEMMA ReadingLengths ==
    ASSUME NEW S, NEW W, NEW F, Reads(F, S, W), NEW q \in Seq(S)
    PROVE  /\ Len(Reading(q, F)) \in Nat
           /\ \A x \in S : /\ Len(F[x]) \in Nat
                           /\ Len(Reading(Append(q, x), F)) = Len(Reading(q, F)) + Len(F[x])
           /\ q # << >> =>
                  Len(Reading(q, F)) = Len(F[Head(q)]) + Len(Reading(Tail(q), F))
           /\ \A n \in 1..Len(q) :
                  Len(Reading(q, F)) = Len(Reading(SubSeq(q, 1, n), F))
                                       + Len(Reading(SubSeq(q, n + 1, Len(q)), F))
<1>1. /\ Reading(q, F) \in Seq(W)
      /\ \A r \in Seq(S) : Reading(r, F) \in Seq(W)
      /\ \A x \in S : F[x] \in Seq(W)
  <2>1. \A r \in Seq(S) : Reading(r, F) \in Seq(W)
    BY ReadingConcat
  <2> QED
    BY <2>1 DEF Reads
<1>2. ASSUME NEW x \in S
      PROVE  /\ Len(F[x]) \in Nat
             /\ Len(Reading(Append(q, x), F)) = Len(Reading(q, F)) + Len(F[x])
  <2>1. Reading(Append(q, x), F) = Reading(q, F) \o F[x]
    BY ReadingEnds
  <2> QED
    BY <1>1, <2>1, ConcatProperties, LenProperties
<1>3. ASSUME q # << >>
      PROVE  Len(Reading(q, F)) = Len(F[Head(q)]) + Len(Reading(Tail(q), F))
  <2>1. Reading(q, F) = F[Head(q)] \o Reading(Tail(q), F)
    BY <1>3, ReadingEnds
  <2>2. Head(q) \in S /\ Tail(q) \in Seq(S)
    BY <1>3, HeadTailProperties
  <2> QED
    BY <1>1, <2>1, <2>2, ConcatProperties
<1>4. ASSUME NEW n \in 1..Len(q)
      PROVE  Len(Reading(q, F)) = Len(Reading(SubSeq(q, 1, n), F))
                                  + Len(Reading(SubSeq(q, n + 1, Len(q)), F))
  <2>1. /\ SubSeq(q, 1, n) \in Seq(S) /\ SubSeq(q, n + 1, Len(q)) \in Seq(S)
        /\ Reading(q, F) = Reading(SubSeq(q, 1, n), F) \o Reading(SubSeq(q, n + 1, Len(q)), F)
    BY ReadingParts
  <2> QED
    BY <1>1, <2>1, ConcatProperties
<1> QED
  BY <1>1, <1>2, <1>3, <1>4, LenProperties

-----------------------------------------------------------------------------
(* Elements *)

\* One more in front.
LEMMA InFront ==
    ASSUME NEW S, NEW x \in S, NEW a \in Seq(S)
    PROVE  /\ <<x>> \o a \in Seq(S) /\ Len(<<x>> \o a) = Len(a) + 1
           /\ DOMAIN (<<x>> \o a) = 1..Len(a)+1
           /\ (<<x>> \o a)[1] = x
           /\ \A k \in 1..Len(a) : (<<x>> \o a)[k+1] = a[k]
<1> DEFINE b == <<x>> \o a
           n == Len(a)
<1>1. n \in Nat /\ <<x>> \in Seq(S) /\ Len(<<x>>) = 1 /\ <<x>>[1] = x
  OBVIOUS
<1>2. b \in Seq(S) /\ Len(b) = Len(<<x>>) + n
      /\ \A k \in 1..Len(<<x>>) + n : b[k] = IF k <= Len(<<x>>) THEN <<x>>[k] ELSE a[k - Len(<<x>>)]
  BY <1>1, ConcatProperties
<1> HIDE DEF b
<1>3. Len(b) = n + 1 /\ \A k \in 1..n+1 : b[k] = IF k <= 1 THEN <<x>>[k] ELSE a[k-1]
  BY <1>1, <1>2
<1>4. b[1] = x
  BY <1>1, <1>3
<1>5. ASSUME NEW k \in 1..n
      PROVE  b[k+1] = a[k]
  <2>1. k + 1 \in 1..n+1 /\ ~(k + 1 <= 1) /\ (k + 1) - 1 = k
    BY <1>1
  <2> QED
    BY <1>3, <2>1
<1>6. DOMAIN b = 1..n+1
  <2>1. DOMAIN b = 1..Len(b)
    BY <1>2
  <2> QED
    BY <1>3, <2>1
<1> QED
  BY <1>2, <1>3, <1>4, <1>5, <1>6 DEF b, n

\* What is not empty has a first element.
LEMMA FirstAndRest ==
    ASSUME NEW S, NEW s \in Seq(S), s # << >>
    PROVE  \E x \in S, r \in Seq(S) : s = <<x>> \o r /\ Len(s) = Len(r) + 1
<1> DEFINE x == Head(s)
           r == Tail(s)
           t == <<x>> \o r
<1>1. Len(s) \in Nat \ {0} /\ \A i \in 1..Len(s) : s[i] \in S
  BY EmptySeq, ElementOfSeq
<1>2. /\ x \in S /\ x = s[1] /\ r \in Seq(S) /\ Len(r) = Len(s) - 1
      /\ \A i \in 1..Len(r) : r[i] = s[i+1]
  BY <1>1, HeadTailProperties
<1> HIDE DEF x, r
<1>3. /\ t \in Seq(S) /\ Len(t) = Len(r) + 1 /\ t[1] = x
      /\ \A k \in 1..Len(r) : t[k+1] = r[k]
  BY <1>2, InFront
<1> HIDE DEF t
<1>4. Len(t) = Len(s)
  BY <1>1, <1>2, <1>3
<1>5. ASSUME NEW i \in 1..Len(s)
      PROVE  s[i] = t[i]
  <2>1. CASE i = 1
    BY <1>2, <1>3, <2>1
  <2>2. CASE i # 1
    <3>1. i - 1 \in 1..Len(r) /\ (i - 1) + 1 = i
      BY <1>1, <1>2, <2>2
    <3> QED
      BY <1>2, <1>3, <3>1
  <2> QED
    BY <2>1, <2>2
<1>6. s = t
  BY <1>3, <1>4, <1>5, SeqEqual
<1> QED
  BY <1>2, <1>3, <1>6 DEF t

\* The elements of two sequences, one after the other.
LEMMA JoinedIs ==
    ASSUME NEW T, NEW u \in Seq(T), NEW v \in Seq(T)
    PROVE  /\ u \o v \in Seq(T) /\ Len(u \o v) = Len(u) + Len(v)
           /\ \A i \in 1..Len(u) : (u \o v)[i] = u[i]
           /\ \A i \in 1..Len(v) : (u \o v)[Len(u) + i] = v[i]
<1> DEFINE s == u \o v
           a == Len(u)
           b == Len(v)
<1>1. a \in Nat /\ b \in Nat
  OBVIOUS
<1>2. /\ s \in Seq(T) /\ Len(s) = a + b
      /\ \A i \in 1..a+b : s[i] = IF i <= a THEN u[i] ELSE v[i - a]
  BY ConcatProperties
<1> HIDE DEF s, a, b
<1>3. \A i \in 1..a : s[i] = u[i]
  BY <1>1, <1>2
<1>4. ASSUME NEW i \in 1..b
      PROVE  s[a + i] = v[i]
  <2>1. a + i \in 1..a+b /\ ~(a + i <= a) /\ (a + i) - a = i
    BY <1>1
  <2> QED
    BY <1>2, <2>1
<1> QED
  BY <1>2, <1>3, <1>4 DEF s, a, b

\* A part of a sequence.
LEMMA PartIs ==
    ASSUME NEW S, NEW s \in Seq(S), NEW a \in 1..Len(s)+1, NEW b \in a-1..Len(s)
    PROVE  /\ SubSeq(s, a, b) \in Seq(S) /\ Len(SubSeq(s, a, b)) = b - a + 1
           /\ \A k \in 1..b-a+1 : SubSeq(s, a, b)[k] = s[a+k-1]
<1> DEFINE c == SubSeq(s, a, b)
<1>1. Len(s) \in Nat /\ a \in Int /\ b \in Int /\ a >= 1 /\ b <= Len(s) /\ a - 1 <= b
  OBVIOUS
<1>2. \A k \in a..b : s[k] \in S
  BY <1>1, ElementOfSeq
<1>3. /\ c \in Seq(S) /\ Len(c) = IF a <= b THEN b - a + 1 ELSE 0
      /\ \A k \in 1..b-a+1 : c[k] = s[a+k-1]
  BY <1>1, <1>2, SubSeqProperties
<1> HIDE DEF c
<1>4. ~(a <= b) => b - a + 1 = 0
  BY <1>1
<1> QED
  BY <1>3, <1>4 DEF c
=============================================================================
