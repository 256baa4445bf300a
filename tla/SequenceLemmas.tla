--------------------------- MODULE SequenceLemmas ---------------------------
(***************************************************************************)
(* Induction over a finite range of numbers, and what it gives for the     *)
(* recursive functions and the permutations that the models use, stated    *)
(* with sets and functions in place of operators.                          *)
(***************************************************************************)
EXTENDS SequencesExt, SequenceTheorems, WellFoundedInduction, FiniteSetTheorems, TLAPS

(* A set of numbers has a least element. *)
LEMMA LeastElement ==
    ASSUME NEW T, T \subseteq Nat, T # {}
    PROVE  \E x \in T : \A y \in T : x <= y
  <1>1. PICK x \in T : \A y \in T : ~(<<y, x>> \in OpToRel(<, Nat))
    BY NatLessThanWellFounded, WFMin, Zenon
  <1>2. ASSUME NEW y \in T PROVE x <= y
    <2>1. y < x => <<y, x>> \in OpToRel(<, Nat)
      BY DEF OpToRel
    <2>2. ~(y < x)
      BY <1>1, <2>1
    <2> QED BY <2>2
  <1> QED BY <1>2

(* A set that has 0 and is closed under successor has all of 0..N. *)
LEMMA SetInduction ==
    ASSUME NEW N \in Nat, NEW T, 0 \in T, \A n \in 1..N : n - 1 \in T => n \in T
    PROVE  \A n \in 0..N : n \in T
  <1> DEFINE U == {n \in 0..N : n \notin T}
  <1> SUFFICES ASSUME U # {} PROVE FALSE
    OBVIOUS
  <1>1. U \subseteq Nat
    OBVIOUS
  <1>2. PICK x \in U : \A y \in U : x <= y
    BY <1>1, LeastElement
  <1>3. x \in 1..N
    OBVIOUS
  <1>4. x - 1 \in U
    BY <1>3
  <1> QED BY <1>2, <1>3, <1>4

(* Definition by recursion over 0..N: a function with step g exists. *)
Steps(N, S) == [(1..N) \X S -> S]

RecursionHas(N, S, a, g) ==
    \E f \in [0..N -> S] : f[0] = a /\ \A k \in 1..N : f[k] = g[<<k, f[k - 1]>>]

LEMMA RecursionExists ==
    ASSUME NEW N \in Nat, NEW S, NEW a \in S, NEW g \in Steps(N, S)
    PROVE  RecursionHas(N, S, a, g)
  <1> USE DEF Steps, RecursionHas
  <1> DEFINE Upto(n, f) == f[0] = a /\ \A k \in 1..n : f[k] = g[<<k, f[k - 1]>>]
             T == {n \in 0..N : \E f \in [0..n -> S] : Upto(n, f)}
  <1>1. 0 \in T
    <2> DEFINE f == [k \in 0..0 |-> a]
    <2>1. f \in [0..0 -> S] /\ f[0] = a
      OBVIOUS
    <2> HIDE DEF f
    <2>2. Upto(0, f)
      BY <2>1
    <2> QED BY <2>1, <2>2
  <1>2. ASSUME NEW n \in 1..N, n - 1 \in T PROVE n \in T
    <2>1. PICK f \in [0..(n - 1) -> S] : Upto(n - 1, f)
      BY <1>2
    <2> DEFINE h == [k \in 0..n |-> IF k = n THEN g[<<n, f[n - 1]>>] ELSE f[k]]
    <2>2. f[n - 1] \in S /\ g[<<n, f[n - 1]>>] \in S
      OBVIOUS
    <2>3. /\ h \in [0..n -> S] /\ h[n] = g[<<n, f[n - 1]>>]
          /\ \A k \in 0..(n - 1) : h[k] = f[k]
      BY <2>2
    <2> HIDE DEF h
    <2>4. Upto(n, h)
      <3>1. h[0] = a
        BY <2>1, <2>3
      <3>2. ASSUME NEW k \in 1..n PROVE h[k] = g[<<k, h[k - 1]>>]
        <4>1. k - 1 \in 0..(n - 1) /\ h[k - 1] = f[k - 1]
          BY <2>3
        <4>2. CASE k = n
          BY <2>3, <4>1, <4>2
        <4>3. CASE k # n
          <5>1. k \in 1..(n - 1)
            BY <4>3
          <5>2. h[k] = f[k] /\ f[k] = g[<<k, f[k - 1]>>]
            BY <2>1, <2>3, <5>1
          <5> QED BY <4>1, <5>2
        <4> QED BY <4>2, <4>3
      <3> QED BY <3>1, <3>2
    <2> QED BY <2>3, <2>4
  <1>3. N \in T
    <2> HIDE DEF T
    <2> QED BY <1>1, <1>2, SetInduction
  <1> QED BY <1>3

(* The sequences that SetToSeqs makes of a finite set have all of it. *)
LEMMA PermutationElements ==
    ASSUME NEW S, IsFiniteSet(S), NEW f \in SetToSeqs(S)
    PROVE  /\ f \in Seq(S)
           /\ \A x \in S : \E n \in 1..Len(f) : f[n] = x
  <1> DEFINE D == 1..Cardinality(S)
  <1>1. Cardinality(S) \in Nat
    BY FS_CardinalityType
  <1>2. f \in [D -> S] /\ \A i, j \in D : i # j => f[i] # f[j]
    BY DEF SetToSeqs
  <1>3. f \in Seq(S) /\ Len(f) = Cardinality(S)
    BY <1>1, <1>2
  <1>4. f \in Injection(D, S)
    BY <1>2 DEF Injection, IsInjective
  <1>5. Cardinality(D) = Cardinality(S)
    <2>1. 1 \in Int /\ Cardinality(S) \in Int
      BY <1>1
    <2>2. Cardinality(D) = IF 1 > Cardinality(S) THEN 0 ELSE Cardinality(S) - 1 + 1
      BY <2>1, FS_Interval
    <2> HIDE DEF D
    <2> QED BY <1>1, <2>2
  <1>6. f \in Surjection(D, S)
    BY <1>4, <1>5, FS_Injection, Zenon
  <1> QED BY <1>3, <1>6 DEF Surjection

(* t keeps what it has of s, and has lost e if s had it once. *)
Without(t, s, e) ==
    \E h \in [1..Len(t) -> 1..Len(s)] :
        /\ \A k \in 1..Len(t) : t[k] = s[h[k]]
        /\ \A k, l \in 1..Len(t) : h[k] = h[l] => k = l
        /\ (\A m, n \in 1..Len(s) : s[m] = e /\ s[n] = e => m = n) =>
              \A k \in 1..Len(t) : t[k] # e

(* RemoveFirst leaves what it does not remove. *)
LEMMA RemoveFirstElements ==
    ASSUME NEW S, NEW s \in Seq(S), NEW e \in S
    PROVE  RemoveFirst(s, e) \in Seq(S) /\ Without(RemoveFirst(s, e), s, e)
  <1> USE DEF Without
  <1> DEFINE t == RemoveFirst(s, e)
             I == {i \in 1..Len(s) : s[i] = e}
  <1>1. CASE ~\E i \in 1..Len(s) : s[i] = e
    <2>1. t = s
      BY <1>1 DEF RemoveFirst
    <2> DEFINE h == [k \in 1..Len(s) |-> k]
    <2>2. h \in [1..Len(t) -> 1..Len(s)] /\ \A k \in 1..Len(t) : h[k] = k
      BY <2>1
    <2> HIDE DEF h, t
    <2> QED BY <1>1, <2>1, <2>2 DEF t
  <1>2. CASE \E i \in 1..Len(s) : s[i] = e
    <2>1. I # {} /\ I \subseteq Nat
      BY <1>2
    <2>2. Min(I) \in I
      <3> HIDE DEF I
      <3>1. \E x \in I : \A y \in I : x <= y
        BY <2>1, LeastElement
      <3>2. Min(I) = CHOOSE z \in I : \A y \in I : z <= y
        BY DEF Min
      <3>3. (CHOOSE z \in I : \A y \in I : z <= y) \in I
        BY <3>1, Zenon
      <3> QED BY <3>2, <3>3, Zenon
    <2> DEFINE j == Min(I)
    <2>3. j \in 1..Len(s) /\ s[j] = e
      BY <2>2
    <2>4. SelectInSeq(s, LAMBDA v : v = e) = j
      BY <2>1 DEF SelectInSeq
    <2>5. t = RemoveAt(s, j)
      BY <1>2, <2>4 DEF RemoveFirst, SelectInSeq
    <2> HIDE DEF j
    <2> DEFINE u == SubSeq(s, 1, j - 1)
               v == SubSeq(s, j + 1, Len(s))
    <2>6. /\ u \in Seq(S) /\ Len(u) = j - 1 /\ \A k \in 1..j - 1 : u[k] = s[k]
          /\ v \in Seq(S) /\ Len(v) = Len(s) - j /\ \A k \in 1..Len(s) - j : v[k] = s[j + k]
      BY <2>3
    <2>7. t = u \o v
      BY <2>5 DEF RemoveAt
    <2> HIDE DEF u, v, t
    <2>8. /\ t \in Seq(S) /\ Len(t) = Len(s) - 1
          /\ \A k \in 1..Len(t) : t[k] = IF k < j THEN s[k] ELSE s[k + 1]
      <3>1. /\ t \in Seq(S) /\ Len(t) = Len(u) + Len(v) /\ Len(s) \in Nat
            /\ \A k \in 1..Len(u) + Len(v) : t[k] = IF k <= Len(u) THEN u[k]
                                                    ELSE v[k - Len(u)]
        <4>1. u \in Seq(S) /\ v \in Seq(S) /\ Len(s) \in Nat
          BY <2>6
        <4> QED BY <2>7, <4>1, ConcatProperties
      <3>2. Len(t) = Len(s) - 1 /\ j \in Nat
        BY <2>3, <2>6, <3>1
      <3>3. ASSUME NEW k \in 1..Len(t), k < j PROVE t[k] = s[k]
        <4>1. k \in 1..j - 1 /\ k <= Len(u) /\ k \in 1..Len(u) + Len(v)
          BY <2>6, <3>1, <3>2, <3>3
        <4> QED BY <2>6, <3>1, <4>1
      <3>4. ASSUME NEW k \in 1..Len(t), ~(k < j) PROVE t[k] = s[k + 1]
        <4>1. k - (j - 1) \in 1..Len(s) - j /\ j + (k - (j - 1)) = k + 1
          BY <3>2, <3>4
        <4>2. t[k] = v[k - (j - 1)]
          BY <2>6, <3>1, <3>2, <3>4
        <4> QED BY <2>6, <4>1, <4>2
      <3> QED BY <3>1, <3>2, <3>3, <3>4
    <2> DEFINE h == [k \in 1..Len(t) |-> IF k < j THEN k ELSE k + 1]
    <2>9. /\ h \in [1..Len(t) -> 1..Len(s)]
          /\ \A k \in 1..Len(t) : t[k] = s[h[k]] /\ h[k] # j
          /\ \A k, l \in 1..Len(t) : h[k] = h[l] => k = l
      <3>0. Len(s) \in Nat /\ Len(t) \in Nat /\ j \in Nat
        BY <2>3, <2>8
      <3>1. \A k \in 1..Len(t) : (IF k < j THEN k ELSE k + 1) \in 1..Len(s)
        BY <2>3, <2>8, <3>0
      <3>2. \A k \in 1..Len(t) : h[k] = IF k < j THEN k ELSE k + 1
        OBVIOUS
      <3>3. h \in [1..Len(t) -> 1..Len(s)]
        BY <3>1
      <3> HIDE DEF h
      <3>4. \A k \in 1..Len(t) : t[k] = s[h[k]] /\ h[k] # j
        BY <2>8, <3>0, <3>2
      <3>5. \A k, l \in 1..Len(t) : h[k] = h[l] => k = l
        BY <3>0, <3>2
      <3> QED BY <3>3, <3>4, <3>5
    <2> HIDE DEF h
    <2>10. (\A m, n \in 1..Len(s) : s[m] = e /\ s[n] = e => m = n) =>
              \A k \in 1..Len(t) : t[k] # e
      BY <2>3, <2>9
    <2> QED BY <2>8, <2>9, <2>10 DEF t
  <1> QED BY <1>1, <1>2

(* Element n of f is element j of part k, and follows those before it ...  *)
TakenFrom(f, n, ss, k, j) ==
    /\ f[n] = ss[k][j]
    /\ \A i \in 1..(j - 1) : \E m \in 1..(n - 1) : f[m] = ss[k][i]

(* ... and f is made of the first K parts of ss. *)
FlatOf(f, ss, K) ==
    /\ \A n \in 1..Len(f) : \E k \in 1..K : \E j \in 1..Len(ss[k]) : TakenFrom(f, n, ss, k, j)
    /\ \A k \in 1..K : \A j \in 1..Len(ss[k]) : \E n \in 1..Len(f) : f[n] = ss[k][j]

LEMMA FlatFirst ==
    ASSUME NEW S, NEW ss \in Seq(Seq(S)), Len(ss) # 0
    PROVE  FlatOf(ss[1], ss, 1)
  <1>1. ss[1] \in Seq(S) /\ Len(ss[1]) \in Nat
    OBVIOUS
  <1>2. ASSUME NEW n \in 1..Len(ss[1]) PROVE TakenFrom(ss[1], n, ss, 1, n)
    BY DEF TakenFrom
  <1> QED BY <1>1, <1>2 DEF FlatOf

LEMMA FlatNext ==
    ASSUME NEW S, NEW ss \in Seq(Seq(S)), NEW K \in 2..Len(ss),
           NEW f \in Seq(S), FlatOf(f, ss, K - 1)
    PROVE  FlatOf(f \o ss[K], ss, K)
  <1> DEFINE t == ss[K]
             u == f \o t
  <1>1. t \in Seq(S) /\ Len(f) \in Nat /\ Len(t) \in Nat
    OBVIOUS
  <1>2. /\ u \in Seq(S) /\ Len(u) = Len(f) + Len(t)
        /\ \A n \in 1..Len(f) : u[n] = f[n]
        /\ \A n \in 1..Len(t) : u[Len(f) + n] = t[n]
    BY <1>1
  <1> HIDE DEF u
  <1>3. ASSUME NEW n \in 1..Len(u)
        PROVE  \E k \in 1..K : \E j \in 1..Len(ss[k]) : TakenFrom(u, n, ss, k, j)
    <2>1. CASE n <= Len(f)
      <3>0. n \in 1..Len(f)
        BY <1>1, <2>1
      <3>a. PICK k \in 1..(K - 1) : \E j \in 1..Len(ss[k]) : TakenFrom(f, n, ss, k, j)
        BY <3>0 DEF FlatOf
      <3>1. PICK j \in 1..Len(ss[k]) : TakenFrom(f, n, ss, k, j)
        BY <3>a
      <3>2. u[n] = ss[k][j]
        BY <1>2, <3>0, <3>1 DEF TakenFrom
      <3>3. ASSUME NEW i \in 1..(j - 1) PROVE \E m \in 1..(n - 1) : u[m] = ss[k][i]
        <4>1. PICK m \in 1..(n - 1) : f[m] = ss[k][i]
          BY <3>1 DEF TakenFrom
        <4>2. m \in 1..Len(f)
          BY <1>1, <2>1
        <4> QED BY <1>2, <4>1, <4>2
      <3>4. TakenFrom(u, n, ss, k, j) /\ k \in 1..K
        BY <3>2, <3>3 DEF TakenFrom
      <3> QED BY <3>4
    <2>2. CASE n > Len(f)
      <3> DEFINE j == n - Len(f)
      <3>1. j \in 1..Len(t) /\ n = Len(f) + j
        BY <1>1, <1>2, <2>2
      <3> HIDE DEF j
      <3>2. u[n] = t[j]
        BY <1>2, <3>1
      <3>3. ASSUME NEW i \in 1..(j - 1) PROVE \E m \in 1..(n - 1) : u[m] = t[i]
        <4>1. i \in 1..Len(t) /\ Len(f) + i \in 1..(n - 1)
          BY <1>1, <3>1
        <4> QED BY <1>2, <4>1
      <3>4. TakenFrom(u, n, ss, K, j) /\ K \in 1..K
        BY <3>2, <3>3 DEF TakenFrom
      <3> QED BY <3>1, <3>4
    <2> QED BY <1>1, <2>1, <2>2
  <1>4. ASSUME NEW k \in 1..K, NEW j \in 1..Len(ss[k])
        PROVE  \E n \in 1..Len(u) : u[n] = ss[k][j]
    <2>1. CASE k = K
      <3>1. Len(f) + j \in 1..Len(u)
        BY <1>1, <1>2, <2>1
      <3> QED BY <1>2, <2>1, <3>1
    <2>2. CASE k # K
      <3>1. k \in 1..(K - 1)
        BY <2>2
      <3>2. PICK n \in 1..Len(f) : f[n] = ss[k][j]
        BY <3>1 DEF FlatOf
      <3>3. n \in 1..Len(u)
        BY <1>1, <1>2
      <3> QED BY <1>2, <3>2, <3>3
    <2> QED BY <2>1, <2>2
  <1> QED BY <1>3, <1>4 DEF FlatOf, u

(* FlattenSeq has the elements of its parts, each part in its order. *)
LEMMA FlattenElements ==
    ASSUME NEW S, NEW ss \in Seq(Seq(S))
    PROVE  FlattenSeq(ss) \in Seq(S) /\ FlatOf(FlattenSeq(ss), ss, Len(ss))
  <1> DEFINE N == Len(ss)
  <1>0. N \in Nat /\ \A k \in 1..N : ss[k] \in Seq(S)
    OBVIOUS
  <1>1. CASE N = 0
    <2>1. ss = <<>> /\ FlattenSeq(ss) = ss
      BY <1>1 DEF FlattenSeq
    <2>2. FlattenSeq(ss) = <<>> /\ <<>> \in Seq(S) /\ Len(<<>>) = 0
      BY <2>1, EmptySeq
    <2>3. FlatOf(<<>>, ss, N)
      BY <1>1, <2>2 DEF FlatOf
    <2> QED BY <2>2, <2>3
  <1>2. CASE N # 0
    <2> DEFINE Step(f, i) == IF i = 1 THEN ss[i] ELSE f[i - 1] \o ss[i]
               flatten == CHOOSE f : f = [i \in 1..N |-> Step(f, i)]
    <2>4. \E f : f = [i \in 1..N |-> Step(f, i)]
      <3> DEFINE g == [x \in (1..N) \X Seq(S) |->
                          IF x[1] = 1 THEN ss[1] ELSE x[2] \o ss[x[1]]]
      <3>1. g \in [(1..N) \X Seq(S) -> Seq(S)]
        <4>1. ASSUME NEW x \in (1..N) \X Seq(S)
              PROVE  (IF x[1] = 1 THEN ss[1] ELSE x[2] \o ss[x[1]]) \in Seq(S)
          BY <1>0
        <4> QED BY <4>1
      <3>2. \A k \in 1..N : \A y \in Seq(S) : g[<<k, y>>] = IF k = 1 THEN ss[1] ELSE y \o ss[k]
        OBVIOUS
      <3> HIDE DEF g
      <3> DEFINE Q == Seq(S)
                 z == <<>>
      <3>3. z \in Q /\ g \in Steps(N, Q)
        BY <3>1, EmptySeq DEF Steps
      <3> HIDE DEF N, Q, z
      <3>a. N \in Nat
        BY <1>0
      <3>b. RecursionHas(N, Q, z, g)
        BY <3>a, <3>3, RecursionExists
      <3>4. PICK h \in [0..N -> Q] :
                h[0] = z /\ \A k \in 1..N : h[k] = g[<<k, h[k - 1]>>]
        BY <3>b DEF RecursionHas
      <3>5. \A k \in 1..N : h[k] = IF k = 1 THEN ss[1] ELSE h[k - 1] \o ss[k]
        <4>1. \A k \in 1..N : k - 1 \in 0..N /\ h[k - 1] \in Seq(S)
          BY <1>0, <3>4 DEF Q
        <4> QED BY <3>2, <3>4, <4>1
      <3> DEFINE f == [i \in 1..N |-> h[i]]
      <3>6. \A i \in 1..N : f[i] = Step(f, i)
        BY <1>0, <3>5
      <3>7. f = [i \in 1..N |-> Step(f, i)]
        BY <3>6
      <3> QED BY <3>7 DEF N
    <2>5. flatten = [i \in 1..N |-> Step(flatten, i)]
      BY <2>4, Zenon
    <2>6. FlattenSeq(ss) = flatten[N]
      BY <1>2 DEF FlattenSeq
    <2>7. \A k \in 1..N : flatten[k] = IF k = 1 THEN ss[k] ELSE flatten[k - 1] \o ss[k]
      BY <2>5
    <2> HIDE DEF flatten
    <2> DEFINE T == {0} \cup {K \in 1..N : flatten[K] \in Seq(S) /\ FlatOf(flatten[K], ss, K)}
    <2>8. ASSUME NEW K \in 1..N, K - 1 \in T PROVE K \in T
      <3>1. CASE K = 1
        BY <1>0, <1>2, <2>7, <3>1, FlatFirst
      <3>2. CASE K # 1
        <4>1. /\ K - 1 \in 1..N /\ K \in 2..N
              /\ flatten[K - 1] \in Seq(S) /\ FlatOf(flatten[K - 1], ss, K - 1)
          BY <2>8, <3>2
        <4>2. FlatOf(flatten[K - 1] \o ss[K], ss, K)
          BY <4>1, FlatNext
        <4>3. flatten[K] = flatten[K - 1] \o ss[K]
          BY <2>7, <3>2
        <4>4. flatten[K] \in Seq(S)
          BY <1>0, <4>1, <4>3
        <4>5. FlatOf(flatten[K], ss, K)
          BY <4>2, <4>3, Zenon
        <4> QED BY <4>4, <4>5
      <3> QED BY <3>1, <3>2
    <2>9. N \in T
      <3>1. 0 \in T
        OBVIOUS
      <3> HIDE DEF T, N
      <3>2. \A n \in 0..N : n \in T
        BY <1>0, <2>8, <3>1, SetInduction
      <3> QED BY <1>0, <3>2
    <2> QED BY <1>2, <2>6, <2>9
  <1> QED BY <1>1, <1>2

=============================================================================
