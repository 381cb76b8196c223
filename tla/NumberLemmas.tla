---------------------------- MODULE NumberLemmas ----------------------------
(***************************************************************************)
(* What the proofs need of numbers: powers of two, least elements,         *)
(* functions defined by recursion on a number, and properties that each    *)
(* number has from the one before.                                         *)
(***************************************************************************)
EXTENDS Integers, FiniteSetTheorems, WellFoundedInduction, TLAPS

\* Powers of two, from the number of subsets of a finite set.
LEMMA PowerOfTwo == ASSUME NEW n \in Nat PROVE 2 ^ n \in Nat \ {0}
  <1> DEFINE S == 1 .. n
  <1>1. IsFiniteSet(S) /\ Cardinality(S) = n
    BY FS_Interval
  <1>2. IsFiniteSet(SUBSET S) /\ Cardinality(SUBSET S) = 2 ^ n
    BY <1>1, FS_SUBSET
  <1>3. Cardinality(SUBSET S) \in Nat /\ Cardinality(SUBSET S) # 0
    BY <1>2, FS_CardinalityType, FS_EmptySet
  <1> QED
    BY <1>2, <1>3

\* A set of natural numbers has a least element.
LEMMA LeastNumber ==
    ASSUME NEW S \in SUBSET Nat, S # {}
    PROVE  \E x \in S : \A y \in S : x <= y
  <1> DEFINE R == OpToRel(<, Nat)
  <1>1. IsWellFoundedOn(R, Nat)
    BY NatLessThanWellFounded
  <1>2. \A x, y \in Nat : <<x, y>> \in R <=> x < y
    BY DEF OpToRel
  <1> HIDE DEF R
  <1>3. PICK x \in S : \A y \in S : <<y, x>> \notin R
    BY <1>1, WFMin
  <1>4. ASSUME NEW y \in S PROVE x <= y
    <2>1. x \in Nat /\ y \in Nat
      OBVIOUS
    <2>2. ~(y < x)
      BY <1>2, <1>3, <2>1
    <2> QED
      BY <2>1, <2>2
  <1> QED
    BY <1>4

Steps(step, N, S) == step \in [1 .. N -> [S -> S]]
Follows(f, step, a, N, S) ==
    /\ f \in [0 .. N -> S]
    /\ f[0] = a
    /\ \A n \in 1 .. N : f[n] = step[n][f[n - 1]]

\* A function on 0 .. N is given by its first value and by a step.
LEMMA Recursion ==
    ASSUME NEW S, NEW N \in Nat, NEW a \in S,
           NEW step, Steps(step, N, S)
    PROVE  \E f : Follows(f, step, a, N, S)
  <1> DEFINE Good(b) == \E f \in [0 .. b -> S] :
                           /\ f[0] = a
                           /\ \A n \in 1 .. b : f[n] = step[n][f[n - 1]]
             Bad == {b \in Nat : b <= N /\ ~Good(b)}
  <1>0. step \in [1 .. N -> [S -> S]]
    BY DEF Steps
  <1>1. Good(0)
    <2> DEFINE f == [i \in 0 .. 0 |-> a]
    <2>1. f \in [0 .. 0 -> S] /\ f[0] = a
      OBVIOUS
    <2>2. 1 .. 0 = {}
      OBVIOUS
    <2> HIDE DEF f
    <2> QED
      BY <2>1, <2>2
  <1>2. ASSUME NEW b \in Nat, b # 0, b <= N, Good(b - 1)
        PROVE  Good(b)
    <2>1. PICK f \in [0 .. b - 1 -> S] :
             /\ f[0] = a
             /\ \A n \in 1 .. b - 1 : f[n] = step[n][f[n - 1]]
      BY <1>2
    <2> DEFINE v == step[b][f[b - 1]]
               h == [i \in 0 .. b |-> IF i = b THEN v ELSE f[i]]
    <2>2. b - 1 \in 0 .. b - 1 /\ b \in 1 .. N /\ f[b - 1] \in S
      BY <1>2, <2>1
    <2>3. v \in S
      BY <1>0, <2>2
    <2> HIDE DEF v
    <2>4. h \in [0 .. b -> S]
      <3>1. \A i \in 0 .. b : i # b => i \in 0 .. b - 1
        BY <1>2
      <3> QED
        BY <2>1, <2>3, <3>1
    <2>5. h[0] = a
      BY <1>2, <2>1
    <2>6. ASSUME NEW n \in 1 .. b PROVE h[n] = step[n][h[n - 1]]
      <3>1. n - 1 \in 0 .. b /\ n - 1 # b /\ h[n - 1] = f[n - 1]
        BY <1>2, <2>6
      <3>2. CASE n = b
        BY <3>1, <3>2 DEF v
      <3>3. CASE n # b
        <4>1. n \in 1 .. b - 1 /\ n \in 0 .. b
          BY <1>2, <3>3
        <4> QED
          BY <2>1, <3>1, <3>3, <4>1
      <3> QED
        BY <3>2, <3>3
    <2> HIDE DEF h
    <2> QED
      BY <2>4, <2>5, <2>6
  <1> HIDE DEF Good
  <1>3. ASSUME Bad # {} PROVE FALSE
    <2>1. PICK b \in Bad : \A c \in Bad : b <= c
      BY <1>3, LeastNumber
    <2>2. b # 0 /\ b \in Nat /\ b <= N /\ ~Good(b)
      BY <1>1, <2>1
    <2>3. b - 1 \in Nat /\ b - 1 <= N /\ b - 1 < b
      BY <2>2
    <2>4. b - 1 \notin Bad
      BY <2>1, <2>2, <2>3
    <2> QED
      BY <1>2, <2>2, <2>3, <2>4
  <1>4. Good(N)
    BY <1>3
  <1> QED
    BY <1>4 DEF Good, Follows

\* A property of numbers that each has from the one before.
LEMMA Induction ==
    ASSUME NEW N \in Nat, NEW S, 0 \in S,
           \A n \in 1 .. N : n - 1 \in S => n \in S
    PROVE  0 .. N \subseteq S
  <1> DEFINE Bad == {b \in Nat : b <= N /\ b \notin S}
  <1>1. ASSUME Bad # {} PROVE FALSE
    <2>1. PICK b \in Bad : \A c \in Bad : b <= c
      BY <1>1, LeastNumber
    <2>2. b \in 1 .. N /\ b - 1 \in Nat /\ b - 1 <= N /\ b - 1 < b
      BY <2>1
    <2>3. b - 1 \in S
      BY <2>1, <2>2
    <2> QED
      BY <2>1, <2>2, <2>3
  <1> QED
    BY <1>1

\* What takes the steps from values of S stays in S.
DefinedOn(f, N) == f = [n \in 0 .. N |-> f[n]]
LEMMA StepsFollow ==
    ASSUME NEW S, NEW N \in Nat, NEW a \in S, NEW step, Steps(step, N, S),
           NEW f, DefinedOn(f, N), f[0] = a,
           \A n \in 1 .. N : f[n - 1] \in S => f[n] = step[n][f[n - 1]]
    PROVE  Follows(f, step, a, N, S)
  <1> DEFINE V == {n \in 0 .. N : f[n] \in S}
  <1>1. 0 \in V
    OBVIOUS
  <1>2. ASSUME NEW n \in 1 .. N, n - 1 \in V PROVE n \in V
    <2>1. f[n - 1] \in S /\ n \in 0 .. N
      BY <1>2
    <2>2. f[n] = step[n][f[n - 1]]
      BY <2>1
    <2>3. step[n] \in [S -> S]
      BY DEF Steps
    <2> QED
      BY <2>1, <2>2, <2>3
  <1>3. 0 .. N \subseteq V
    <2> HIDE DEF V
    <2> QED
      BY <1>1, <1>2, Induction
  <1>4. \A n \in 1 .. N : n - 1 \in 0 .. N
    OBVIOUS
  <1>5. \A n \in 0 .. N : f[n] \in S
    BY <1>3
  <1> QED
    BY <1>4, <1>5 DEF Follows, DefinedOn

Descends(next, stop, rank, D, N) ==
    /\ next \in [D -> D] /\ rank \in [D -> 0 .. N]
    /\ \A p \in D : p \notin stop => rank[next[p]] < rank[p]
Unfolds(f, base, next, stop, D, S) ==
    /\ f \in [D -> S]
    /\ \A p \in D : f[p] = IF p \in stop THEN base[p] ELSE f[next[p]]

\* A function that goes on with the next argument, of a lower rank, until it stops.
LEMMA TailRecursion ==
    ASSUME NEW D, NEW S, NEW N \in Nat, NEW stop, NEW base, base \in [D -> S],
           NEW next, NEW rank, Descends(next, stop, rank, D, N)
    PROVE  \E f : Unfolds(f, base, next, stop, D, S)
  <1> DEFINE T == [D -> S]
             once(h) == [p \in D |-> IF p \in stop THEN base[p] ELSE h[next[p]]]
             step == [k \in 1 .. N |-> [h \in T |-> once(h)]]
  <1>1. /\ next \in [D -> D] /\ rank \in [D -> 0 .. N]
        /\ \A p \in D : p \notin stop => rank[next[p]] < rank[p]
    BY DEF Descends
  <1>2. \A h \in T : once(h) \in T
    BY <1>1
  <1>3. Steps(step, N, T) /\ base \in T
    <2> HIDE DEF once
    <2> QED
      BY <1>2 DEF Steps
  <1>4. PICK G : Follows(G, step, base, N, T)
    <2> HIDE DEF step, T
    <2> QED
      BY <1>3, Recursion
  <1>5. /\ G \in [0 .. N -> T] /\ G[0] = base
        /\ \A k \in 1 .. N : G[k] = once(G[k - 1])
    <2>1. /\ G \in [0 .. N -> T] /\ G[0] = base
          /\ \A k \in 1 .. N : G[k] = step[k][G[k - 1]]
      BY <1>4 DEF Follows
    <2>2. \A k \in 1 .. N : k - 1 \in 0 .. N
      OBVIOUS
    <2> HIDE DEF T, once
    <2> QED
      BY <2>1, <2>2
  <1>6. \A k \in 1 .. N : \A p \in D :
          G[k][p] = IF p \in stop THEN base[p] ELSE G[k - 1][next[p]]
    <2> SUFFICES ASSUME NEW k \in 1 .. N, NEW p \in D
                 PROVE  G[k][p] = IF p \in stop THEN base[p] ELSE G[k - 1][next[p]]
      OBVIOUS
    <2>1. G[k] = once(G[k - 1])
      BY <1>5
    <2> QED
      BY <2>1, Zenon
  <1> HIDE DEF step, once
  \* What has a low rank stays from its rank on.
  <1> DEFINE Stays(k) == \A p \in D : rank[p] < k => G[k][p] = G[k - 1][p]
             V == {k \in 0 .. N : k > 0 => Stays(k)}
  <1>7. 0 \in V
    OBVIOUS
  <1>8. ASSUME NEW k \in 1 .. N, k - 1 \in V PROVE k \in V
    <2>1. ASSUME NEW p \in D, rank[p] < k PROVE G[k][p] = G[k - 1][p]
      <3>1. rank[p] \in Nat /\ rank[next[p]] \in Nat /\ next[p] \in D
        BY <1>1
      <3>2. CASE k = 1
        <4>1. p \in stop
          BY <1>1, <2>1, <3>1, <3>2
        <4>2. G[k][p] = base[p] /\ G[k - 1] = base
          BY <1>5, <1>6, <3>2, <4>1
        <4> QED
          BY <4>2
      <3>3. CASE k # 1
        <4>1. k - 1 \in 1 .. N /\ Stays(k - 1)
          BY <1>8, <3>3
        <4>2. CASE p \in stop
          BY <1>6, <4>1, <4>2
        <4>3. CASE p \notin stop
          <5>1. rank[next[p]] < k - 1
            BY <1>1, <2>1, <3>1, <4>3
          <5>2. G[k - 1][next[p]] = G[k - 1 - 1][next[p]]
            BY <3>1, <4>1, <5>1
          <5> QED
            BY <1>6, <4>1, <4>3, <5>2
        <4> QED
          BY <4>2, <4>3
      <3> QED
        BY <3>2, <3>3
    <2> QED
      BY <2>1
  <1>9. 0 .. N \subseteq V
    <2> HIDE DEF V
    <2> QED
      BY <1>7, <1>8, Induction
  <1>10. G[N] \in T
    BY <1>5
  <1>11. ASSUME NEW p \in D
         PROVE  G[N][p] = IF p \in stop THEN base[p] ELSE G[N][next[p]]
    <2>1. rank[p] \in 0 .. N /\ rank[next[p]] \in 0 .. N /\ next[p] \in D
      BY <1>1
    <2>2. CASE N = 0
      <3>1. p \in stop
        BY <1>1, <2>1, <2>2
      <3> QED
        BY <1>5, <2>2, <3>1
    <2>3. CASE N # 0
      <3>1. N \in 1 .. N /\ N > 0 /\ Stays(N)
        BY <1>9, <2>3
      <3>2. CASE p \in stop
        BY <1>6, <3>1, <3>2
      <3>3. CASE p \notin stop
        <4>1. rank[next[p]] < N
          BY <1>1, <2>1, <3>3
        <4> QED
          BY <1>6, <2>1, <3>1, <3>3, <4>1
      <3> QED
        BY <3>2, <3>3
    <2> QED
      BY <2>2, <2>3
  <1> QED
    BY <1>10, <1>11 DEF Unfolds

=============================================================================
