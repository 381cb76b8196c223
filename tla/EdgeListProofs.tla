--------------------------- MODULE EdgeListProofs ---------------------------
(***************************************************************************)
(* Proofs about EdgeList, for any keys, any number of slots and branches,  *)
(* any sizes of the arrays and any level at which the chain begins: the    *)
(* arrays of the chain are packed, and each reader returns every edge that *)
(* a search finds once.                                                    *)
(***************************************************************************)
EXTENDS EdgeList, NumberLemmas, FiniteSetTheorems, FunctionTheorems,
        SequenceTheorems, TLAPS

-----------------------------------------------------------------------------
(* The children of a node.                                                 *)

LEMMA NumBranchType == NUM_BRANCH \in Nat \ {0}
  BY PowerOfTwo, EdgeListAssumption DEF NUM_BRANCH

\* index_branch yields one of the NUM_BRANCH children.
LEMMA BranchInRange ==
    ASSUME NEW x \in Nat, NEW lv \in Nat
    PROVE  Branch(x, lv) \in 0 .. NUM_BRANCH - 1
  <1>1. lv * BRANCH_BITS \in Nat
    BY EdgeListAssumption
  <1>2. 2 ^ (lv * BRANCH_BITS) \in Nat \ {0}
    BY <1>1, PowerOfTwo
  <1>3. x \div 2 ^ (lv * BRANCH_BITS) \in Nat
    BY <1>2
  <1> QED
    BY <1>3, NumBranchType DEF Branch, NUM_BRANCH

-----------------------------------------------------------------------------
(* Sequences.                                                              *)

Elements(q) == {q[j] : j \in 1 .. Len(q)}
Distinct(q) == \A i, j \in 1 .. Len(q) : q[i] = q[j] => i = j

LEMMA Appended ==
    ASSUME NEW S, NEW s \in Seq(S), NEW t \in Seq(S)
    PROVE  /\ Elements(s \o t) = Elements(s) \cup Elements(t)
           /\ Distinct(s) /\ Distinct(t) /\ Elements(s) \cap Elements(t) = {}
                 => Distinct(s \o t)
  <1>1. Len(s) \in Nat /\ Len(t) \in Nat
    OBVIOUS
  <1>2. /\ Len(s \o t) = Len(s) + Len(t)
        /\ \A i \in 1 .. Len(s) + Len(t) :
              (s \o t)[i] = IF i <= Len(s) THEN s[i] ELSE t[i - Len(s)]
    BY ConcatProperties
  <1> DEFINE u == s \o t
  <1> HIDE DEF u
  <1>3. /\ \A i \in 1 .. Len(s) : i \in 1 .. Len(u) /\ u[i] = s[i]
        /\ \A i \in 1 .. Len(t) :
              i + Len(s) \in 1 .. Len(u) /\ u[i + Len(s)] = t[i]
    BY <1>1, <1>2 DEF u
  <1>4. \A i \in 1 .. Len(u) :
           \/ i \in 1 .. Len(s) /\ u[i] = s[i]
           \/ i - Len(s) \in 1 .. Len(t) /\ u[i] = t[i - Len(s)]
    BY <1>1, <1>2 DEF u
  <1>5. Elements(u) = Elements(s) \cup Elements(t)
    <2>1. \A x \in Elements(u) : x \in Elements(s) \cup Elements(t)
      BY <1>4 DEF Elements
    <2>2. \A x \in Elements(s) \cup Elements(t) : x \in Elements(u)
      BY <1>3 DEF Elements
    <2> QED
      BY <2>1, <2>2
  <1>6. ASSUME Distinct(s), Distinct(t), Elements(s) \cap Elements(t) = {},
               NEW i \in 1 .. Len(u), NEW j \in 1 .. Len(u), u[i] = u[j]
        PROVE  i = j
    <2>1. CASE i \in 1 .. Len(s) /\ u[i] = s[i]
      <3>1. ~(j - Len(s) \in 1 .. Len(t) /\ u[j] = t[j - Len(s)])
        BY <1>6, <2>1 DEF Elements
      <3>2. j \in 1 .. Len(s) /\ u[j] = s[j]
        BY <1>4, <3>1
      <3> QED
        BY <1>6, <2>1, <3>2 DEF Distinct
    <2>2. CASE i - Len(s) \in 1 .. Len(t) /\ u[i] = t[i - Len(s)]
      <3>1. ~(j \in 1 .. Len(s) /\ u[j] = s[j])
        BY <1>6, <2>2 DEF Elements
      <3>2. j - Len(s) \in 1 .. Len(t) /\ u[j] = t[j - Len(s)]
        BY <1>4, <3>1
      <3>3. i - Len(s) = j - Len(s)
        BY <1>6, <2>2, <3>2 DEF Distinct
      <3> QED
        BY <1>1, <1>2, <3>3
    <2> QED
      BY <1>4, <2>1, <2>2
  <1> QED
    BY <1>5, <1>6 DEF u, Distinct

\* f[n] is the first n sequences of ss in one.
Flattens(f, ss, S) ==
    /\ f \in [0 .. Len(ss) -> Seq(S)]
    /\ f[0] = <<>>
    /\ \A n \in 1 .. Len(ss) : f[n] = f[n - 1] \o ss[n]

LEMMA FlattenRuns ==
    ASSUME NEW S, NEW ss \in Seq(Seq(S))
    PROVE  \E f : Flattens(f, ss, S) /\ FlattenSeq(ss) = f[Len(ss)]
  <1> DEFINE N == Len(ss)
  <1>1. N \in Nat /\ <<>> \in Seq(S) /\ \A n \in 1 .. N : ss[n] \in Seq(S)
    OBVIOUS
  <1>2. CASE N = 0
    <2> DEFINE f == [n \in 0 .. 0 |-> <<>>]
    <2>1. ss = <<>> /\ FlattenSeq(ss) = <<>>
      BY <1>2 DEF FlattenSeq
    <2>2. f \in [0 .. 0 -> Seq(S)] /\ f[0] = <<>> /\ 1 .. 0 = {}
      BY <1>1
    <2> HIDE DEF f
    <2> QED
      BY <1>2, <2>1, <2>2 DEF Flattens
  <1>3. CASE N # 0
    <2> DEFINE step == [n \in 1 .. N |-> [q \in Seq(S) |-> q \o ss[n]]]
               Eqn(g) == g = [n \in 1 .. N |->
                                IF n = 1 THEN ss[n] ELSE g[n - 1] \o ss[n]]
               flatten == CHOOSE g : Eqn(g)
               T == Seq(S)
    <2>1. Steps(step, N, T)
      BY <1>1 DEF Steps
    <2>2. PICK h : Follows(h, step, <<>>, N, T)
      <3> HIDE DEF step, T, N
      <3>1. <<>> \in T
        BY <1>1 DEF T
      <3> QED
        BY <1>1, <2>1, <3>1, Recursion
    <2>3. /\ h \in [0 .. N -> Seq(S)]
          /\ h[0] = <<>>
          /\ \A n \in 1 .. N : h[n] = step[n][h[n - 1]]
      BY <2>2 DEF Follows
    <2>4. \A n \in 1 .. N : n - 1 \in 0 .. N /\ h[n] = h[n - 1] \o ss[n]
      <3> TAKE n \in 1 .. N
      <3>1. n - 1 \in 0 .. N
        BY <1>1
      <3>2. h[n - 1] \in Seq(S)
        BY <2>3, <3>1
      <3>3. h[n] = step[n][h[n - 1]]
        BY <2>3
      <3> QED
        BY <3>1, <3>2, <3>3
    <2> HIDE DEF step
    <2>5. h[1] = ss[1] /\ 1 \in 1 .. N
      <3>1. 1 \in 1 .. N /\ 1 - 1 = 0
        BY <1>1, <1>3
      <3>2. h[1] = <<>> \o ss[1] /\ ss[1] \in Seq(S)
        BY <1>1, <2>3, <2>4, <3>1
      <3> QED
        BY <3>1, <3>2, ConcatEmptySeq
    <2>6. \E g : Eqn(g)
      <3> DEFINE g == [n \in 1 .. N |-> h[n]]
      <3>1. \A n \in 1 .. N :
               h[n] = IF n = 1 THEN ss[n] ELSE g[n - 1] \o ss[n]
        <4> TAKE n \in 1 .. N
        <4>1. CASE n = 1
          BY <2>5, <4>1
        <4>2. CASE n # 1
          <5>1. n - 1 \in 1 .. N
            BY <1>1, <4>2
          <5>2. g[n - 1] = h[n - 1]
            BY <5>1
          <5> QED
            BY <2>4, <4>2, <5>2
        <4> QED
          BY <4>1, <4>2
      <3>2. g = [n \in 1 .. N |->
                   IF n = 1 THEN ss[n] ELSE g[n - 1] \o ss[n]]
        <4> DEFINE F(n) == IF n = 1 THEN ss[n] ELSE g[n - 1] \o ss[n]
        <4>1. \A n \in 1 .. N : h[n] = F(n)
          BY <3>1
        <4> HIDE DEF F
        <4>2. g = [n \in 1 .. N |-> F(n)]
          BY <4>1
        <4> QED
          BY <4>2 DEF F
      <3> QED
        BY <3>2
    <2>7. Eqn(flatten)
      <3> HIDE DEF Eqn
      <3> QED
        BY <2>6
    <2>8. FlattenSeq(ss) = flatten[N]
      BY <1>3 DEF FlattenSeq
    <2> HIDE DEF flatten
    <2>9. \A n \in 1 .. N :
             flatten[n] = IF n = 1 THEN ss[n] ELSE flatten[n - 1] \o ss[n]
      BY <2>7, Zenon
    <2> DEFINE U == {n \in 0 .. N : n # 0 => flatten[n] = h[n]}
    <2>10. 0 \in U
      BY <1>1
    <2>11. \A n \in 1 .. N : n - 1 \in U => n \in U
      <3> SUFFICES ASSUME NEW n \in 1 .. N, n - 1 \in U
                   PROVE  flatten[n] = h[n]
        BY <1>1
      <3>1. CASE n = 1
        BY <2>5, <2>9, <3>1
      <3>2. CASE n # 1
        <4>1. n - 1 # 0
          BY <1>1, <3>2
        <4>2. flatten[n - 1] = h[n - 1]
          BY <4>1
        <4>3. flatten[n] = flatten[n - 1] \o ss[n]
          BY <2>9, <3>2
        <4>4. h[n] = h[n - 1] \o ss[n]
          BY <2>4
        <4> QED
          BY <4>2, <4>3, <4>4
      <3> QED
        BY <3>1, <3>2
    <2>12. N \in U
      <3> HIDE DEF U
      <3>1. 0 .. N \subseteq U
        BY <1>1, <2>10, <2>11, Induction
      <3> QED
        BY <1>1, <3>1
    <2>13. FlattenSeq(ss) = h[N]
      BY <1>3, <2>8, <2>12
    <2>14. Flattens(h, ss, S)
      BY <2>3, <2>4 DEF Flattens
    <2> QED
      BY <2>13, <2>14
  <1> QED
    BY <1>2, <1>3

\* Sequences that begin alike are flattened alike.
LEMMA FlattensAgree ==
    ASSUME NEW S, NEW ss \in Seq(Seq(S)), NEW tt \in Seq(Seq(S)),
           NEW f, Flattens(f, ss, S), NEW g, Flattens(g, tt, S),
           NEW n \in Nat, n <= Len(ss), n <= Len(tt),
           \A i \in 1 .. n : ss[i] = tt[i]
    PROVE  f[n] = g[n]
  <1> DEFINE U == {i \in 0 .. n : f[i] = g[i]}
  <1>1. Len(ss) \in Nat /\ Len(tt) \in Nat
    OBVIOUS
  <1>2. 0 \in U
    BY DEF Flattens
  <1>3. \A i \in 1 .. n : i - 1 \in U => i \in U
    <2> SUFFICES ASSUME NEW i \in 1 .. n, f[i - 1] = g[i - 1]
                 PROVE  f[i] = g[i] /\ i \in 0 .. n
      OBVIOUS
    <2>1. i \in 1 .. Len(ss) /\ i \in 1 .. Len(tt) /\ i \in 0 .. n
      BY <1>1
    <2> QED
      BY <2>1 DEF Flattens
  <1>4. n \in U
    <2> HIDE DEF U
    <2>1. 0 .. n \subseteq U
      BY <1>2, <1>3, Induction
    <2> QED
      BY <2>1
  <1> QED
    BY <1>4

LEMMA FlattenType ==
    ASSUME NEW S, NEW ss \in Seq(Seq(S))
    PROVE  FlattenSeq(ss) \in Seq(S)
  <1>1. PICK f : Flattens(f, ss, S) /\ FlattenSeq(ss) = f[Len(ss)]
    BY FlattenRuns
  <1>2. Len(ss) \in 0 .. Len(ss)
    OBVIOUS
  <1> QED
    BY <1>1, <1>2 DEF Flattens

LEMMA FlattenEmpty == FlattenSeq(<<>>) = <<>>
  BY DEF FlattenSeq

\* One more sequence comes behind the others.
LEMMA FlattenAppend ==
    ASSUME NEW S, NEW ss \in Seq(Seq(S)), NEW s \in Seq(S)
    PROVE  FlattenSeq(Append(ss, s)) = FlattenSeq(ss) \o s
  <1> DEFINE tt == Append(ss, s)
             N == Len(ss)
  <1>1. /\ tt \in Seq(Seq(S)) /\ Len(tt) = N + 1 /\ N \in Nat
        /\ tt[N + 1] = s
        /\ \A i \in 1 .. N : tt[i] = ss[i]
    OBVIOUS
  <1> HIDE DEF tt
  <1>2. PICK f : Flattens(f, ss, S) /\ FlattenSeq(ss) = f[Len(ss)]
    BY FlattenRuns
  <1>3. PICK g : Flattens(g, tt, S) /\ FlattenSeq(tt) = g[Len(tt)]
    BY <1>1, FlattenRuns
  <1>4. N <= Len(ss) /\ N <= Len(tt)
    BY <1>1
  <1>5. f[N] = g[N]
    <2> HIDE DEF N
    <2> QED
      BY <1>1, <1>2, <1>3, <1>4, FlattensAgree
  <1>6. g[N + 1] = g[N] \o tt[N + 1]
    <2> DEFINE m == N + 1
    <2>1. m \in 1 .. Len(tt) /\ m - 1 = N
      BY <1>1
    <2> HIDE DEF m
    <2>2. g[m] = g[m - 1] \o tt[m]
      BY <1>3, <2>1 DEF Flattens
    <2> QED
      BY <2>1, <2>2 DEF m
  <1> QED
    BY <1>1, <1>2, <1>3, <1>5, <1>6 DEF tt

LEMMA ConcatLonger ==
    ASSUME NEW S, NEW s \in Seq(S), NEW t \in Seq(S), NEW x \in S
    PROVE  s \o Append(t, x) = Append(s \o t, x)
  <1> DEFINE a == s \o Append(t, x)
             b == Append(s \o t, x)
  <1>1. Len(s) \in Nat /\ Len(t) \in Nat
    OBVIOUS
  <1>2. a \in Seq(S) /\ b \in Seq(S)
        /\ Len(a) = Len(s) + Len(t) + 1 /\ Len(b) = Len(s) + Len(t) + 1
    OBVIOUS
  <1>3. \A i \in 1 .. Len(s) + Len(t) + 1 : a[i] = b[i]
    OBVIOUS
  <1> HIDE DEF a, b
  <1>4. a = b
    BY <1>2, <1>3, SeqEqual
  <1> QED
    BY <1>4 DEF a, b

\* One more element in the last sequence is one more at the end.
LEMMA FlattenLonger ==
    ASSUME NEW S, NEW ss \in Seq(Seq(S)), NEW tt \in Seq(Seq(S)), NEW x \in S,
           Len(ss) # 0, Len(tt) = Len(ss),
           \A i \in 1 .. Len(ss) - 1 : tt[i] = ss[i],
           tt[Len(ss)] = Append(ss[Len(ss)], x)
    PROVE  FlattenSeq(tt) = Append(FlattenSeq(ss), x)
  <1> DEFINE N == Len(ss)
  <1>1. N \in Nat \ {0} /\ N - 1 \in Nat /\ N - 1 <= Len(ss) /\ N - 1 <= Len(tt)
        /\ ss[N] \in Seq(S) /\ N \in 1 .. Len(ss) /\ N \in 1 .. Len(tt)
        /\ N - 1 \in 0 .. N
    OBVIOUS
  <1>2. PICK f : Flattens(f, ss, S) /\ FlattenSeq(ss) = f[Len(ss)]
    BY FlattenRuns
  <1>3. PICK g : Flattens(g, tt, S) /\ FlattenSeq(tt) = g[Len(tt)]
    BY FlattenRuns
  <1>4. f[N - 1] = g[N - 1]
    <2> DEFINE m == N - 1
    <2>1. m \in Nat /\ m <= Len(ss) /\ m <= Len(tt)
          /\ \A i \in 1 .. m : ss[i] = tt[i]
      BY <1>1
    <2> HIDE DEF m
    <2>2. f[m] = g[m]
      BY <1>2, <1>3, <2>1, FlattensAgree
    <2> QED
      BY <2>2 DEF m
  <1>5. f[N] = f[N - 1] \o ss[N] /\ g[N] = g[N - 1] \o tt[N]
        /\ f[N - 1] \in Seq(S)
    BY <1>1, <1>2, <1>3 DEF Flattens
  <1>6. f[N - 1] \o Append(ss[N], x) = Append(f[N - 1] \o ss[N], x)
    <2> DEFINE a == f[N - 1]
               b == ss[N]
    <2>1. a \in Seq(S) /\ b \in Seq(S)
      BY <1>1, <1>5
    <2> HIDE DEF a, b
    <2>2. a \o Append(b, x) = Append(a \o b, x)
      BY <2>1, ConcatLonger, SMTT(60)
    <2> QED
      BY <2>2 DEF a, b
  <1> QED
    BY <1>2, <1>3, <1>4, <1>5, <1>6

\* The elements of sequences flattened are the elements of all of them.
LEMMA FlattenElements ==
    ASSUME NEW S, NEW ss \in Seq(Seq(S))
    PROVE  /\ Elements(FlattenSeq(ss)) = UNION {Elements(ss[i]) : i \in 1 .. Len(ss)}
           /\ /\ \A i \in 1 .. Len(ss) : Distinct(ss[i])
              /\ \A i, j \in 1 .. Len(ss) :
                    i # j => Elements(ss[i]) \cap Elements(ss[j]) = {}
              => Distinct(FlattenSeq(ss))
  <1> DEFINE N == Len(ss)
             First(n) == UNION {Elements(ss[i]) : i \in 1 .. n}
             Apart == /\ \A i \in 1 .. Len(ss) : Distinct(ss[i])
                      /\ \A i, j \in 1 .. Len(ss) :
                            i # j => Elements(ss[i]) \cap Elements(ss[j]) = {}
  <1>1. PICK f : Flattens(f, ss, S) /\ FlattenSeq(ss) = f[Len(ss)]
    BY FlattenRuns
  <1>2. N \in Nat
    OBVIOUS
  <1> DEFINE U == {n \in 0 .. N : /\ Elements(f[n]) = First(n)
                                  /\ Apart => Distinct(f[n])}
  <1>3. 0 \in U
    <2>1. f[0] = <<>> /\ First(0) = {} /\ 0 \in 0 .. N
      BY <1>1, <1>2 DEF Flattens
    <2>2. Elements(<<>>) = {} /\ Distinct(<<>>)
      BY DEF Elements, Distinct
    <2> QED
      BY <2>1, <2>2
  <1>4. \A n \in 1 .. N : n - 1 \in U => n \in U
    <2> SUFFICES ASSUME NEW n \in 1 .. N, n - 1 \in U
                 PROVE  n \in U
      OBVIOUS
    <2>1. /\ n - 1 \in 0 .. N /\ n \in 0 .. N
          /\ f[n - 1] \in Seq(S) /\ ss[n] \in Seq(S)
          /\ f[n] = f[n - 1] \o ss[n]
      <3>1. n - 1 \in 0 .. N /\ n \in 0 .. N
        BY <1>2
      <3>2. ss[n] \in Seq(S)
        OBVIOUS
      <3>3. f[n] = f[n - 1] \o ss[n]
        BY <1>1 DEF Flattens
      <3>4. f[n - 1] \in Seq(S)
        BY <1>1, <3>1 DEF Flattens
      <3> QED
        BY <3>1, <3>2, <3>3, <3>4
    <2>2. First(n) = First(n - 1) \cup Elements(ss[n])
      <3>1. \A i \in 1 .. n : i = n \/ i \in 1 .. n - 1
        BY <1>2
      <3>2. n \in 1 .. n /\ \A i \in 1 .. n - 1 : i \in 1 .. n
        BY <1>2
      <3> QED
        BY <3>1, <3>2
    <2>3. Apart => Distinct(ss[n]) /\ First(n - 1) \cap Elements(ss[n]) = {}
      <3> SUFFICES ASSUME Apart PROVE Distinct(ss[n]) /\ First(n - 1) \cap Elements(ss[n]) = {}
        OBVIOUS
      <3>1. \A i \in 1 .. n - 1 : i \in 1 .. Len(ss) /\ i # n
        BY <1>2
      <3>2. \A i \in 1 .. n - 1 : Elements(ss[i]) \cap Elements(ss[n]) = {}
        BY <3>1
      <3> QED
        BY <3>2
    <2> HIDE DEF Apart, First
    <2>4. Elements(f[n - 1]) = First(n - 1) /\ (Apart => Distinct(f[n - 1]))
      OBVIOUS
    <2> DEFINE a == f[n - 1]
               b == ss[n]
    <2>5. Elements(f[n]) = Elements(a) \cup Elements(b)
          /\ (Distinct(a) /\ Distinct(b) /\ Elements(a) \cap Elements(b) = {}
                => Distinct(f[n]))
      <3>1. a \in Seq(S) /\ b \in Seq(S) /\ f[n] = a \o b
        BY <2>1
      <3> HIDE DEF a, b
      <3>2. Elements(a \o b) = Elements(a) \cup Elements(b)
            /\ (Distinct(a) /\ Distinct(b) /\ Elements(a) \cap Elements(b) = {}
                  => Distinct(a \o b))
        BY <3>1, Appended
      <3> QED
        BY <3>1, <3>2
    <2>6. Distinct(f[n - 1]) /\ Distinct(ss[n])
          /\ Elements(f[n - 1]) \cap Elements(ss[n]) = {} => Distinct(f[n])
      BY <2>5
    <2> QED
      BY <2>1, <2>2, <2>3, <2>4, <2>5, <2>6
  <1>5. N \in U
    <2> HIDE DEF U
    <2>1. 0 .. N \subseteq U
      BY <1>2, <1>3, <1>4, Induction
    <2> QED
      BY <1>2, <2>1
  <1> QED
    BY <1>1, <1>5

-----------------------------------------------------------------------------
(* How often something is in a sequence.                                   *)

Places(s, x) == {i \in 1 .. Len(s) : s[i] = x}
Count(s, x) == Cardinality(Places(s, x))
One(x, A) == IF x \in A THEN 1 ELSE 0

LEMMA CountType ==
    ASSUME NEW S, NEW s \in Seq(S), NEW x
    PROVE  /\ IsFiniteSet(Places(s, x)) /\ Count(s, x) \in Nat
           /\ Count(s, x) = 0 <=> x \notin Elements(s)
  <1>1. IsFiniteSet(1 .. Len(s)) /\ Places(s, x) \in SUBSET (1 .. Len(s))
    BY FS_Interval DEF Places
  <1>2. IsFiniteSet(Places(s, x))
    BY <1>1, FS_Subset
  <1>3. Count(s, x) \in Nat /\ (Count(s, x) = 0 <=> Places(s, x) = {})
    BY <1>2, FS_CardinalityType, FS_EmptySet DEF Count
  <1>4. Places(s, x) = {} <=> x \notin Elements(s)
    BY DEF Places, Elements
  <1> QED
    BY <1>2, <1>3, <1>4

LEMMA CountConcat ==
    ASSUME NEW S, NEW s \in Seq(S), NEW t \in Seq(S), NEW x
    PROVE  Count(s \o t, x) = Count(s, x) + Count(t, x)
  <1> DEFINE u == s \o t
             A == Places(s, x)
             B == Places(t, x)
             n == Len(s)
             C == {i \in n + 1 .. n + Len(t) : t[i - n] = x}
             f == [i \in B |-> i + n]
  <1>1. n \in Nat /\ Len(t) \in Nat
    OBVIOUS
  <1>2. /\ Len(u) = n + Len(t)
        /\ \A i \in 1 .. n + Len(t) : u[i] = IF i <= n THEN s[i] ELSE t[i - n]
    BY ConcatProperties
  <1> HIDE DEF u
  <1>3. Places(u, x) = A \cup C /\ A \cap C = {}
    <2>1. \A i \in A : i \in 1 .. n + Len(t) /\ i <= n /\ i \notin C
      BY <1>1 DEF Places
    <2>2. \A i \in C : i \in 1 .. n + Len(t) /\ ~(i <= n)
      BY <1>1
    <2>3. \A i \in 1 .. n + Len(t) : i \in 1 .. n \/ i \in n + 1 .. n + Len(t)
      BY <1>1
    <2>4. \A i \in A : u[i] = x
      BY <1>2, <2>1 DEF Places
    <2>5. \A i \in C : u[i] = x
      BY <1>2, <2>2
    <2>6. \A i \in 1 .. n + Len(t) : u[i] = x => i \in A \cup C
      <3> SUFFICES ASSUME NEW i \in 1 .. n + Len(t), u[i] = x PROVE i \in A \cup C
        OBVIOUS
      <3>1. CASE i \in 1 .. n
        <4>1. s[i] = x
          BY <1>1, <1>2, <3>1
        <4> QED
          BY <3>1, <4>1 DEF Places
      <3>2. CASE i \in n + 1 .. n + Len(t)
        <4>1. t[i - n] = x
          BY <1>1, <1>2, <3>2
        <4> QED
          BY <3>2, <4>1
      <3> QED
        BY <2>3, <3>1, <3>2
    <2> HIDE DEF A, C
    <2>7. Places(u, x) = {i \in 1 .. n + Len(t) : u[i] = x}
      BY <1>2 DEF Places
    <2> QED
      BY <2>1, <2>2, <2>4, <2>5, <2>6, <2>7
  <1>4. f \in Bijection(B, C)
    <2>1. \A i \in B : i \in Nat /\ i + n \in C /\ (i + n) - n = i
      BY <1>1 DEF Places
    <2>2. \A j \in C : j - n \in B /\ j = (j - n) + n
      BY <1>1 DEF Places
    <2> HIDE DEF B, C
    <2>3. f \in [B -> C]
      BY <2>1
    <2>4. \A i, j \in B : f[i] = f[j] => i = j
      BY <1>1, <2>1
    <2>5. \A j \in C : \E i \in B : f[i] = j
      BY <2>2
    <2> HIDE DEF f
    <2> QED
      BY <2>3, <2>4, <2>5, Fun_IsBij
  <1>5. IsFiniteSet(A) /\ IsFiniteSet(B)
    BY CountType
  <1> HIDE DEF A, B, C, f, n
  <1>6. IsFiniteSet(C) /\ Cardinality(C) = Cardinality(B)
    BY <1>4, <1>5, FS_Bijection DEF ExistsBijection
  <1>7. Cardinality(A \cup C) = Cardinality(A) + Cardinality(C) - Cardinality(A \cap C)
    BY <1>5, <1>6, FS_Union
  <1>8. Cardinality(A \cap C) = 0
    BY <1>3, FS_EmptySet
  <1>9. Cardinality(A) \in Nat /\ Cardinality(B) \in Nat
    BY <1>5, FS_CardinalityType
  <1>10. Count(u, x) = Cardinality(A) + Cardinality(B)
    BY <1>3, <1>6, <1>7, <1>8, <1>9 DEF Count
  <1> QED
    BY <1>10 DEF Count, u, A, B

\* In a sequence without repetitions once or not at all.
LEMMA CountDistinct ==
    ASSUME NEW S, NEW s \in Seq(S), Distinct(s), NEW x
    PROVE  Count(s, x) = One(x, Elements(s))
  <1>1. CASE x \in Elements(s)
    <2>1. PICK i \in 1 .. Len(s) : s[i] = x
      BY <1>1 DEF Elements
    <2>2. Places(s, x) = {i}
      BY <2>1 DEF Places, Distinct
    <2>3. Cardinality({i}) = 1
      BY FS_Singleton
    <2> QED
      BY <1>1, <2>2, <2>3 DEF Count, One
  <1>2. CASE x \notin Elements(s)
    BY <1>2, CountType DEF One
  <1> QED
    BY <1>1, <1>2

LEMMA CountAppend ==
    ASSUME NEW S, NEW s \in Seq(S), NEW y \in S, NEW x
    PROVE  Count(Append(s, y), x) = Count(s, x) + One(x, {y})
  <1>1. Append(s, y) = s \o <<y>> /\ <<y>> \in Seq(S)
    BY AppendIsConcat
  <1>2. Distinct(<<y>>) /\ Elements(<<y>>) = {y}
    BY DEF Distinct, Elements
  <1> DEFINE t == <<y>>
  <1> HIDE DEF t
  <1>3. t \in Seq(S) /\ Count(t, x) = One(x, {y})
    BY <1>1, <1>2, CountDistinct DEF t
  <1>4. Count(s \o t, x) = Count(s, x) + Count(t, x)
    BY <1>3, CountConcat
  <1> QED
    BY <1>1, <1>3, <1>4 DEF t

\* The bag of a sequence.
LEMMA BagOfSequence ==
    ASSUME NEW S, NEW s \in Seq(S)
    PROVE  ToBag(s) = [x \in Elements(s) |-> Count(s, x)]
  <1>1. DOMAIN s = 1 .. Len(s)
    OBVIOUS
  <1>2. Range(s) = Elements(s)
    BY <1>1 DEF Range, Elements
  <1> QED
    BY <1>1, <1>2 DEF ToBag, Count, Places

LEMMA BagOfDistinct ==
    ASSUME NEW S, NEW s \in Seq(S), Distinct(s)
    PROVE  ToBag(s) = SetToBag(Elements(s))
  <1>1. \A x \in Elements(s) : Count(s, x) = 1
    BY CountDistinct DEF One
  <1> QED
    BY <1>1, BagOfSequence DEF SetToBag

\* A sequence with each element of A once more than another.
LEMMA BagOfUnion ==
    ASSUME NEW S, NEW s \in Seq(S), NEW t \in Seq(S), NEW A,
           \A x : Count(s, x) = One(x, A) + Count(t, x)
    PROVE  ToBag(s) = SetToBag(A) (+) ToBag(t)
  <1>1. ToBag(s) = [x \in Elements(s) |-> Count(s, x)]
        /\ ToBag(t) = [x \in Elements(t) |-> Count(t, x)]
    BY BagOfSequence
  <1>2. \A x : /\ Count(s, x) \in Nat /\ Count(t, x) \in Nat
               /\ Count(s, x) = 0 <=> x \notin Elements(s)
               /\ Count(t, x) = 0 <=> x \notin Elements(t)
    BY CountType
  <1>3. Elements(s) = A \cup Elements(t)
    <2>1. \A x : x \in Elements(s) <=> x \in A \/ x \in Elements(t)
      BY <1>2 DEF One
    <2> QED
      BY <2>1
  <1>4. \A x \in A \cup Elements(t) :
           Count(s, x) = (IF x \in A THEN 1 ELSE 0)
                         + (IF x \in Elements(t) THEN Count(t, x) ELSE 0)
    BY <1>2 DEF One
  <1> DEFINE a == SetToBag(A)
             b == ToBag(t)
  <1>5. /\ DOMAIN a = A /\ DOMAIN b = Elements(t)
        /\ \A x \in A : a[x] = 1
        /\ \A x \in Elements(t) : b[x] = Count(t, x)
    BY <1>1 DEF SetToBag
  <1> HIDE DEF a, b
  <1>6. a (+) b = [x \in A \cup Elements(t) |->
                     (IF x \in A THEN a[x] ELSE 0)
                     + (IF x \in Elements(t) THEN b[x] ELSE 0)]
    BY <1>5 DEF (+)
  <1>7. \A x \in A \cup Elements(t) :
           (IF x \in A THEN a[x] ELSE 0) + (IF x \in Elements(t) THEN b[x] ELSE 0)
           = Count(s, x)
    BY <1>4, <1>5
  <1>8. a (+) b = [x \in A \cup Elements(t) |-> Count(s, x)]
    BY <1>6, <1>7
  <1> QED
    BY <1>1, <1>3, <1>8 DEF a, b

-----------------------------------------------------------------------------
(* The chain.                                                              *)

Array == [capacity : Nat, edges : Seq(Key)]
ArrayEdges(c) == [i \in DOMAIN c |-> c[i].edges]

Packed(c) ==
    \A i \in DOMAIN c :
      /\ 0 < Len(c[i].edges) /\ Len(c[i].edges) <= c[i].capacity
      /\ i < Len(c) => Len(c[i].edges) = c[i].capacity
                       /\ c[i].capacity >= MAX_EL_SIZE

\* The arrays of the chain hold the edges s, one behind the other.
Chained(c, s) ==
    /\ c \in Seq(Array)
    /\ Packed(c)
    /\ s = FlattenSeq(ArrayEdges(c))

LEMMA ArrayEdgesType ==
    ASSUME NEW c \in Seq(Array)
    PROVE  /\ ArrayEdges(c) \in Seq(Seq(Key)) /\ Len(ArrayEdges(c)) = Len(c)
           /\ \A i \in 1 .. Len(c) : ArrayEdges(c)[i] = c[i].edges
  <1>1. DOMAIN c = 1 .. Len(c) /\ Len(c) \in Nat
        /\ \A i \in 1 .. Len(c) : c[i] \in Array
    OBVIOUS
  <1>2. \A i \in 1 .. Len(c) : c[i].edges \in Seq(Key)
    BY <1>1 DEF Array
  <1> QED
    BY <1>1, <1>2 DEF ArrayEdges

LEMMA ChainedType ==
    ASSUME NEW c, NEW s, Chained(c, s)
    PROVE  c \in Seq(Array) /\ s \in Seq(Key)
  <1>1. c \in Seq(Array)
    BY DEF Chained
  <1> QED
    BY <1>1, ArrayEdgesType, FlattenType DEF Chained

LEMMA ChainedEmpty == Chained(<<>>, <<>>)
  <1>1. <<>> \in Seq(Array) /\ Packed(<<>>)
    BY DEF Packed
  <1>2. ArrayEdges(<<>>) = <<>>
    BY DEF ArrayEdges
  <1> QED
    BY <1>1, <1>2, FlattenEmpty DEF Chained

\* insert_el puts an edge behind the others.
LEMMA ChainedInsert ==
    ASSUME NEW c, NEW s, Chained(c, s), NEW x \in Key
    PROVE  Chained(insert_el(c, x), Append(s, x))
  <1> DEFINE n == Len(c)
             el == c[n]
             room == Len(el.edges) < el.capacity
             d == insert_el(c, x)
  <1>1. /\ c \in Seq(Array) /\ n \in Nat /\ DOMAIN c = 1 .. n
        /\ c = <<>> <=> n = 0
        /\ Packed(c) /\ s = FlattenSeq(ArrayEdges(c)) /\ s \in Seq(Key)
        /\ INI_EL_SIZE \in Nat \ {0} /\ MAX_EL_SIZE \in Nat
    BY ChainedType, EdgeListAssumption DEF Chained
  <1>2. n # 0 => /\ n \in 1 .. n /\ el \in Array
                 /\ el.edges \in Seq(Key) /\ el.capacity \in Nat
                 /\ Len(el.edges) \in Nat /\ 0 < Len(el.edges)
                 /\ Len(el.edges) <= el.capacity
    <2> SUFFICES ASSUME n # 0
                 PROVE  /\ n \in 1 .. n /\ el \in Array
                        /\ el.edges \in Seq(Key) /\ el.capacity \in Nat
                        /\ Len(el.edges) \in Nat /\ 0 < Len(el.edges)
                        /\ Len(el.edges) <= el.capacity
      OBVIOUS
    <2>1. n \in 1 .. n /\ el \in Array
      BY <1>1
    <2>2. el.edges \in Seq(Key) /\ el.capacity \in Nat
      BY <2>1 DEF Array
    <2> QED
      BY <1>1, <2>1, <2>2 DEF Packed
  <1>3. CASE c = <<>> \/ (~room /\ el.capacity >= MAX_EL_SIZE)
    <2> DEFINE new == [capacity |-> INI_EL_SIZE, edges |-> <<x>>]
    <2>1. d = Append(c, new)
      BY <1>3 DEF insert_el, Last
    <2>2. new \in Array /\ new.edges = <<x>> /\ new.capacity = INI_EL_SIZE
      BY <1>1 DEF Array
    <2> HIDE DEF new
    <2>3. /\ d \in Seq(Array) /\ Len(d) = n + 1 /\ d[n + 1] = new
          /\ DOMAIN d = 1 .. n + 1
          /\ \A i \in 1 .. n : d[i] = c[i]
      BY <1>1, <2>1, <2>2
    <2> HIDE DEF d
    <2>4. Packed(d)
      <3> SUFFICES ASSUME NEW i \in 1 .. n + 1
                   PROVE  /\ 0 < Len(d[i].edges) /\ Len(d[i].edges) <= d[i].capacity
                          /\ i < n + 1 => Len(d[i].edges) = d[i].capacity
                                          /\ d[i].capacity >= MAX_EL_SIZE
        BY <2>3 DEF Packed
      <3>1. CASE i = n + 1
        <4>1. Len(<<x>>) = 1 /\ ~(i < n + 1)
          BY <1>1, <3>1
        <4>2. d[i] = new
          BY <2>3, <3>1
        <4>3. 0 < Len(new.edges) /\ Len(new.edges) <= new.capacity
          BY <1>1, <2>2, <4>1
        <4> QED
          BY <4>1, <4>2, <4>3
      <3>2. CASE i # n + 1
        <4>1. i \in 1 .. n /\ d[i] = c[i] /\ n # 0 /\ c # <<>>
          BY <1>1, <2>3, <3>2
        <4>2. CASE i = n
          BY <1>1, <1>2, <1>3, <4>1, <4>2
        <4>3. CASE i # n
          <5>1. i < n
            <6> HIDE DEF n
            <6> QED
              BY <1>1, <4>1, <4>3
          <5> QED
            BY <1>1, <4>1, <5>1 DEF Packed
        <4> QED
          BY <4>2, <4>3
      <3> QED
        BY <3>1, <3>2
    <2>5. ArrayEdges(d) = Append(ArrayEdges(c), <<x>>)
      <3> DEFINE a == ArrayEdges(d)
                 b == Append(ArrayEdges(c), <<x>>)
                 T == Seq(Key)
      <3>1. a \in Seq(T) /\ Len(a) = n + 1
            /\ \A i \in 1 .. n + 1 : a[i] = d[i].edges
        BY <2>3, ArrayEdgesType
      <3>2. b \in Seq(T) /\ Len(b) = n + 1 /\ b[n + 1] = <<x>>
            /\ \A i \in 1 .. n : b[i] = c[i].edges
        BY <1>1, ArrayEdgesType
      <3>3. \A i \in 1 .. n + 1 : a[i] = b[i]
        <4>1. \A i \in 1 .. n + 1 : i = n + 1 \/ i \in 1 .. n
          BY <1>1
        <4> HIDE DEF a, b
        <4> QED
          BY <2>2, <2>3, <3>1, <3>2, <4>1
      <3> HIDE DEF a, b, T
      <3>4. a = b
        BY <3>1, <3>2, <3>3, SeqEqual
      <3> QED
        BY <3>4 DEF a, b
    <2>6. FlattenSeq(ArrayEdges(d)) = s \o <<x>>
      <3>1. ArrayEdges(c) \in Seq(Seq(Key)) /\ <<x>> \in Seq(Key)
        BY <1>1, ArrayEdgesType
      <3> QED
        BY <1>1, <2>5, <3>1, FlattenAppend
    <2>7. Append(s, x) = s \o <<x>>
      BY <1>1, AppendIsConcat
    <2> QED
      BY <2>3, <2>4, <2>6, <2>7 DEF Chained, d
  <1>4. CASE ~(c = <<>> \/ (~room /\ el.capacity >= MAX_EL_SIZE))
    <2> DEFINE new == [capacity |-> IF room THEN el.capacity ELSE 2 * el.capacity,
                       edges |-> Append(el.edges, x)]
    <2>1. d = [c EXCEPT ![n] = new]
      BY <1>4 DEF insert_el, Last
    <2>2. /\ new \in Array /\ new.edges = Append(el.edges, x)
          /\ Len(new.edges) = Len(el.edges) + 1
          /\ Len(new.edges) <= new.capacity
      BY <1>1, <1>2, <1>4 DEF Array
    <2> HIDE DEF new
    <2>3. /\ d \in Seq(Array) /\ Len(d) = n /\ d[n] = new
          /\ DOMAIN d = 1 .. n /\ n # 0 /\ n \in 1 .. n
          /\ \A i \in 1 .. n : i # n => d[i] = c[i]
      <3>1. n # 0 /\ n \in 1 .. n
        BY <1>1, <1>2, <1>4
      <3> QED
        BY <1>1, <2>1, <2>2, <3>1
    <2> HIDE DEF d
    <2>4. Packed(d)
      <3> SUFFICES ASSUME NEW i \in 1 .. n
                   PROVE  /\ 0 < Len(d[i].edges) /\ Len(d[i].edges) <= d[i].capacity
                          /\ i < n => Len(d[i].edges) = d[i].capacity
                                      /\ d[i].capacity >= MAX_EL_SIZE
        BY <2>3 DEF Packed
      <3>1. CASE i = n
        <4>1. d[i] = new
          BY <2>3, <3>1
        <4>0. ~(i < n)
          <5> HIDE DEF n
          <5> QED
            BY <1>1, <3>1
        <4>2. Len(new.edges) = Len(el.edges) + 1 /\ Len(el.edges) \in Nat
          BY <1>2, <2>2, <2>3
        <4>3. 0 < Len(new.edges) /\ Len(new.edges) <= new.capacity
          BY <2>2, <4>2
        <4> QED
          BY <4>0, <4>1, <4>3
      <3>2. CASE i # n
        <4>1. d[i] = c[i]
          BY <2>3, <3>2
        <4>2. i < n
          <5> HIDE DEF n
          <5> QED
            BY <1>1, <3>2
        <4> QED
          BY <1>1, <4>1 DEF Packed
      <3> QED
        BY <3>1, <3>2
    <2>5. FlattenSeq(ArrayEdges(d)) = Append(s, x)
      <3> DEFINE ss == ArrayEdges(c)
                 tt == ArrayEdges(d)
      <3>1. /\ ss \in Seq(Seq(Key)) /\ Len(ss) = n
            /\ \A i \in 1 .. n : ss[i] = c[i].edges
        BY <1>1, ArrayEdgesType
      <3>2. /\ tt \in Seq(Seq(Key)) /\ Len(tt) = n
            /\ \A i \in 1 .. n : tt[i] = d[i].edges
        BY <2>3, ArrayEdgesType
      <3> HIDE DEF ss, tt
      <3>3. \A i \in 1 .. Len(ss) - 1 : tt[i] = ss[i]
        <4> HIDE DEF n
        <4>1. \A i \in 1 .. n - 1 : i \in 1 .. n /\ i # n
          BY <1>1
        <4> QED
          BY <2>3, <3>1, <3>2, <4>1
      <3>4. tt[Len(ss)] = Append(ss[Len(ss)], x)
        BY <2>2, <2>3, <3>1, <3>2
      <3>5. Len(ss) # 0 /\ Len(tt) = Len(ss)
        BY <2>3, <3>1, <3>2
      <3>6. FlattenSeq(tt) = Append(FlattenSeq(ss), x)
        BY <3>1, <3>2, <3>3, <3>4, <3>5, FlattenLonger
      <3> QED
        BY <1>1, <3>6 DEF ss, tt
    <2> QED
      BY <2>3, <2>4, <2>5 DEF Chained, d
  <1> QED
    BY <1>3, <1>4

\* insert_el, called for one edge after the other, makes a chain of them.
LEMMA ChainedRestart ==
    ASSUME NEW s \in Seq(Key)
    PROVE  Chained(ChainOf(s), s)
  <1> DEFINE N == Len(s)
             T == Seq(Array)
             step == [n \in 1 .. N |-> [c \in T |-> IF insert_el(c, s[n]) \in T
                                                     THEN insert_el(c, s[n]) ELSE c]]
             Eqn(g) == g = [i \in 0 .. N |->
                              IF i = 0 THEN <<>> ELSE insert_el(g[i - 1], s[i])]
             after == CHOOSE g : Eqn(g)
             upTo(n) == SubSeq(s, 1, n)
  <1>1. N \in Nat /\ <<>> \in T /\ \A n \in 1 .. N : s[n] \in Key
    BY DEF T
  <1>2. Steps(step, N, T)
    BY DEF Steps
  <1>3. PICK h : Follows(h, step, <<>>, N, T)
    <2> HIDE DEF step, T, N
    <2> QED
      BY <1>1, <1>2, Recursion
  <1>4. /\ h \in [0 .. N -> T] /\ h[0] = <<>>
        /\ \A n \in 1 .. N : h[n] = step[n][h[n - 1]]
    BY <1>3 DEF Follows
  <1>5. \A n \in 1 .. N : n - 1 \in 0 .. N /\ n \in 0 .. N
    BY <1>1
  <1>6. /\ upTo(0) = <<>> /\ upTo(N) = s
        /\ \A n \in 1 .. N : upTo(n) = Append(upTo(n - 1), s[n])
    <2>1. upTo(0) = <<>>
      BY SubSeqEmpty
    <2>2. upTo(N) = s
      BY SubSeqFull
    <2>3. ASSUME NEW n \in 1 .. N PROVE upTo(n) = Append(upTo(n - 1), s[n])
      <3>1. /\ upTo(n) \in Seq(Key) /\ Len(upTo(n)) = n
            /\ \A i \in 1 .. n : upTo(n)[i] = s[i]
        BY <1>1
      <3>2. /\ upTo(n - 1) \in Seq(Key) /\ Len(upTo(n - 1)) = n - 1
            /\ \A i \in 1 .. n - 1 : upTo(n - 1)[i] = s[i]
        BY <1>1
      <3> DEFINE a == upTo(n)
                 b == upTo(n - 1)
                 e == Append(b, s[n])
      <3> HIDE DEF a, b
      <3>3. s[n] \in Key /\ b \in Seq(Key) /\ Len(b) = n - 1
            /\ \A i \in 1 .. n - 1 : b[i] = s[i]
        BY <1>1, <3>2 DEF b
      <3>4. e \in Seq(Key) /\ Len(e) = n /\ \A i \in 1 .. n : e[i] = s[i]
        BY <3>3
      <3> HIDE DEF e
      <3>5. a \in Seq(Key) /\ Len(a) = n /\ \A i \in 1 .. n : a[i] = s[i]
        BY <3>1 DEF a
      <3>6. a = e
        BY <3>4, <3>5, SeqEqual
      <3> QED
        BY <3>6 DEF a, b, e
    <2> QED
      BY <2>1, <2>2, <2>3
  <1> HIDE DEF upTo
  <1> DEFINE U == {n \in 0 .. N : /\ Chained(h[n], upTo(n))
                                  /\ n # 0 => h[n] = insert_el(h[n - 1], s[n])}
  <1>7. 0 \in U
    BY <1>1, <1>4, <1>6, ChainedEmpty
  <1>8. \A n \in 1 .. N : n - 1 \in U => n \in U
    <2> SUFFICES ASSUME NEW n \in 1 .. N, Chained(h[n - 1], upTo(n - 1))
                 PROVE  /\ Chained(h[n], upTo(n))
                        /\ h[n] = insert_el(h[n - 1], s[n])
      BY <1>5
    <2> DEFINE c == h[n - 1]
    <2>1. Chained(insert_el(c, s[n]), Append(upTo(n - 1), s[n]))
      <3> HIDE DEF c
      <3>1. Chained(c, upTo(n - 1)) /\ s[n] \in Key
        BY <1>1 DEF c
      <3> QED
        BY <3>1, ChainedInsert
    <2>2. insert_el(c, s[n]) \in T
      BY <2>1, ChainedType
    <2>3. h[n - 1] \in T
      BY <1>4, <1>5
    <2>4. h[n] = step[n][h[n - 1]]
      BY <1>4
    <2> HIDE DEF T
    <2>5. h[n] = insert_el(h[n - 1], s[n])
      BY <2>2, <2>3, <2>4
    <2> QED
      BY <1>6, <2>1, <2>5
  <1>9. 0 .. N \subseteq U
    <2> HIDE DEF U, N
    <2> QED
      BY <1>1, <1>7, <1>8, Induction
  <1>10. Eqn(h)
    <2>1. \A n \in 0 .. N : h[n] = IF n = 0 THEN <<>> ELSE insert_el(h[n - 1], s[n])
      BY <1>4, <1>9
    <2> QED
      BY <1>4, <2>1
  <1>11. Eqn(after)
    <2> HIDE DEF Eqn
    <2> QED
      BY <1>10
  <1>12. ChainOf(s) = after[N]
    BY DEF ChainOf
  <1> HIDE DEF after
  <1>13. \A n \in 0 .. N : after[n] = IF n = 0 THEN <<>> ELSE insert_el(after[n - 1], s[n])
    BY <1>11, Zenon
  <1> DEFINE V == {n \in 0 .. N : after[n] = h[n]}
  <1>14. 0 \in V
    BY <1>1, <1>4, <1>13
  <1>15. \A n \in 1 .. N : n - 1 \in V => n \in V
    <2> SUFFICES ASSUME NEW n \in 1 .. N, after[n - 1] = h[n - 1]
                 PROVE  after[n] = h[n]
      BY <1>5
    <2>1. n \in 0 .. N /\ n # 0
      BY <1>1
    <2>2. after[n] = insert_el(after[n - 1], s[n])
      BY <1>13, <2>1
    <2>3. h[n] = insert_el(h[n - 1], s[n])
      BY <1>9, <2>1
    <2> QED
      BY <2>2, <2>3
  <1>16. N \in V /\ N \in U
    <2> HIDE DEF V, U, N
    <2>1. 0 .. N \subseteq V
      BY <1>1, <1>14, <1>15, Induction
    <2>2. N \in 0 .. N
      BY <1>1
    <2> QED
      BY <1>9, <2>1, <2>2
  <1> QED
    BY <1>6, <1>12, <1>16

\* The memory of the arrays is enough for the edges in them.
LEMMA BytesEnough ==
    ASSUME chain \in Seq(Array), Packed(chain)
    PROVE  Len(ChainEdges) <= get_num_elbytes
  <1> DEFINE N == Len(chain)
             ss == ArrayEdges(chain)
             step == [n \in 1 .. N |-> [k \in Nat |-> k + chain[n].capacity]]
             Eqn(g) == g = [i \in 0 .. N |->
                              IF i = 0 THEN 0 ELSE g[i - 1] + chain[i].capacity]
             upTo == CHOOSE g : Eqn(g)
  <1>1. /\ N \in Nat /\ DOMAIN chain = 1 .. N
        /\ \A n \in 1 .. N : /\ chain[n].capacity \in Nat
                             /\ Len(chain[n].edges) \in Nat
                             /\ chain[n].edges \in Seq(Key)
                             /\ Len(chain[n].edges) <= chain[n].capacity
    <2>1. N \in Nat /\ DOMAIN chain = 1 .. N /\ \A n \in 1 .. N : chain[n] \in Array
      OBVIOUS
    <2>2. \A n \in 1 .. N : chain[n].capacity \in Nat /\ chain[n].edges \in Seq(Key)
      BY <2>1 DEF Array
    <2>3. \A n \in 1 .. N : Len(chain[n].edges) \in Nat
      BY <2>2
    <2>4. \A n \in 1 .. N : Len(chain[n].edges) <= chain[n].capacity
      BY <2>1 DEF Packed
    <2> QED
      BY <2>1, <2>2, <2>3, <2>4
  <1>2. PICK h : Follows(h, step, 0, N, Nat)
    <2>1. Steps(step, N, Nat)
      BY <1>1 DEF Steps
    <2> HIDE DEF step, N
    <2> QED
      BY <1>1, <2>1, Recursion
  <1>3. \A n \in 1 .. N : n - 1 \in 0 .. N /\ n \in 0 .. N /\ n # 0
    BY <1>1
  <1>4. /\ h \in [0 .. N -> Nat] /\ h[0] = 0
        /\ \A n \in 1 .. N : h[n] = h[n - 1] + chain[n].capacity
    <2>1. /\ h \in [0 .. N -> Nat] /\ h[0] = 0
          /\ \A n \in 1 .. N : h[n] = step[n][h[n - 1]]
      BY <1>2 DEF Follows
    <2>2. ASSUME NEW n \in 1 .. N PROVE h[n] = h[n - 1] + chain[n].capacity
      <3>1. h[n - 1] \in Nat /\ h[n] = step[n][h[n - 1]]
        BY <1>3, <2>1
      <3> QED
        BY <3>1
    <2> QED
      BY <2>1, <2>2
  <1> HIDE DEF step
  <1>5. Eqn(h)
    <2>1. \A n \in 0 .. N : h[n] = IF n = 0 THEN 0 ELSE h[n - 1] + chain[n].capacity
      <3> SUFFICES ASSUME NEW n \in 0 .. N, n # 0
                   PROVE  h[n] = h[n - 1] + chain[n].capacity
        BY <1>4
      <3>1. n \in 1 .. N
        BY <1>1
      <3> QED
        BY <1>4, <3>1
    <2> QED
      BY <1>4, <2>1
  <1>6. Eqn(upTo)
    <2> HIDE DEF Eqn
    <2> QED
      BY <1>5
  <1>7. get_num_elbytes = upTo[N]
    BY DEF get_num_elbytes
  <1> HIDE DEF upTo
  <1>8. \A n \in 0 .. N : upTo[n] = IF n = 0 THEN 0 ELSE upTo[n - 1] + chain[n].capacity
    BY <1>6, Zenon
  <1>9. /\ ss \in Seq(Seq(Key)) /\ Len(ss) = N
        /\ \A n \in 1 .. N : ss[n] = chain[n].edges
    BY ArrayEdgesType
  <1>10. ChainEdges = FlattenSeq(ss)
    BY DEF ChainEdges, ArrayEdges
  <1> HIDE DEF ss
  <1>11. PICK f : Flattens(f, ss, Key) /\ FlattenSeq(ss) = f[Len(ss)]
    BY <1>9, FlattenRuns
  <1> DEFINE U == {n \in 0 .. N : upTo[n] = h[n] /\ Len(f[n]) <= h[n]}
  <1>12. 0 \in U
    <2>1. f[0] = <<>> /\ upTo[0] = 0 /\ 0 \in 0 .. N
      BY <1>1, <1>8, <1>11 DEF Flattens
    <2> QED
      BY <1>4, <2>1
  <1>13. \A n \in 1 .. N : n - 1 \in U => n \in U
    <2> SUFFICES ASSUME NEW n \in 1 .. N, upTo[n - 1] = h[n - 1],
                        Len(f[n - 1]) <= h[n - 1]
                 PROVE  upTo[n] = h[n] /\ Len(f[n]) <= h[n]
      BY <1>3
    <2>1. upTo[n] = upTo[n - 1] + chain[n].capacity
      BY <1>3, <1>8
    <2>2. f[n] = f[n - 1] \o ss[n] /\ f[n - 1] \in Seq(Key) /\ ss[n] \in Seq(Key)
      <3>1. f[n] = f[n - 1] \o ss[n]
        BY <1>9, <1>11 DEF Flattens
      <3>2. f[n - 1] \in Seq(Key)
        BY <1>3, <1>9, <1>11 DEF Flattens
      <3> QED
        BY <1>1, <1>9, <3>1, <3>2
    <2>3. Len(f[n]) = Len(f[n - 1]) + Len(chain[n].edges)
          /\ Len(f[n - 1]) \in Nat
      <3> DEFINE a == f[n - 1]
                 b == ss[n]
      <3>1. a \in Seq(Key) /\ b \in Seq(Key) /\ f[n] = a \o b
        BY <2>2
      <3>2. b = chain[n].edges
        BY <1>9
      <3> HIDE DEF a, b
      <3>3. Len(f[n]) = Len(a) + Len(b) /\ Len(a) \in Nat
        BY <3>1
      <3> QED
        BY <3>2, <3>3 DEF a
    <2>4. h[n] = h[n - 1] + chain[n].capacity /\ h[n - 1] \in Nat
      BY <1>3, <1>4
    <2>5. chain[n].capacity \in Nat /\ Len(chain[n].edges) \in Nat
          /\ Len(chain[n].edges) <= chain[n].capacity
      BY <1>1
    <2>6. upTo[n] = h[n]
      BY <2>1, <2>4
    <2> DEFINE a == Len(f[n - 1])
               b == Len(chain[n].edges)
               k == h[n - 1]
               m == chain[n].capacity
    <2>7. a \in Nat /\ b \in Nat /\ k \in Nat /\ m \in Nat /\ a <= k /\ b <= m
          /\ Len(f[n]) = a + b /\ h[n] = k + m
      BY <2>3, <2>4, <2>5
    <2> HIDE DEF a, b, k, m
    <2>8. Len(f[n]) <= h[n]
      BY <2>7
    <2> QED
      BY <2>6, <2>8
  <1>14. N \in U
    <2> HIDE DEF U, N
    <2>1. 0 .. N \subseteq U
      BY <1>1, <1>12, <1>13, Induction
    <2> QED
      BY <1>1, <2>1
  <1> QED
    BY <1>7, <1>9, <1>10, <1>11, <1>14

-----------------------------------------------------------------------------
(* The tree.                                                               *)

Branches == 0 .. NUM_BRANCH - 1

\* Every node but the root is a child of a node that has all its children.
Shape(t) ==
    /\ IsFiniteSet(DOMAIN t)
    /\ t \in [DOMAIN t -> Seq(Key)]
    /\ <<>> \in DOMAIN t
    /\ DOMAIN t \subseteq Seq(Branches)
    /\ \A p \in DOMAIN t \ {<<>>} :
          \E m \in DOMAIN t : p \in Children(m) /\ Children(m) \subseteq DOMAIN t
    /\ \E n \in Nat : \A p \in DOMAIN t : Len(p) <= n

\* An edge is in one slot of one node, on the path of its branches.
Entries(t) ==
    /\ \A p \in DOMAIN t :
          Distinct(t[p]) /\ \A x \in Elements(t[p]) : p = NodeOf(x, Len(p))
    /\ \A p, q \in DOMAIN t :
          p # q => Elements(t[p]) \cap Elements(t[q]) = {}

\* The edges in the nodes from a level on.
EdgesOf(t, lv) == UNION {Elements(t[p]) : p \in {q \in DOMAIN t : Len(q) >= lv}}

LEMMA ChildFacts ==
    ASSUME NEW m \in Seq(Branches)
    PROVE  /\ IsFiniteSet(Children(m))
           /\ \A c \in Children(m) : c \in Seq(Branches) /\ Len(c) = Len(m) + 1
  <1>1. Children(m) = {Append(m, b) : b \in Branches}
    BY DEF Children, Branches
  <1>2. \A c \in Children(m) : c \in Seq(Branches) /\ Len(c) = Len(m) + 1
    <2> SUFFICES ASSUME NEW b \in Branches
                 PROVE  Append(m, b) \in Seq(Branches)
                        /\ Len(Append(m, b)) = Len(m) + 1
      BY <1>1
    <2> QED
      BY AppendProperties
  <1>3. IsFiniteSet(Children(m))
    <2> DEFINE f == [b \in Branches |-> Append(m, b)]
    <2>1. f \in Surjection(Branches, Children(m))
      <3>1. f \in [Branches -> Children(m)]
        BY <1>1
      <3>2. \A c \in Children(m) : \E b \in Branches : f[b] = c
        BY <1>1
      <3> QED
        BY <3>1, <3>2, Fun_IsSurj
    <2>2. IsFiniteSet(Branches)
      BY NumBranchType, FS_Interval DEF Branches
    <2> QED
      BY <2>1, <2>2, FS_Surjection
  <1> QED
    BY <1>2, <1>3

LEMMA ChildrenApart ==
    ASSUME NEW m \in Seq(Branches), NEW n \in Seq(Branches), m # n
    PROVE  Children(m) \cap Children(n) = {}
  <1> SUFFICES ASSUME NEW a \in Branches, NEW b \in Branches,
                      Append(m, a) = Append(n, b)
               PROVE  FALSE
    BY DEF Children, Branches
  <1> QED
    BY AppendInjective

LEMMA NodeOfFacts ==
    ASSUME NEW x \in Key, NEW n \in Nat
    PROVE  /\ NodeOf(x, n) \in Seq(Branches) /\ Len(NodeOf(x, n)) = n
           /\ NodeOf(x, n + 1) \in Children(NodeOf(x, n))
           /\ NodeOf(x, 0) = <<>>
  <1> DEFINE F(i) == Branch(x, i - 1)
             p == NodeOf(x, n)
             q == NodeOf(x, n + 1)
             r == Append(p, F(n + 1))
  <1>1. \A i \in 1 .. n + 1 : F(i) \in Branches
    <2> SUFFICES ASSUME NEW i \in 1 .. n + 1 PROVE F(i) \in Branches
      OBVIOUS
    <2>1. x \in Nat /\ i - 1 \in Nat
      BY EdgeListAssumption
    <2> QED
      BY <2>1, BranchInRange DEF Branches
  <1>2. p = [i \in 1 .. n |-> F(i)] /\ q = [i \in 1 .. n + 1 |-> F(i)]
        /\ NodeOf(x, 0) = [i \in 1 .. 0 |-> F(i)]
    BY DEF NodeOf
  <1> HIDE DEF F, p, q
  <1>3. p \in Seq(Branches) /\ Len(p) = n /\ \A i \in 1 .. n : p[i] = F(i)
    <2>1. \A i \in 1 .. n : i \in 1 .. n + 1
      OBVIOUS
    <2> QED
      BY <1>1, <1>2, <2>1
  <1>4. q \in Seq(Branches) /\ Len(q) = n + 1 /\ \A i \in 1 .. n + 1 : q[i] = F(i)
    BY <1>1, <1>2
  <1>5. F(n + 1) \in Branches
    BY <1>1
  <1>6. r \in Seq(Branches) /\ Len(r) = n + 1 /\ \A i \in 1 .. n + 1 : r[i] = F(i)
    BY <1>3, <1>5
  <1> HIDE DEF r
  <1>7. q = r
    BY <1>4, <1>6, SeqEqual
  <1>8. q \in Children(p)
    BY <1>5, <1>7 DEF r, Children, Branches
  <1>9. NodeOf(x, 0) = <<>>
    BY <1>2
  <1> QED
    BY <1>3, <1>8, <1>9 DEF p, q

\* A full path ends at a node without children.
LEMMA PathEnds ==
    ASSUME NEW x \in Key, Shape(tree)
    PROVE  \E p \in OnPath(x) : ~is_offset_valid(p)
  <1> DEFINE L == {n \in Nat : NodeOf(x, n) \in DOMAIN tree}
             T == {m \in Nat : \A n \in L : n <= m}
  <1>1. PICK k \in Nat : \A p \in DOMAIN tree : Len(p) <= k
    BY DEF Shape
  <1>2. k \in T
    BY <1>1, NodeOfFacts
  <1>3. 0 \in L
    BY NodeOfFacts DEF Shape
  <1>4. PICK m \in T : \A n \in T : m <= n
    <2>1. T \in SUBSET Nat /\ T # {}
      BY <1>2
    <2> HIDE DEF T
    <2> QED
      BY <2>1, LeastNumber
  <1>5. ASSUME m \notin L PROVE FALSE
    <2>1. m \in Nat /\ m # 0 /\ \A n \in L : n \in Nat /\ n <= m /\ n # m
      BY <1>3, <1>5
    <2>2. m - 1 \in Nat /\ \A n \in L : n <= m - 1
      BY <2>1
    <2>3. m - 1 \in T
      BY <2>2
    <2> QED
      BY <1>4, <2>1, <2>3
  <1>6. m + 1 \notin L
    <2>1. m \in Nat /\ \A n \in L : n <= m
      OBVIOUS
    <2> QED
      BY <2>1
  <1> DEFINE p == NodeOf(x, m)
  <1>7. p \in DOMAIN tree /\ Len(p) = m /\ NodeOf(x, m + 1) \in Children(p)
        /\ m + 1 \in Nat
    BY <1>5, NodeOfFacts
  <1>8. ~(Children(p) \subseteq DOMAIN tree)
    BY <1>6, <1>7
  <1>9. p \in OnPath(x)
    BY <1>7 DEF OnPath
  <1> HIDE DEF p
  <1> QED
    BY <1>8, <1>9 DEF is_offset_valid

\* The edges a search finds.
LEMMA Found ==
    ASSUME Shape(tree), Entries(tree), NEW x
    PROVE  find_edge_t(x) <=> x \in EdgesOf(tree, 0)
  <1>1. \A p \in DOMAIN tree : Len(p) >= 0
    BY DEF Shape
  <1>2. \A p \in DOMAIN tree : Contains(tree[p], x) <=> x \in Elements(tree[p])
    BY DEF Contains, Elements
  <1>3. \A p \in DOMAIN tree : x \in Elements(tree[p]) => p \in OnPath(x)
    BY DEF Entries, OnPath
  <1>4. find_edge_t(x) <=> \E p \in DOMAIN tree : x \in Elements(tree[p])
    BY <1>2, <1>3 DEF find_edge_t, OnPath
  <1>5. x \in EdgesOf(tree, 0) <=> \E p \in DOMAIN tree : x \in Elements(tree[p])
    BY <1>1 DEF EdgesOf
  <1> QED
    BY <1>4, <1>5

LEMMA EdgesOfType ==
    ASSUME NEW t, Shape(t), NEW lv
    PROVE  EdgesOf(t, lv) \subseteq Key
  <1> SUFFICES ASSUME NEW p \in DOMAIN t PROVE Elements(t[p]) \subseteq Key
    BY DEF EdgesOf
  <1>1. t[p] \in Seq(Key)
    BY DEF Shape
  <1> QED
    BY <1>1 DEF Elements

\* A node gets children, which are empty.
LEMMA Branching ==
    ASSUME NEW t, Shape(t), Entries(t), NEW m \in DOMAIN t,
           NEW g, g = Branched(t, m)
    PROVE  /\ DOMAIN g = DOMAIN t \cup Children(m)
           /\ Shape(g) /\ Entries(g)
           /\ \A lv : EdgesOf(g, lv) = EdgesOf(t, lv)
  <1>1. /\ DOMAIN g = DOMAIN t \cup Children(m)
        /\ \A p \in DOMAIN t : g[p] = t[p]
        /\ \A p \in DOMAIN g \ DOMAIN t : g[p] = <<>>
        /\ g = [p \in DOMAIN g |-> g[p]]
    BY DEF Branched
  <1>2. <<>> \in Seq(Key) /\ Elements(<<>>) = {} /\ Distinct(<<>>)
    BY DEF Elements, Distinct
  <1>3. m \in Seq(Branches) /\ Len(m) \in Nat
    BY DEF Shape
  <1>4. IsFiniteSet(Children(m))
        /\ \A c \in Children(m) : c \in Seq(Branches) /\ Len(c) = Len(m) + 1
    BY <1>3, ChildFacts
  <1>5. Shape(g)
    <2>1. IsFiniteSet(DOMAIN g)
      <3>1. IsFiniteSet(DOMAIN t)
        BY DEF Shape
      <3>2. IsFiniteSet(DOMAIN t \cup Children(m))
        BY <1>4, <3>1, FS_Union
      <3> QED
        BY <1>1, <3>2
    <2>2. g \in [DOMAIN g -> Seq(Key)]
      <3>1. \A p \in DOMAIN g : g[p] \in Seq(Key)
        BY <1>1, <1>2 DEF Shape
      <3> QED
        BY <1>1, <3>1
    <2>3. <<>> \in DOMAIN g /\ DOMAIN g \subseteq Seq(Branches)
      BY <1>1, <1>4 DEF Shape
    <2>4. \A p \in DOMAIN g \ {<<>>} :
             \E n \in DOMAIN g : p \in Children(n) /\ Children(n) \subseteq DOMAIN g
      <3> SUFFICES ASSUME NEW p \in DOMAIN g \ {<<>>}
                   PROVE  \E n \in DOMAIN g :
                             p \in Children(n) /\ Children(n) \subseteq DOMAIN g
        OBVIOUS
      <3>1. CASE p \in DOMAIN t
        <4>1. PICK n \in DOMAIN t : p \in Children(n) /\ Children(n) \subseteq DOMAIN t
          BY <3>1 DEF Shape
        <4> QED
          BY <1>1, <4>1
      <3>2. CASE p \notin DOMAIN t
        BY <1>1, <3>2
      <3> QED
        BY <3>1, <3>2
    <2>5. \E n \in Nat : \A p \in DOMAIN g : Len(p) <= n
      <3>1. PICK n \in Nat : \A p \in DOMAIN t : Len(p) <= n
        BY DEF Shape
      <3>2. n + 1 \in Nat /\ Len(m) <= n
        BY <3>1
      <3>3. \A p \in DOMAIN t : Len(p) \in Nat
        BY DEF Shape
      <3>4. \A p \in DOMAIN g : Len(p) <= n + 1
        BY <1>1, <1>3, <1>4, <3>1, <3>2, <3>3
      <3> QED
        BY <3>2, <3>4
    <2> QED
      BY <2>1, <2>2, <2>3, <2>4, <2>5 DEF Shape
  <1>6. Entries(g)
    BY <1>1, <1>2 DEF Entries
  <1>7. ASSUME NEW lv PROVE EdgesOf(g, lv) = EdgesOf(t, lv)
    BY <1>1, <1>2 DEF EdgesOf
  <1> QED
    BY <1>1, <1>5, <1>6, <1>7

LEMMA ShapeKept ==
    ASSUME NEW t, Shape(t), NEW g, DOMAIN g = DOMAIN t,
           g \in [DOMAIN g -> Seq(Key)]
    PROVE  Shape(g)
  BY DEF Shape

\* An edge is put behind the others of a node of its path.
With(t, at, x) == [t EXCEPT ![at] = Append(@, x)]

LEMMA Putting ==
    ASSUME NEW t, Shape(t), Entries(t), NEW x \in Key, x \notin EdgesOf(t, 0),
           NEW at \in DOMAIN t, at = NodeOf(x, Len(at)),
           NEW g, g = With(t, at, x)
    PROVE  /\ DOMAIN g = DOMAIN t
           /\ Shape(g) /\ Entries(g)
           /\ \A lv : EdgesOf(g, lv) =
                 (EdgesOf(t, lv) \cup (IF Len(at) >= lv THEN {x} ELSE {}))
  <1>1. t[at] \in Seq(Key) /\ \A p \in DOMAIN t : t[p] \in Seq(Key) /\ Len(p) >= 0
    BY DEF Shape
  <1>2. /\ DOMAIN g = DOMAIN t
        /\ g[at] = Append(t[at], x)
        /\ \A p \in DOMAIN t : p # at => g[p] = t[p]
        /\ g = [p \in DOMAIN t |-> g[p]]
    BY DEF Shape, With
  <1>3. \A p \in DOMAIN t : x \notin Elements(t[p])
    BY <1>1 DEF EdgesOf
  <1> DEFINE s == t[at]
             one == <<x>>
  <1>4. one \in Seq(Key) /\ s \in Seq(Key) /\ g[at] = s \o one
        /\ Elements(one) = {x} /\ Distinct(one)
    <2>1. Append(s, x) = s \o <<x>>
      BY <1>1, AppendIsConcat
    <2> QED
      BY <1>1, <1>2, <2>1 DEF Elements, Distinct
  <1>5. Elements(g[at]) = Elements(t[at]) \cup {x} /\ Distinct(g[at])
    <2>1. Elements(s) \cap Elements(one) = {} /\ Distinct(s)
      BY <1>3, <1>4 DEF Entries
    <2> HIDE DEF s, one
    <2>2. Elements(s \o one) = Elements(s) \cup Elements(one) /\ Distinct(s \o one)
      BY <1>4, <2>1, Appended
    <2> QED
      BY <1>4, <2>2 DEF s
  <1>6. Shape(g)
    <2>1. \A p \in DOMAIN t : g[p] \in Seq(Key)
      <3>1. Append(t[at], x) \in Seq(Key)
        BY <1>1
      <3> QED
        BY <1>1, <1>2, <3>1
    <2> QED
      BY <1>2, <2>1, ShapeKept
  <1> HIDE DEF s, one
  <1>7. Entries(g)
    <2>1. ASSUME NEW p \in DOMAIN t
          PROVE  Distinct(g[p]) /\ \A y \in Elements(g[p]) : p = NodeOf(y, Len(p))
      <3>1. CASE p = at
        BY <1>5, <3>1 DEF Entries
      <3>2. CASE p # at
        BY <1>2, <3>2 DEF Entries
      <3> QED
        BY <3>1, <3>2
    <2>2. ASSUME NEW p \in DOMAIN t, NEW q \in DOMAIN t, p # q
          PROVE  Elements(g[p]) \cap Elements(g[q]) = {}
      <3>1. Elements(t[p]) \cap Elements(t[q]) = {}
            /\ x \notin Elements(t[p]) /\ x \notin Elements(t[q])
        BY <1>3, <2>2 DEF Entries
      <3>2. Elements(g[p]) = IF p = at THEN Elements(t[p]) \cup {x} ELSE Elements(t[p])
        BY <1>2, <1>5
      <3>3. Elements(g[q]) = IF q = at THEN Elements(t[q]) \cup {x} ELSE Elements(t[q])
        BY <1>2, <1>5
      <3> QED
        BY <2>2, <3>1, <3>2, <3>3
    <2> QED
      BY <1>2, <2>1, <2>2 DEF Entries
  <1>8. ASSUME NEW lv
        PROVE  EdgesOf(g, lv) = (EdgesOf(t, lv) \cup (IF Len(at) >= lv THEN {x} ELSE {}))
    <2>1. \A p \in DOMAIN t :
             Elements(g[p]) = IF p = at THEN Elements(t[p]) \cup {x} ELSE Elements(t[p])
      BY <1>2, <1>5
    <2> DEFINE R == EdgesOf(t, lv) \cup (IF Len(at) >= lv THEN {x} ELSE {})
    <2>2. ASSUME NEW y \in EdgesOf(g, lv) PROVE y \in R
      <3>1. PICK p \in DOMAIN t : Len(p) >= lv /\ y \in Elements(g[p])
        BY <1>2 DEF EdgesOf
      <3>2. y \in Elements(t[p]) => y \in EdgesOf(t, lv)
        BY <3>1 DEF EdgesOf
      <3> QED
        BY <2>1, <3>1, <3>2
    <2>3. ASSUME NEW y \in R PROVE y \in EdgesOf(g, lv)
      <3>1. CASE y \in EdgesOf(t, lv)
        <4>1. PICK p \in DOMAIN t : Len(p) >= lv /\ y \in Elements(t[p])
          BY <3>1 DEF EdgesOf
        <4>2. y \in Elements(g[p])
          BY <2>1, <4>1
        <4> QED
          BY <1>2, <4>1, <4>2 DEF EdgesOf
      <3>2. CASE Len(at) >= lv /\ y = x
        <4>1. x \in Elements(g[at])
          BY <1>5
        <4> QED
          BY <1>2, <3>2, <4>1 DEF EdgesOf
      <3> QED
        BY <2>3, <3>1, <3>2
    <2> QED
      BY <2>2, <2>3
  <1> QED
    BY <1>2, <1>6, <1>7, <1>8

\* The last element is moved into the gap.
LEMMA GapFilled ==
    ASSUME NEW S, NEW s \in Seq(S), Distinct(s), NEW k \in 1 .. Len(s)
    PROVE  LET r == Front([s EXCEPT ![k] = Last(s)])
           IN  r \in Seq(S) /\ Distinct(r) /\ Elements(r) = Elements(s) \ {s[k]}
  <1> DEFINE n == Len(s)
             u == [s EXCEPT ![k] = Last(s)]
             r == Front(u)
  <1>1. n \in Nat /\ n # 0 /\ n \in 1 .. n /\ k \in Nat /\ k <= n /\ 1 <= k
        /\ Last(s) = s[n] /\ s[n] \in S
    BY DEF Last
  <1>2. /\ u \in Seq(S) /\ Len(u) = n
        /\ \A i \in 1 .. n : u[i] = IF i = k THEN s[n] ELSE s[i]
    BY <1>1
  <1> HIDE DEF u
  <1>3. /\ r \in Seq(S) /\ Len(r) = n - 1
        /\ \A i \in 1 .. n - 1 : r[i] = u[i]
    <2>1. r = SubSeq(u, 1, n - 1)
      BY <1>2 DEF Front
    <2>2. n - 1 \in Int /\ \A i \in 1 .. n - 1 : i \in 1 .. n /\ u[i] \in S
      BY <1>1, <1>2
    <2> QED
      BY <1>1, <1>2, <2>1, <2>2
  <1> HIDE DEF r
  <1>4. \A i \in 1 .. n - 1 : i \in 1 .. n /\ i # n
                              /\ r[i] = IF i = k THEN s[n] ELSE s[i]
    <2> HIDE DEF n
    <2>1. \A i \in 1 .. n - 1 : i \in 1 .. n /\ i # n
      BY <1>1
    <2> QED
      BY <1>2, <1>3, <2>1
  <1>5. \A i, j \in 1 .. n : s[i] = s[j] => i = j
    BY DEF Distinct
  <1>6. Distinct(r)
    <2> SUFFICES ASSUME NEW i \in 1 .. n - 1, NEW j \in 1 .. n - 1, r[i] = r[j]
                 PROVE  i = j
      BY <1>3 DEF Distinct
    <2> QED
      BY <1>1, <1>4, <1>5
  <1>7. ASSUME NEW x \in Elements(r) PROVE x \in Elements(s) \ {s[k]}
    <2>1. PICK i \in 1 .. n - 1 : x = r[i]
      BY <1>3 DEF Elements
    <2> QED
      BY <1>1, <1>4, <1>5, <2>1 DEF Elements
  <1>8. ASSUME NEW x \in Elements(s) \ {s[k]} PROVE x \in Elements(r)
    <2>1. PICK i \in 1 .. n : x = s[i] /\ i # k
      BY DEF Elements
    <2>2. CASE i = n
      <3>1. k \in 1 .. n - 1 /\ r[k] = s[n]
        <4> HIDE DEF n
        <4>1. k \in 1 .. n - 1
          BY <1>1, <2>1, <2>2
        <4> QED
          BY <1>4, <4>1
      <3> QED
        BY <1>3, <2>1, <2>2, <3>1 DEF Elements
    <2>3. CASE i # n
      <3>1. i \in 1 .. n - 1 /\ r[i] = s[i]
        <4> HIDE DEF n
        <4>1. i \in 1 .. n - 1
          BY <1>1, <2>3
        <4> QED
          BY <1>4, <2>1, <4>1
      <3> QED
        BY <1>3, <2>1, <3>1 DEF Elements
    <2> QED
      BY <2>2, <2>3
  <1> QED
    BY <1>3, <1>6, <1>7, <1>8 DEF r, u

\* An edge is taken out of its node.
Without(t, p, k) == [t EXCEPT ![p] = Front([t[p] EXCEPT ![k] = Last(t[p])])]

LEMMA Taking ==
    ASSUME NEW t, Shape(t), Entries(t), NEW p \in DOMAIN t,
           NEW k \in 1 .. Len(t[p]), NEW x, x = t[p][k],
           NEW g, g = Without(t, p, k)
    PROVE  /\ DOMAIN g = DOMAIN t
           /\ Shape(g) /\ Entries(g)
           /\ x \in Elements(t[p])
           /\ \A lv : EdgesOf(g, lv) = EdgesOf(t, lv) \ {x}
  <1> DEFINE r == Front([t[p] EXCEPT ![k] = Last(t[p])])
  <1>1. t[p] \in Seq(Key) /\ Distinct(t[p]) /\ \A q \in DOMAIN t : t[q] \in Seq(Key)
    BY DEF Shape, Entries
  <1>2. r \in Seq(Key) /\ Distinct(r) /\ Elements(r) = Elements(t[p]) \ {x}
    BY <1>1, GapFilled
  <1> HIDE DEF r
  <1>3. /\ DOMAIN g = DOMAIN t
        /\ g[p] = r
        /\ \A q \in DOMAIN t : q # p => g[q] = t[q]
        /\ g = [q \in DOMAIN t |-> g[q]]
    BY DEF Shape, r, Without
  <1>4. x \in Elements(t[p])
    BY DEF Elements
  <1>5. Shape(g)
    <2>1. \A q \in DOMAIN t : g[q] \in Seq(Key)
      BY <1>1, <1>2, <1>3
    <2> QED
      BY <1>3, <2>1, ShapeKept
  <1>6. \A q \in DOMAIN t : Elements(g[q]) = Elements(t[q]) \ {x}
    <2> SUFFICES ASSUME NEW q \in DOMAIN t, q # p
                 PROVE  Elements(g[q]) = Elements(t[q]) \ {x}
      BY <1>2, <1>3
    <2>1. x \notin Elements(t[q])
      BY <1>4 DEF Entries
    <2> QED
      BY <1>3, <2>1
  <1>7. \A q \in DOMAIN t : Distinct(g[q])
    BY <1>2, <1>3 DEF Entries
  <1>8. Entries(g)
    BY <1>3, <1>6, <1>7 DEF Entries
  <1>9. ASSUME NEW lv PROVE EdgesOf(g, lv) = EdgesOf(t, lv) \ {x}
    <2>1. \A y : y \in EdgesOf(g, lv)
                    <=> \E q \in DOMAIN t : Len(q) >= lv /\ y \in Elements(g[q])
      BY <1>3 DEF EdgesOf
    <2>2. \A y : y \in EdgesOf(t, lv)
                    <=> \E q \in DOMAIN t : Len(q) >= lv /\ y \in Elements(t[q])
      BY DEF EdgesOf
    <2>3. \A q \in DOMAIN t : \A y :
             y \in Elements(g[q]) <=> y \in Elements(t[q]) /\ y # x
      BY <1>6
    <2>4. \A y : y \in EdgesOf(g, lv) <=> y \in EdgesOf(t, lv) /\ y # x
      BY <2>1, <2>2, <2>3, Zenon
    <2> QED
      BY <2>4
  <1> QED
    BY <1>3, <1>4, <1>5, <1>8, <1>9

-----------------------------------------------------------------------------
(* The queue of the readers.                                               *)

Parents == {m \in DOMAIN tree : is_offset_valid(m)}

\* The queue holds the children of the root and of the first f nodes in it.
Processed(q, f) ==
    {m \in Parents : m = <<>> \/ \E j \in 1 .. f : j <= Len(q) /\ q[j] = m}

\* Level by level: the children of the next node are no higher than any other.
Layered(q, f) ==
    /\ \A i, j \in 1 .. Len(q) : i <= j => Len(q[i]) <= Len(q[j])
    /\ \A j \in 1 .. Len(q) :
          /\ f = 0 => Len(q[j]) <= 1
          /\ f # 0 /\ f <= Len(q) => Len(q[j]) <= Len(q[f]) + 1

Grown(q, f) ==
    /\ q \in Seq(DOMAIN tree)
    /\ Distinct(q)
    /\ Elements(q) = UNION {Children(m) : m \in Processed(q, f)}
    /\ Layered(q, f)

LEMMA ChildSeqFacts ==
    ASSUME Shape(tree), NEW m \in DOMAIN tree
    PROVE  /\ ChildSeq(m) \in Seq(DOMAIN tree)
           /\ m \in Parents =>
                 /\ Elements(ChildSeq(m)) = Children(m)
                 /\ Distinct(ChildSeq(m))
           /\ \A j \in 1 .. Len(ChildSeq(m)) : Len(ChildSeq(m)[j]) = Len(m) + 1
  <1>0. m \in Seq(Branches) /\ NUM_BRANCH \in Nat \ {0}
    BY NumBranchType DEF Shape
  <1>1. CASE ~is_offset_valid(m)
    <2>1. ChildSeq(m) = <<>> /\ m \notin Parents
      BY <1>1 DEF ChildSeq, Parents
    <2> QED
      BY <2>1
  <1>2. CASE is_offset_valid(m)
    <2> DEFINE s == ChildSeq(m)
    <2>1. s = [b \in 1 .. NUM_BRANCH |-> Append(m, b - 1)]
          /\ Children(m) \subseteq DOMAIN tree
      BY <1>2 DEF ChildSeq, is_offset_valid
    <2> HIDE DEF s
    <2>2. /\ \A b \in 1 .. NUM_BRANCH : b - 1 \in Branches
          /\ \A b \in Branches : b + 1 \in 1 .. NUM_BRANCH /\ (b + 1) - 1 = b
      BY <1>0 DEF Branches
    <2>3. Children(m) = {Append(m, b) : b \in Branches}
      BY DEF Children, Branches
    <2>4. \A b \in 1 .. NUM_BRANCH : Append(m, b - 1) \in Children(m)
      BY <2>2, <2>3
    <2>5. s \in [1 .. NUM_BRANCH -> DOMAIN tree]
      BY <2>1, <2>4
    <2>6. s \in Seq(DOMAIN tree) /\ Len(s) = NUM_BRANCH
      BY <1>0, <2>5
    <2>7. \A b \in 1 .. NUM_BRANCH : s[b] = Append(m, b - 1)
      BY <2>1
    <2>8. Elements(s) = Children(m)
      <3>1. \A c \in Children(m) : c \in Elements(s)
        <4> SUFFICES ASSUME NEW b \in Branches PROVE Append(m, b) \in Elements(s)
          BY <2>3
        <4>1. s[b + 1] = Append(m, b) /\ b + 1 \in 1 .. Len(s)
          BY <2>2, <2>6, <2>7
        <4> QED
          BY <4>1 DEF Elements
      <3>2. \A c \in Elements(s) : c \in Children(m)
        BY <2>4, <2>6, <2>7 DEF Elements
      <3> QED
        BY <3>1, <3>2
    <2>9. Distinct(s)
      <3> SUFFICES ASSUME NEW i \in 1 .. NUM_BRANCH, NEW j \in 1 .. NUM_BRANCH,
                          s[i] = s[j]
                   PROVE  i = j
        BY <2>6 DEF Distinct
      <3> DEFINE a == i - 1
                 b == j - 1
      <3>1. a \in Branches /\ b \in Branches /\ Append(m, a) = Append(m, b)
        BY <2>2, <2>7
      <3> HIDE DEF a, b
      <3>2. a = b
        BY <1>0, <3>1, AppendInjective
      <3> QED
        BY <1>0, <3>2 DEF a, b
    <2>10. \A j \in 1 .. Len(s) : Len(s[j]) = Len(m) + 1
      BY <1>0, <2>4, <2>6, <2>7, ChildFacts
    <2> QED
      BY <2>6, <2>8, <2>9, <2>10 DEF s
  <1> QED
    BY <1>1, <1>2

\* What a round makes of the queue.
RoundOf(q, f) == IF f <= Len(q) THEN q \o ChildSeq(q[f]) ELSE q

IsRun(g) ==
    /\ g \in [0 .. get_num_nodes -> Seq(DOMAIN tree)]
    /\ g[0] = ChildSeq(<<>>)
    /\ \A f \in 1 .. get_num_nodes : g[f] = RoundOf(g[f - 1], f)

LEMMA NodesFinite ==
    ASSUME Shape(tree)
    PROVE  get_num_nodes \in Nat \ {0}
  <1>1. get_num_nodes \in Nat
    BY FS_CardinalityType DEF Shape, get_num_nodes
  <1>2. get_num_nodes # 0
    BY FS_EmptySet DEF Shape, get_num_nodes
  <1> QED
    BY <1>1, <1>2

LEMMA NextType ==
    ASSUME Shape(tree), NEW q \in Seq(DOMAIN tree), NEW f \in Nat \ {0}
    PROVE  RoundOf(q, f) \in Seq(DOMAIN tree)
  <1>1. CASE f <= Len(q)
    <2>1. q[f] \in DOMAIN tree
      BY <1>1
    <2>2. ChildSeq(q[f]) \in Seq(DOMAIN tree)
      BY <2>1, ChildSeqFacts
    <2> QED
      BY <1>1, <2>2 DEF RoundOf
  <1>2. CASE ~(f <= Len(q))
    BY <1>2 DEF RoundOf
  <1> QED
    BY <1>1, <1>2

LEMMA QueueRuns ==
    ASSUME Shape(tree)
    PROVE  IsRun(QueueAfter)
  <1> DEFINE N == get_num_nodes
             T == Seq(DOMAIN tree)
             first == ChildSeq(<<>>)
             step == [f \in 1 .. N |-> [q \in T |-> RoundOf(q, f)]]
             Eqn(g) == g = [f \in 0 .. N |->
                              IF f = 0 THEN first
                              ELSE LET q == g[f - 1]
                                   IN  IF f <= Len(q) THEN q \o ChildSeq(q[f]) ELSE q]
             after == CHOOSE g : Eqn(g)
  <1>1. N \in Nat /\ first \in T
    BY NodesFinite, ChildSeqFacts DEF Shape
  <1>2. Steps(step, N, T)
    BY <1>1, NextType DEF Steps
  <1>3. PICK h : Follows(h, step, first, N, T)
    <2> HIDE DEF step, T, N, first
    <2> QED
      BY <1>1, <1>2, Recursion
  <1>4. \A f \in 1 .. N : f - 1 \in 0 .. N /\ f \in 0 .. N /\ f # 0 /\ f \in Nat
    BY <1>1
  <1>5. /\ h \in [0 .. N -> T] /\ h[0] = first
        /\ \A f \in 1 .. N : h[f] = RoundOf(h[f - 1], f)
    <2>1. /\ h \in [0 .. N -> T] /\ h[0] = first
          /\ \A f \in 1 .. N : h[f] = step[f][h[f - 1]]
      BY <1>3 DEF Follows
    <2>2. ASSUME NEW f \in 1 .. N PROVE h[f] = RoundOf(h[f - 1], f)
      <3>1. h[f - 1] \in T /\ h[f] = step[f][h[f - 1]]
        BY <1>4, <2>1
      <3> HIDE DEF T, N
      <3> QED
        BY <3>1
    <2> QED
      BY <2>1, <2>2
  <1> HIDE DEF step, first, T
  <1>6. Eqn(h)
    <2>1. \A f \in 0 .. N :
             h[f] = IF f = 0 THEN first
                    ELSE LET q == h[f - 1]
                         IN  IF f <= Len(q) THEN q \o ChildSeq(q[f]) ELSE q
      <3> SUFFICES ASSUME NEW f \in 0 .. N, f # 0
                   PROVE  h[f] = RoundOf(h[f - 1], f)
        BY <1>5 DEF RoundOf
      <3>1. f \in 1 .. N
        BY <1>1
      <3> QED
        BY <1>5, <3>1
    <2> QED
      BY <1>5, <2>1
  <1>7. Eqn(after)
    <2> HIDE DEF Eqn
    <2> QED
      BY <1>6
  <1>8. QueueAfter = after
    BY DEF QueueAfter, first
  <1> HIDE DEF after
  <1>9. \A f \in 0 .. N :
           after[f] = IF f = 0 THEN first ELSE RoundOf(after[f - 1], f)
    BY <1>7, Zenon DEF RoundOf
  <1> DEFINE V == {f \in 0 .. N : after[f] = h[f]}
  <1>10. 0 \in V
    BY <1>1, <1>5, <1>9
  <1>11. \A f \in 1 .. N : f - 1 \in V => f \in V
    BY <1>4, <1>5, <1>9
  <1>12. 0 .. N \subseteq V
    <2> HIDE DEF V, N
    <2> QED
      BY <1>1, <1>10, <1>11, Induction
  <1>13. \A f \in 0 .. N : after[f] = h[f]
    BY <1>12
  <1>14. after \in [0 .. N -> T]
    <2>1. \A f \in 0 .. N : after[f] \in T
      BY <1>5, <1>13
    <2> QED
      BY <1>7, <2>1
  <1>15. after[0] = first /\ \A f \in 1 .. N : after[f] = RoundOf(after[f - 1], f)
    BY <1>1, <1>4, <1>9
  <1> QED
    BY <1>8, <1>14, <1>15 DEF IsRun, T, first

\* A round appends the children of one node, which are not there yet.
LEMMA Round ==
    ASSUME Shape(tree), NEW f \in Nat \ {0}, NEW q, Grown(q, f - 1)
    PROVE  Grown(RoundOf(q, f), f)
  <1> DEFINE r == RoundOf(q, f)
  <1>0. /\ q \in Seq(DOMAIN tree) /\ Len(q) \in Nat
        /\ \A j \in 1 .. f : j = f \/ j \in 1 .. f - 1
        /\ 1 .. f - 1 \subseteq 1 .. f /\ f \in 1 .. f
        /\ DOMAIN tree \subseteq Seq(Branches) /\ <<>> \in DOMAIN tree
    BY DEF Grown, Shape
  <1>1. CASE f <= Len(q)
    <2> DEFINE m == q[f]
               c == ChildSeq(m)
    <2>1. f \in 1 .. Len(q) /\ m \in DOMAIN tree /\ m \in Elements(q)
          /\ m \in Seq(Branches) /\ Len(m) \in Nat
      BY <1>0, <1>1 DEF Elements
    <2>2. /\ r = q \o c /\ c \in Seq(DOMAIN tree)
          /\ \A j \in 1 .. Len(c) : Len(c[j]) = Len(m) + 1
          /\ m \in Parents => Elements(c) = Children(m) /\ Distinct(c)
          /\ m \notin Parents => c = <<>>
      BY <1>1, <2>1, ChildSeqFacts DEF RoundOf, Parents, ChildSeq
    <2>3. m # <<>>
      <3>1. PICK p \in Parents : m \in Children(p)
        BY <2>1 DEF Grown, Processed
      <3>2. p \in Seq(Branches)
        BY <1>0 DEF Parents
      <3>3. Len(m) = Len(p) + 1 /\ Len(p) \in Nat
        BY <3>1, <3>2, ChildFacts
      <3> QED
        BY <3>3
    <2>4. m \notin Processed(q, f - 1)
      <3>1. \A j \in 1 .. f - 1 : j \in 1 .. Len(q) /\ j # f
        BY <1>0, <2>1
      <3>2. \A j \in 1 .. f - 1 : q[j] # q[f]
        BY <2>1, <3>1 DEF Grown, Distinct
      <3> QED
        BY <2>3, <3>2 DEF Processed
    <2> HIDE DEF m
    <2>5. \A p \in Processed(q, f - 1) : Children(p) \cap Children(m) = {}
      <3> SUFFICES ASSUME NEW p \in Processed(q, f - 1)
                   PROVE  Children(p) \cap Children(m) = {}
        OBVIOUS
      <3>1. p \in Seq(Branches) /\ p # m
        BY <1>0, <2>4 DEF Processed, Parents
      <3> QED
        BY <2>1, <3>1, ChildrenApart
    <2>6. Elements(c) \subseteq Children(m)
      BY <2>2 DEF Elements
    <2>7. Distinct(c)
      BY <2>2 DEF Distinct
    <2> HIDE DEF c, r
    <2>8. Elements(q) \cap Elements(c) = {}
      BY <2>5, <2>6 DEF Grown
    <2>9. Distinct(q \o c) /\ Elements(q \o c) = Elements(q) \cup Elements(c)
      <3>1. c \in Seq(DOMAIN tree) /\ Distinct(q)
        BY <2>2 DEF Grown
      <3> QED
        BY <1>0, <2>7, <2>8, <3>1, Appended
    <2>10. /\ r \in Seq(DOMAIN tree)
           /\ Len(r) = Len(q) + Len(c) /\ Len(c) \in Nat
           /\ \A j \in 1 .. Len(q) + Len(c) :
                 r[j] = IF j <= Len(q) THEN q[j] ELSE c[j - Len(q)]
      <3>1. c \in Seq(DOMAIN tree) /\ r = q \o c
        BY <2>2
      <3> QED
        BY <1>0, <3>1, ConcatProperties
    <2>11. Processed(r, f) = Processed(q, f - 1) \cup ({m} \cap Parents)
      <3>1. \A j \in 1 .. f : j <= Len(q) /\ j <= Len(r) /\ r[j] = q[j]
        <4> DEFINE k == Len(q)
                   l == Len(c)
        <4>0. f \in 1 .. k /\ k \in Nat /\ l \in Nat /\ Len(r) = k + l
          BY <1>0, <2>1, <2>10
        <4> HIDE DEF k, l
        <4>2. \A j \in 1 .. f : j <= k /\ j <= Len(r) /\ j \in 1 .. k + l
          BY <4>0
        <4>1. \A j \in 1 .. f : j <= Len(q) /\ j <= Len(r)
                                /\ j \in 1 .. Len(q) + Len(c)
          BY <4>2 DEF k, l
        <4> QED
          BY <2>10, <4>1
      <3>2. Processed(r, f) = {p \in Parents : p = <<>> \/ \E j \in 1 .. f : q[j] = p}
        BY <3>1 DEF Processed
      <3>3. Processed(q, f - 1) =
               {p \in Parents : p = <<>> \/ \E j \in 1 .. f - 1 : q[j] = p}
        BY <1>0, <3>1 DEF Processed
      <3> QED
        BY <1>0, <3>2, <3>3 DEF m
    <2>12. Elements(r) = UNION {Children(p) : p \in Processed(r, f)}
      <3>1. Elements(r) = Elements(q) \cup Elements(c)
        BY <2>2, <2>9
      <3>2. CASE m \in Parents
        <4>1. Elements(c) = Children(m)
          BY <2>2, <3>2
        <4>2. Processed(r, f) = Processed(q, f - 1) \cup {m}
          BY <2>11, <3>2
        <4> QED
          BY <3>1, <4>1, <4>2 DEF Grown
      <3>3. CASE m \notin Parents
        <4>1. Elements(c) = {}
          BY <2>2, <3>3 DEF Elements
        <4>2. Processed(r, f) = Processed(q, f - 1)
          BY <2>11, <3>3
        <4> QED
          BY <3>1, <4>1, <4>2 DEF Grown
      <3> QED
        BY <3>2, <3>3
    <2>13. /\ \A j \in 1 .. Len(q) : r[j] = q[j] /\ Len(q[j]) <= Len(m) + 1
                                     /\ Len(q[j]) \in Nat
           /\ \A j \in 1 .. Len(r) : j \notin 1 .. Len(q) => Len(r[j]) = Len(m) + 1
           /\ r[f] = m
      <3>1. \A j \in 1 .. Len(q) : r[j] = q[j] /\ Len(q[j]) \in Nat
        <4>1. \A j \in 1 .. Len(q) : j \in 1 .. Len(q) + Len(c) /\ j <= Len(q)
          BY <1>0, <2>10
        <4>2. \A j \in 1 .. Len(q) : q[j] \in Seq(Branches)
          BY <1>0
        <4> QED
          BY <2>10, <4>1, <4>2
      <3>2. ASSUME NEW j \in 1 .. Len(q) PROVE Len(q[j]) <= Len(m) + 1
        <4>1. CASE f = 1
          <5>1. f - 1 = 0
            BY <4>1
          <5>2. Len(q[j]) <= 1
            BY <5>1 DEF Grown, Layered
          <5> QED
            BY <2>1, <3>1, <5>2
        <4>2. CASE f # 1
          <5> DEFINE e == f - 1
          <5>1. e \in 1 .. Len(q) /\ e # 0 /\ e <= Len(q) /\ e <= f
            BY <1>0, <2>1, <4>2
          <5>2. Len(q[j]) <= Len(q[e]) + 1
            BY <5>1 DEF Grown, Layered
          <5> HIDE DEF e
          <5>3. Len(q[e]) <= Len(q[f])
            BY <2>1, <5>1 DEF Grown, Layered
          <5>4. Len(q[e]) \in Nat /\ Len(q[j]) \in Nat
            BY <3>1, <5>1
          <5> QED
            BY <2>1, <5>2, <5>3, <5>4 DEF m
        <4> QED
          BY <4>1, <4>2
      <3>3. ASSUME NEW j \in 1 .. Len(r), j \notin 1 .. Len(q)
            PROVE  Len(r[j]) = Len(m) + 1
        <4>1. ~(j <= Len(q)) /\ j - Len(q) \in 1 .. Len(c) /\ j \in 1 .. Len(q) + Len(c)
          BY <1>0, <2>10, <3>3
        <4> QED
          BY <2>2, <2>10, <4>1
      <3>4. r[f] = m
        BY <2>1, <3>1 DEF m
      <3> QED
        BY <3>1, <3>2, <3>3, <3>4
    <2>14. Layered(r, f)
      <3>1. \A i, j \in 1 .. Len(q) : i <= j => Len(q[i]) <= Len(q[j])
        BY DEF Grown, Layered
      <3>2. \A j \in 1 .. Len(r) : Len(r[j]) <= Len(m) + 1
        <4> SUFFICES ASSUME NEW j \in 1 .. Len(r) PROVE Len(r[j]) <= Len(m) + 1
          OBVIOUS
        <4>1. CASE j \in 1 .. Len(q)
          BY <2>13, <4>1
        <4>2. CASE j \notin 1 .. Len(q)
          BY <2>1, <2>13, <4>2
        <4> QED
          BY <4>1, <4>2
      <3>3. ASSUME NEW i \in 1 .. Len(r), NEW j \in 1 .. Len(r), i <= j
            PROVE  Len(r[i]) <= Len(r[j])
        <4>1. CASE j \in 1 .. Len(q)
          <5>1. i \in 1 .. Len(q)
            BY <1>0, <3>3, <4>1
          <5> QED
            BY <2>13, <3>1, <3>3, <4>1, <5>1
        <4>2. CASE j \notin 1 .. Len(q)
          <5>1. Len(r[j]) = Len(m) + 1
            BY <2>13, <4>2
          <5> QED
            BY <3>2, <5>1
        <4> QED
          BY <4>1, <4>2
      <3> QED
        BY <2>13, <3>2, <3>3 DEF Layered
    <2> QED
      BY <2>2, <2>9, <2>10, <2>12, <2>14 DEF Grown, r
  <1>2. CASE ~(f <= Len(q))
    <2>1. r = q
      BY <1>2 DEF RoundOf
    <2>2. Processed(q, f) = Processed(q, f - 1)
      BY <1>0, <1>2 DEF Processed
    <2>3. Layered(q, f)
      BY <1>2 DEF Grown, Layered
    <2> QED
      BY <2>1, <2>2, <2>3 DEF Grown
  <1> QED
    BY <1>1, <1>2

\* Before the loop the queue has the root's children.
LEMMA FirstRound ==
    ASSUME Shape(tree)
    PROVE  Grown(ChildSeq(<<>>), 0)
  <1> DEFINE q == ChildSeq(<<>>)
  <1>1. <<>> \in DOMAIN tree /\ Len(<<>>) = 0
    BY DEF Shape
  <1> DEFINE root == <<>>
  <1>2. q \in Seq(DOMAIN tree) /\ \A j \in 1 .. Len(q) : Len(q[j]) = 1
    <2>1. root \in DOMAIN tree /\ Len(root) = 0 /\ q = ChildSeq(root)
      BY <1>1
    <2> HIDE DEF root, q
    <2>2. ChildSeq(root) \in Seq(DOMAIN tree)
          /\ \A j \in 1 .. Len(ChildSeq(root)) :
                Len(ChildSeq(root)[j]) = Len(root) + 1
      BY <2>1, ChildSeqFacts
    <2> QED
      BY <2>1, <2>2
  <1>3. Layered(q, 0)
    <2> HIDE DEF q
    <2>1. \A i, j \in 1 .. Len(q) : i <= j => Len(q[i]) <= Len(q[j])
      <3> TAKE i, j \in 1 .. Len(q)
      <3>1. Len(q[i]) = 1 /\ Len(q[j]) = 1
        BY <1>2
      <3> QED
        BY <3>1
    <2>2. \A j \in 1 .. Len(q) : Len(q[j]) <= 1
      <3> TAKE j \in 1 .. Len(q)
      <3>1. Len(q[j]) = 1
        BY <1>2
      <3> QED
        BY <3>1
    <2> QED
      BY <2>1, <2>2 DEF Layered
  <1>4. Processed(q, 0) = {m \in Parents : m = <<>>}
    BY DEF Processed
  <1>5. CASE <<>> \in Parents
    <2>1. Processed(q, 0) = {<<>>}
      BY <1>4, <1>5
    <2>2. Elements(q) = Children(<<>>) /\ Distinct(q)
      BY <1>1, <1>5, ChildSeqFacts
    <2> HIDE DEF q
    <2> QED
      BY <1>2, <1>3, <2>1, <2>2 DEF Grown, q
  <1>6. CASE <<>> \notin Parents
    <2>1. Processed(q, 0) = {}
      BY <1>4, <1>6
    <2>2. q = <<>>
      BY <1>1, <1>6 DEF Parents, ChildSeq
    <2>3. Elements(<<>>) = {} /\ Distinct(<<>>)
      BY DEF Elements, Distinct
    <2> QED
      BY <1>2, <1>3, <2>1, <2>2, <2>3 DEF Grown
  <1> QED
    BY <1>5, <1>6

\* What the queue is after f nodes have been taken from it.
LEMMA GrownAfter ==
    ASSUME Shape(tree)
    PROVE  \A f \in 0 .. get_num_nodes : Grown(QueueAfter[f], f)
  <1> DEFINE N == get_num_nodes
             T == {f \in 0 .. N : Grown(QueueAfter[f], f)}
  <1>1. N \in Nat /\ IsRun(QueueAfter)
    BY NodesFinite, QueueRuns
  <1>2. 0 \in T
    BY <1>1, FirstRound DEF IsRun
  <1>3. \A f \in 1 .. N : f - 1 \in T => f \in T
    <2> SUFFICES ASSUME NEW f \in 1 .. N, Grown(QueueAfter[f - 1], f - 1)
                 PROVE  Grown(QueueAfter[f], f) /\ f \in 0 .. N
      OBVIOUS
    <2>1. f \in Nat \ {0} /\ f \in 0 .. N
      BY <1>1
    <2>2. QueueAfter[f] = RoundOf(QueueAfter[f - 1], f)
      BY <1>1 DEF IsRun
    <2> DEFINE q == QueueAfter[f - 1]
    <2> HIDE DEF q
    <2>3. Grown(RoundOf(q, f), f)
      <3>1. Grown(q, f - 1)
        BY DEF q
      <3> QED
        BY <2>1, <3>1, Round
    <2> QED
      BY <2>1, <2>2, <2>3 DEF q
  <1>4. 0 .. N \subseteq T
    <2> HIDE DEF T, N
    <2> QED
      BY <1>1, <1>2, <1>3, Induction
  <1> QED
    BY <1>4

\* A queue of different nodes, none of them the root, is short enough for the
\* loop to come to its end.
LEMMA QueueLength ==
    ASSUME Shape(tree), NEW q \in Seq(DOMAIN tree \ {<<>>}), Distinct(q)
    PROVE  Len(q) < get_num_nodes /\ Len(q) \in Nat
  <1> DEFINE D == DOMAIN tree
             E == D \ {<<>>}
  <1>1. IsFiniteSet(D) /\ <<>> \in D /\ Cardinality(D) = get_num_nodes
    BY DEF Shape, get_num_nodes
  <1> HIDE DEF D
  <1>2. IsFiniteSet(E) /\ Cardinality(E) = Cardinality(D) - 1 /\ Cardinality(D) \in Nat
    BY <1>1, FS_RemoveElement, FS_CardinalityType
  <1>3. q \in Seq(E) /\ Len(q) \in Nat
    BY DEF D
  <1> HIDE DEF E
  <1>4. q \in Injection(1 .. Len(q), E)
    <2>1. q \in [1 .. Len(q) -> E]
      BY <1>3, LenProperties
    <2>2. \A i, j \in 1 .. Len(q) : q[i] = q[j] => i = j
      BY DEF Distinct
    <2> QED
      BY <2>1, <2>2, Fun_IsInj
  <1>5. Cardinality(1 .. Len(q)) <= Cardinality(E)
    BY <1>2, <1>4, FS_Injection
  <1>6. Cardinality(1 .. Len(q)) = Len(q)
    <2>1. 1 \in Int /\ Len(q) \in Int /\ Len(q) >= 0
      BY <1>3
    <2>2. Cardinality(1 .. Len(q)) = IF 1 > Len(q) THEN 0 ELSE Len(q) - 1 + 1
      BY <2>1, FS_Interval, Zenon
    <2> QED
      BY <2>1, <2>2
  <1> QED
    BY <1>1, <1>2, <1>3, <1>5, <1>6

\* The root is nobody's child.
LEMMA NotRoot ==
    ASSUME Shape(tree), NEW q, NEW f, Grown(q, f)
    PROVE  q \in Seq(DOMAIN tree \ {<<>>})
  <1>1. <<>> \notin Elements(q)
    <2> SUFFICES ASSUME NEW p \in Parents, <<>> \in Children(p) PROVE FALSE
      BY DEF Grown, Processed
    <2>1. p \in Seq(Branches) /\ Len(p) \in Nat
      BY DEF Parents, Shape
    <2>2. Len(<<>>) = Len(p) + 1
      BY <2>1, ChildFacts
    <2> QED
      BY <2>1, <2>2
  <1>2. q \in Seq(DOMAIN tree)
    BY DEF Grown
  <1>3. Len(q) \in Nat /\ \A j \in 1 .. Len(q) : q[j] \in DOMAIN tree \ {<<>>}
    BY <1>1, <1>2 DEF Elements
  <1>4. q \in [1 .. Len(q) -> DOMAIN tree \ {<<>>}]
    BY <1>2, <1>3
  <1> QED
    BY <1>3, <1>4

\* The queue has every node below the root, each of them once, level by level.
LEMMA QueueIsTree ==
    ASSUME Shape(tree)
    PROVE  /\ Queue \in Seq(DOMAIN tree) /\ Distinct(Queue)
           /\ Elements(Queue) = DOMAIN tree \ {<<>>}
           /\ Len(Queue) < get_num_nodes
           /\ \A i, j \in 1 .. Len(Queue) : i <= j => Len(Queue[i]) <= Len(Queue[j])
  <1> DEFINE N == get_num_nodes
             q == Queue
  <1>1. N \in Nat /\ Grown(q, N)
    BY NodesFinite, GrownAfter DEF Queue
  <1> HIDE DEF q
  <1>2. q \in Seq(DOMAIN tree) /\ q \in Seq(DOMAIN tree \ {<<>>}) /\ Distinct(q)
    BY <1>1, NotRoot DEF Grown
  <1>3. Len(q) < N /\ Len(q) \in Nat
    BY <1>2, QueueLength
  <1> HIDE DEF N
  <1>4. Processed(q, N) = {m \in Parents : m = <<>> \/ m \in Elements(q)}
    <2>1. \A j \in 1 .. N : j <= Len(q) <=> j \in 1 .. Len(q)
      BY <1>1, <1>3
    <2>2. 1 .. Len(q) \subseteq 1 .. N
      BY <1>1, <1>3
    <2> QED
      BY <2>1, <2>2 DEF Processed, Elements
  <1> DEFINE R == {<<>>} \cup Elements(q)
  <1>5. Elements(q) \subseteq DOMAIN tree \ {<<>>}
    BY <1>2 DEF Elements
  <1>6. ASSUME NEW n \in Nat, \A p \in DOMAIN tree : Len(p) < n => p \in R,
               NEW p \in DOMAIN tree, Len(p) = n
        PROVE  p \in R
    <2>1. CASE p # <<>>
      <3>1. PICK m \in DOMAIN tree : p \in Children(m) /\ Children(m) \subseteq DOMAIN tree
        BY <2>1 DEF Shape
      <3>2. m \in Seq(Branches) /\ Len(m) \in Nat
        BY DEF Shape
      <3>3. Len(p) = Len(m) + 1
        BY <3>1, <3>2, ChildFacts
      <3>4. m \in R
        BY <1>6, <3>2, <3>3
      <3>5. m \in Processed(q, N)
        BY <1>4, <3>1, <3>4 DEF Parents, is_offset_valid
      <3>6. p \in Elements(q)
        BY <1>1, <3>1, <3>5 DEF Grown
      <3> QED
        BY <3>6
    <2> QED
      BY <2>1
  <1>7. DOMAIN tree \subseteq R
    <2> DEFINE Out == {n \in Nat : \E p \in DOMAIN tree : Len(p) = n /\ p \notin R}
    <2>1. ASSUME Out # {} PROVE FALSE
      <3>1. PICK n \in Out : \A k \in Out : n <= k
        <4>1. Out \in SUBSET Nat
          OBVIOUS
        <4> HIDE DEF Out
        <4> QED
          BY <2>1, <4>1, LeastNumber
      <3>2. PICK p \in DOMAIN tree : Len(p) = n /\ p \notin R
        BY <3>1
      <3>3. \A k \in DOMAIN tree : Len(k) \in Nat
        BY DEF Shape
      <3> HIDE DEF R
      <3>4. \A k \in DOMAIN tree : Len(k) < n => k \in R
        BY <3>1, <3>3
      <3>5. n \in Nat
        BY <3>1
      <3> QED
        BY <1>6, <3>2, <3>4, <3>5
    <2>2. \A p \in DOMAIN tree : Len(p) \in Nat
      BY DEF Shape
    <2> HIDE DEF R
    <2> QED
      BY <2>1, <2>2
  <1>8. Elements(q) = DOMAIN tree \ {<<>>}
    BY <1>5, <1>7
  <1>9. \A i, j \in 1 .. Len(q) : i <= j => Len(q[i]) <= Len(q[j])
    BY <1>1 DEF Grown, Layered
  <1> QED
    BY <1>2, <1>3, <1>8, <1>9 DEF q, N

-----------------------------------------------------------------------------
(* The invariant.                                                          *)

\* The edges of a sequence of different nodes.
LEMMA EdgesInFacts ==
    ASSUME Shape(tree), Entries(tree),
           NEW q \in Seq(DOMAIN tree), Distinct(q)
    PROVE  /\ EdgesIn(q) \in Seq(Key)
           /\ Distinct(EdgesIn(q))
           /\ Elements(EdgesIn(q)) = UNION {Elements(tree[p]) : p \in Elements(q)}
  <1> DEFINE ss == [i \in DOMAIN q |-> tree[q[i]]]
             T == Seq(Key)
  <1>1. DOMAIN q = 1 .. Len(q) /\ Len(q) \in Nat
        /\ \A i \in 1 .. Len(q) : q[i] \in DOMAIN tree
    OBVIOUS
  <1>2. \A p \in DOMAIN tree : tree[p] \in T
    BY DEF Shape
  <1>3. ss \in Seq(T) /\ Len(ss) = Len(q) /\ \A i \in 1 .. Len(q) : ss[i] = tree[q[i]]
    BY <1>1, <1>2
  <1>4. EdgesIn(q) = FlattenSeq(ss)
    BY DEF EdgesIn
  <1> HIDE DEF ss
  <1>5. \A i \in 1 .. Len(ss) : Distinct(ss[i])
    BY <1>1, <1>3 DEF Entries
  <1>6. \A i, j \in 1 .. Len(ss) : i # j => Elements(ss[i]) \cap Elements(ss[j]) = {}
    <2> SUFFICES ASSUME NEW i \in 1 .. Len(q), NEW j \in 1 .. Len(q), i # j
                 PROVE  Elements(ss[i]) \cap Elements(ss[j]) = {}
      BY <1>3
    <2>1. q[i] # q[j] /\ q[i] \in DOMAIN tree /\ q[j] \in DOMAIN tree
      BY <1>1 DEF Distinct
    <2> QED
      BY <1>3, <2>1 DEF Entries
  <1>7. /\ FlattenSeq(ss) \in Seq(Key)
        /\ Distinct(FlattenSeq(ss))
        /\ Elements(FlattenSeq(ss)) = UNION {Elements(ss[i]) : i \in 1 .. Len(ss)}
    BY <1>3, <1>5, <1>6, FlattenType, FlattenElements DEF T
  <1>8. UNION {Elements(ss[i]) : i \in 1 .. Len(ss)}
        = UNION {Elements(tree[p]) : p \in Elements(q)}
    <2>1. \A i \in 1 .. Len(q) : Elements(ss[i]) = Elements(tree[q[i]])
      BY <1>3
    <2>2. \A x : (\E i \in 1 .. Len(q) : x \in Elements(ss[i]))
                    <=> \E p \in Elements(q) : x \in Elements(tree[p])
      <3>1. \A p : p \in Elements(q) <=> \E i \in 1 .. Len(q) : q[i] = p
        BY DEF Elements
      <3> QED
        BY <2>1, <3>1
    <2> DEFINE A == UNION {Elements(ss[i]) : i \in 1 .. Len(q)}
               B == UNION {Elements(tree[p]) : p \in Elements(q)}
    <2>3. \A x : x \in A <=> \E i \in 1 .. Len(q) : x \in Elements(ss[i])
      OBVIOUS
    <2>4. \A x : x \in B <=> \E p \in Elements(q) : x \in Elements(tree[p])
      OBVIOUS
    <2> HIDE DEF A, B
    <2>5. A = B
      BY <2>2, <2>3, <2>4
    <2> QED
      BY <1>3, <2>5 DEF A, B
  <1> QED
    BY <1>4, <1>7, <1>8

\* What init_edgelist puts into the chain.
LEMMA EdgesFromFacts ==
    ASSUME Shape(tree), Entries(tree), NEW lv \in Nat \ {0}
    PROVE  /\ EdgesFrom(lv) \in Seq(Key)
           /\ Distinct(EdgesFrom(lv))
           /\ Elements(EdgesFrom(lv)) = EdgesOf(tree, lv)
  <1> DEFINE q == Queue
             F(i) == IF Len(q[i]) >= lv THEN tree[q[i]] ELSE <<>>
             ss == [i \in DOMAIN q |-> F(i)]
             T == Seq(Key)
  <1>1. /\ q \in Seq(DOMAIN tree) /\ Distinct(q)
        /\ Elements(q) = DOMAIN tree \ {<<>>}
    BY QueueIsTree
  <1>2. EdgesFrom(lv) = FlattenSeq(ss)
    BY DEF EdgesFrom
  <1> HIDE DEF q
  <1>3. DOMAIN q = 1 .. Len(q) /\ Len(q) \in Nat
        /\ \A i \in 1 .. Len(q) : q[i] \in DOMAIN tree
    BY <1>1
  <1>4. /\ \A p \in DOMAIN tree : tree[p] \in T /\ Distinct(tree[p])
        /\ <<>> \in T /\ Elements(<<>>) = {} /\ Distinct(<<>>)
    BY DEF Shape, Entries, Elements, Distinct
  <1>5. \A i \in 1 .. Len(q) :
           /\ F(i) \in T /\ Distinct(F(i))
           /\ Elements(F(i)) = IF Len(q[i]) >= lv THEN Elements(tree[q[i]]) ELSE {}
    BY <1>3, <1>4
  <1> HIDE DEF F
  <1>6. ss \in Seq(T) /\ Len(ss) = Len(q) /\ \A i \in 1 .. Len(q) : ss[i] = F(i)
    BY <1>3, <1>5
  <1> HIDE DEF ss
  <1>7. \A i \in 1 .. Len(ss) : Distinct(ss[i])
    BY <1>5, <1>6
  <1>8. \A i, j \in 1 .. Len(ss) : i # j => Elements(ss[i]) \cap Elements(ss[j]) = {}
    <2> SUFFICES ASSUME NEW i \in 1 .. Len(q), NEW j \in 1 .. Len(q), i # j
                 PROVE  Elements(F(i)) \cap Elements(F(j)) = {}
      BY <1>6
    <2>1. q[i] # q[j] /\ q[i] \in DOMAIN tree /\ q[j] \in DOMAIN tree
      BY <1>1, <1>3 DEF Distinct
    <2>2. Elements(tree[q[i]]) \cap Elements(tree[q[j]]) = {}
      BY <2>1 DEF Entries
    <2> QED
      BY <1>5, <2>2
  <1>9. /\ FlattenSeq(ss) \in Seq(Key)
        /\ Distinct(FlattenSeq(ss))
        /\ Elements(FlattenSeq(ss)) = UNION {Elements(ss[i]) : i \in 1 .. Len(ss)}
    BY <1>6, <1>7, <1>8, FlattenType, FlattenElements DEF T
  <1>10. ASSUME NEW x, NEW i \in 1 .. Len(ss), x \in Elements(ss[i])
         PROVE  x \in EdgesOf(tree, lv)
    <2>1. i \in 1 .. Len(q) /\ x \in Elements(F(i))
      BY <1>6, <1>10
    <2>2. Len(q[i]) >= lv /\ x \in Elements(tree[q[i]])
      BY <1>5, <2>1
    <2> QED
      BY <1>3, <2>1, <2>2 DEF EdgesOf
  <1>11. ASSUME NEW x \in EdgesOf(tree, lv)
         PROVE  \E i \in 1 .. Len(ss) : x \in Elements(ss[i])
    <2>1. PICK p \in DOMAIN tree : Len(p) >= lv /\ x \in Elements(tree[p])
      BY DEF EdgesOf
    <2>2. p # <<>>
      <3>1. Len(<<>>) = 0
        OBVIOUS
      <3> QED
        BY <2>1, <3>1
    <2>3. PICK i \in 1 .. Len(q) : q[i] = p
      BY <1>1, <2>2 DEF Elements
    <2>4. x \in Elements(F(i))
      BY <1>5, <2>1, <2>3
    <2> QED
      BY <1>6, <2>4
  <1>12. UNION {Elements(ss[i]) : i \in 1 .. Len(ss)} = EdgesOf(tree, lv)
    BY <1>10, <1>11
  <1> QED
    BY <1>2, <1>9, <1>12

\* The chain holds the edges of the deep levels, and those deleted from them
\* since the start, each as often as that.
ChainInv ==
    /\ Chained(chain, ChainEdges)
    /\ stale \in Seq(Key)
    /\ \A x : Count(ChainEdges, x) =
                 One(x, EdgesOf(tree, EL_START_LV)) + Count(stale, x)
    /\ stale # <<>> => \E p \in DOMAIN tree : Len(p) >= EL_START_LV

ListInv ==
    /\ EL_START_LV \in Nat \ {0}
    /\ Shape(tree)
    /\ Entries(tree)
    /\ ChainInv

LEMMA ChainEdgesArrays == ChainEdges = FlattenSeq(ArrayEdges(chain))
  BY DEF ChainEdges, ArrayEdges

LEMMA InitListInv == Init => ListInv
  <1> SUFFICES ASSUME Init PROVE ListInv
    OBVIOUS
  <1>1. EL_START_LV \in Nat \ {0}
    BY EdgeListAssumption DEF Init
  <1>2. DOMAIN tree = {<<>>} /\ tree[<<>>] = <<>> /\ tree = [p \in {<<>>} |-> tree[p]]
        /\ chain = <<>> /\ stale = <<>>
    BY DEF Init
  <1>3. Elements(<<>>) = {} /\ Distinct(<<>>) /\ <<>> \in Seq(Key)
        /\ <<>> \in Seq(Branches) /\ Len(<<>>) = 0
    BY DEF Elements, Distinct
  <1>4. Shape(tree)
    <2>1. IsFiniteSet({<<>>})
      BY FS_Singleton
    <2>2. tree \in [DOMAIN tree -> Seq(Key)]
      BY <1>2, <1>3
    <2>3. \E n \in Nat : \A p \in DOMAIN tree : Len(p) <= n
      <3>1. 0 \in Nat /\ \A p \in DOMAIN tree : Len(p) <= 0
        BY <1>2, <1>3
      <3> QED
        BY <3>1
    <2> QED
      BY <1>2, <1>3, <2>1, <2>2, <2>3 DEF Shape
  <1>5. Entries(tree)
    BY <1>2, <1>3 DEF Entries
  <1>6. ChainInv
    <2>1. ChainEdges = <<>>
      <3>1. ArrayEdges(<<>>) = <<>>
        BY DEF ArrayEdges
      <3> QED
        BY <1>2, <3>1, ChainEdgesArrays, FlattenEmpty
    <2>2. Chained(chain, ChainEdges)
      BY <1>2, <2>1, ChainedEmpty
    <2>3. EdgesOf(tree, EL_START_LV) = {}
      BY <1>2, <1>3 DEF EdgesOf
    <2>4. \A x : Count(<<>>, x) = 0
      BY <1>3, CountType
    <2>5. \A x : Count(ChainEdges, x) =
                    One(x, EdgesOf(tree, EL_START_LV)) + Count(stale, x)
      BY <1>2, <2>1, <2>3, <2>4 DEF One
    <2> QED
      BY <1>2, <1>3, <2>2, <2>5 DEF ChainInv
  <1> QED
    BY <1>1, <1>4, <1>5, <1>6 DEF ListInv

\* An insertion: the edge is put into a node of its path, which may just have
\* been added to the tree.
LEMMA InsertNode ==
    ASSUME Shape(tree), Entries(tree), NEW x \in Key, InsertEdge(x)
    PROVE  \E g, at :
             /\ Shape(g) /\ Entries(g) /\ DOMAIN tree \subseteq DOMAIN g
             /\ \A lv : EdgesOf(g, lv) = EdgesOf(tree, lv)
             /\ at \in DOMAIN g /\ at = NodeOf(x, Len(at))
             /\ tree' = With(g, at, x)
             /\ chain' = IF Len(at) >= EL_START_LV THEN insert_el(chain, x) ELSE chain
  <1> DEFINE room == {p \in OnPath(x) : Len(tree[p]) < MAX_ENTRY_NUM}
             leaf == CHOOSE p \in OnPath(x) : ~is_offset_valid(p)
             grown == IF room # {} THEN tree ELSE Branched(tree, leaf)
             at == IF room = {} THEN NodeOf(x, Len(leaf) + 1)
                   ELSE CHOOSE p \in room : \A q \in room : Len(p) <= Len(q)
  <1>1. /\ tree' = With(grown, at, x)
        /\ chain' = IF Len(at) >= EL_START_LV THEN insert_el(chain, x) ELSE chain
    BY DEF InsertEdge, With
  <1>2. CASE room # {}
    <2> DEFINE lens == {Len(p) : p \in room}
    <2>1. room \subseteq OnPath(x) /\ OnPath(x) \subseteq DOMAIN tree
          /\ \A p \in DOMAIN tree : Len(p) \in Nat
      BY DEF OnPath, Shape
    <2> HIDE DEF room
    <2>2. lens \in SUBSET Nat /\ lens # {}
      BY <1>2, <2>1
    <2>3. PICK n \in lens : \A m \in lens : n <= m
      <3> HIDE DEF lens
      <3> QED
        BY <2>2, LeastNumber
    <2>4. \E p \in room : \A q \in room : Len(p) <= Len(q)
      BY <2>3
    <2>5. at \in room
      BY <1>2, <2>4
    <2>6. grown = tree
      BY <1>2
    <2> HIDE DEF at, grown
    <2>7. at \in DOMAIN tree /\ at = NodeOf(x, Len(at))
      BY <2>1, <2>5 DEF OnPath
    <2> QED
      BY <1>1, <2>6, <2>7
  <1>3. CASE room = {}
    <2>1. leaf \in OnPath(x)
      BY PathEnds
    <2>2. grown = Branched(tree, leaf) /\ at = NodeOf(x, Len(leaf) + 1)
      BY <1>3
    <2> HIDE DEF leaf, room, grown, at
    <2>3. leaf \in DOMAIN tree /\ leaf = NodeOf(x, Len(leaf)) /\ Len(leaf) \in Nat
      BY <2>1 DEF OnPath, Shape
    <2>4. /\ DOMAIN grown = DOMAIN tree \cup Children(leaf)
          /\ Shape(grown) /\ Entries(grown)
          /\ \A lv : EdgesOf(grown, lv) = EdgesOf(tree, lv)
      BY <2>2, <2>3, Branching
    <2>5. at \in Children(leaf)
      BY <2>2, <2>3, NodeOfFacts
    <2>6. Len(at) = Len(leaf) + 1
      <3> DEFINE n == Len(leaf) + 1
      <3>1. n \in Nat
        BY <2>3
      <3> HIDE DEF n
      <3>2. Len(NodeOf(x, n)) = n
        BY <3>1, NodeOfFacts
      <3> QED
        BY <2>2, <3>2 DEF n
    <2> QED
      BY <1>1, <2>2, <2>4, <2>5, <2>6
  <1> QED
    BY <1>2, <1>3

LEMMA InsertStep ==
    ASSUME ListInv, NEW x \in Key, InsertEdge(x)
    PROVE  ListInv'
  <1>1. Shape(tree) /\ Entries(tree) /\ EL_START_LV \in Nat \ {0}
        /\ EL_START_LV' = EL_START_LV /\ stale' = stale /\ ~find_edge_t(x)
    BY DEF ListInv, InsertEdge
  <1>2. PICK g, at :
             /\ Shape(g) /\ Entries(g) /\ DOMAIN tree \subseteq DOMAIN g
             /\ \A lv : EdgesOf(g, lv) = EdgesOf(tree, lv)
             /\ at \in DOMAIN g /\ at = NodeOf(x, Len(at))
             /\ tree' = With(g, at, x)
             /\ chain' = IF Len(at) >= EL_START_LV THEN insert_el(chain, x) ELSE chain
    BY <1>1, InsertNode
  <1>3. x \notin EdgesOf(tree, 0) /\ x \notin EdgesOf(g, 0)
    BY <1>1, <1>2, Found
  <1>4. x \notin EdgesOf(tree, EL_START_LV)
    <2>1. \A p \in DOMAIN tree : Len(p) >= 0
      BY <1>1 DEF Shape
    <2>2. EdgesOf(tree, EL_START_LV) \subseteq EdgesOf(tree, 0)
      BY <2>1 DEF EdgesOf
    <2> QED
      BY <1>3, <2>2
  <1> DEFINE t == tree'
  <1>5. /\ DOMAIN t = DOMAIN g
        /\ Shape(t) /\ Entries(t)
        /\ \A lv : EdgesOf(t, lv) =
              (EdgesOf(g, lv) \cup (IF Len(at) >= lv THEN {x} ELSE {}))
    <2>1. t = With(g, at, x)
      BY <1>2
    <2> HIDE DEF t
    <2> QED
      BY <1>2, <1>3, <2>1, Putting
  <1>6. (Shape(tree))' /\ (Entries(tree))' /\ (EL_START_LV \in Nat \ {0})'
    BY <1>1, <1>5
  <1>7. ChainInv'
    <2> DEFINE D == EdgesOf(tree, EL_START_LV)
               s == ChainEdges
    <2>1. Chained(chain, s) /\ s \in Seq(Key) /\ stale \in Seq(Key)
          /\ \A y : Count(s, y) = One(y, D) + Count(stale, y)
      BY ChainedType DEF ListInv, ChainInv
    <2>2. (EdgesOf(tree, EL_START_LV))' =
             (D \cup (IF Len(at) >= EL_START_LV THEN {x} ELSE {}))
      BY <1>1, <1>2, <1>5
    <2>3. (stale \in Seq(Key))'
          /\ (stale # <<>> => \E p \in DOMAIN tree : Len(p) >= EL_START_LV)'
      BY <1>1, <1>2, <1>5 DEF ListInv, ChainInv
    <2> HIDE DEF D, s
    <2>4. CASE Len(at) >= EL_START_LV
      <3>1. Chained(chain', Append(s, x))
        BY <1>2, <2>1, <2>4, ChainedInsert
      <3>2. ChainEdges' = Append(s, x)
        BY <3>1, ChainEdgesArrays DEF Chained, ChainEdges, ArrayEdges
      <3>3. \A y : Count(Append(s, x), y) = One(y, D \cup {x}) + Count(stale, y)
        <4> SUFFICES ASSUME NEW y
                     PROVE  Count(Append(s, x), y) = One(y, D \cup {x}) + Count(stale, y)
          OBVIOUS
        <4>1. Count(Append(s, x), y) = Count(s, y) + One(y, {x})
          BY <2>1, CountAppend
        <4>2. Count(s, y) \in Nat /\ Count(stale, y) \in Nat
          BY <2>1, CountType
        <4> QED
          BY <1>4, <2>1, <4>1, <4>2 DEF One, D
      <3>4. (EdgesOf(tree, EL_START_LV))' = D \cup {x}
        BY <2>2, <2>4
      <3>5. (\A y : Count(ChainEdges, y) =
                       One(y, EdgesOf(tree, EL_START_LV)) + Count(stale, y))'
        BY <1>1, <3>2, <3>3, <3>4
      <3> QED
        BY <2>3, <3>1, <3>2, <3>5 DEF ChainInv
    <2>5. CASE ~(Len(at) >= EL_START_LV)
      <3>1. chain' = chain /\ ChainEdges' = s
        BY <1>2, <2>5 DEF ChainEdges, s
      <3>2. (EdgesOf(tree, EL_START_LV))' = D
        BY <2>2, <2>5
      <3>3. (\A y : Count(ChainEdges, y) =
                       One(y, EdgesOf(tree, EL_START_LV)) + Count(stale, y))'
        BY <1>1, <2>1, <3>1, <3>2
      <3> QED
        BY <2>1, <2>3, <3>1, <3>3 DEF ChainInv
    <2> QED
      BY <2>4, <2>5
  <1> QED
    BY <1>6, <1>7 DEF ListInv

LEMMA DeleteStep ==
    ASSUME ListInv, NEW x \in Key, DeleteEdge(x)
    PROVE  ListInv'
  <1>1. Shape(tree) /\ Entries(tree) /\ EL_START_LV \in Nat \ {0}
    BY DEF ListInv
  <1>2. PICK p \in OnPath(x) : \E k \in DOMAIN tree[p] :
          /\ tree[p][k] = x
          /\ tree' = [tree EXCEPT ![p] = Front([tree[p] EXCEPT ![k] = Last(tree[p])])]
          /\ stale' = IF Len(p) >= EL_START_LV THEN Append(stale, x) ELSE stale
          /\ UNCHANGED <<EL_START_LV, chain>>
    BY DEF DeleteEdge
  <1>3. PICK k \in DOMAIN tree[p] :
          /\ tree[p][k] = x
          /\ tree' = [tree EXCEPT ![p] = Front([tree[p] EXCEPT ![k] = Last(tree[p])])]
          /\ stale' = IF Len(p) >= EL_START_LV THEN Append(stale, x) ELSE stale
          /\ UNCHANGED <<EL_START_LV, chain>>
    BY <1>2
  <1>4. p \in DOMAIN tree /\ tree[p] \in Seq(Key) /\ k \in 1 .. Len(tree[p])
    BY <1>1 DEF OnPath, Shape
  <1> DEFINE t == tree'
  <1>5. /\ DOMAIN t = DOMAIN tree
        /\ Shape(t) /\ Entries(t)
        /\ x \in Elements(tree[p])
        /\ \A lv : EdgesOf(t, lv) = EdgesOf(tree, lv) \ {x}
    <2>1. t = Without(tree, p, k)
      BY <1>3 DEF Without
    <2> HIDE DEF t
    <2> QED
      BY <1>1, <1>3, <1>4, <2>1, Taking
  <1>6. (Shape(tree))' /\ (Entries(tree))' /\ (EL_START_LV \in Nat \ {0})'
    BY <1>1, <1>3, <1>5
  <1>7. ChainInv'
    <2> DEFINE D == EdgesOf(tree, EL_START_LV)
               s == ChainEdges
    <2>1. Chained(chain, s) /\ stale \in Seq(Key)
          /\ \A y : Count(s, y) = One(y, D) + Count(stale, y)
      BY DEF ListInv, ChainInv
    <2>2. chain' = chain /\ ChainEdges' = s
          /\ (EdgesOf(tree, EL_START_LV))' = D \ {x}
      BY <1>3, <1>5 DEF ChainEdges
    <2>3. x \in D <=> Len(p) >= EL_START_LV
      <3>1. \A q \in DOMAIN tree : x \in Elements(tree[q]) => q = p
        BY <1>1, <1>4, <1>5 DEF Entries
      <3> QED
        BY <1>4, <1>5, <3>1 DEF EdgesOf
    <2>4. /\ stale' \in Seq(Key)
          /\ \A y : Count(s, y) = One(y, D \ {x}) + Count(stale', y)
          /\ stale' # <<>> => \E q \in DOMAIN tree : Len(q) >= EL_START_LV
      <3> HIDE DEF D, s
      <3>1. CASE Len(p) >= EL_START_LV
        <4>1. stale' = Append(stale, x) /\ stale' \in Seq(Key)
          BY <1>3, <2>1, <3>1
        <4>2. \A y : Count(s, y) = One(y, D \ {x}) + Count(stale', y)
          <5> SUFFICES ASSUME NEW y
                       PROVE  Count(s, y) = One(y, D \ {x}) + Count(stale', y)
            OBVIOUS
          <5>1. Count(stale', y) = Count(stale, y) + One(y, {x})
            BY <2>1, <4>1, CountAppend
          <5>2. Count(s, y) = One(y, D) + Count(stale, y) /\ Count(stale, y) \in Nat
            BY <2>1, CountType
          <5>3. One(y, D) = One(y, D \ {x}) + One(y, {x})
            BY <2>3, <3>1 DEF One
          <5>4. One(y, D \ {x}) \in Nat /\ One(y, {x}) \in Nat
            BY DEF One
          <5> QED
            BY <5>1, <5>2, <5>3, <5>4
        <4> QED
          BY <1>4, <3>1, <4>1, <4>2
      <3>2. CASE ~(Len(p) >= EL_START_LV)
        <4>1. stale' = stale /\ D \ {x} = D
          BY <1>3, <2>3, <3>2
        <4> QED
          BY <2>1, <4>1 DEF ListInv, ChainInv
      <3> QED
        BY <3>1, <3>2
    <2>5. (\E q \in DOMAIN tree : Len(q) >= EL_START_LV)
             <=> (\E q \in DOMAIN tree : Len(q) >= EL_START_LV)'
      BY <1>3, <1>5
    <2> HIDE DEF D, s
    <2>6. (\A y : Count(ChainEdges, y) =
                     One(y, EdgesOf(tree, EL_START_LV)) + Count(stale, y))'
      BY <2>2, <2>4
    <2>7. Chained(chain, ChainEdges)'
      BY <2>1, <2>2
    <2> QED
      BY <2>4, <2>5, <2>6, <2>7 DEF ChainInv
  <1> QED
    BY <1>6, <1>7 DEF ListInv

LEMMA RestartStep ==
    ASSUME ListInv, Restart
    PROVE  ListInv'
  <1> DEFINE s == EdgesFrom(EL_START_LV)
             D == EdgesOf(tree, EL_START_LV)
  <1>1. Shape(tree) /\ Entries(tree) /\ EL_START_LV \in Nat \ {0}
        /\ EL_START_LV' = EL_START_LV /\ tree' = tree
        /\ stale' = <<>> /\ chain' = ChainOf(s)
    BY DEF ListInv, Restart
  <1>2. s \in Seq(Key) /\ Distinct(s) /\ Elements(s) = D
    BY <1>1, EdgesFromFacts
  <1> HIDE DEF s
  <1>3. Chained(chain', s)
    BY <1>1, <1>2, ChainedRestart
  <1>4. ChainEdges' = s
    BY <1>3 DEF Chained, ChainEdges, ArrayEdges
  <1>5. \A x : Count(s, x) = One(x, D) + Count(<<>>, x)
    <2> SUFFICES ASSUME NEW x PROVE Count(s, x) = One(x, D) + Count(<<>>, x)
      OBVIOUS
    <2>1. Count(s, x) = One(x, D)
      BY <1>2, CountDistinct
    <2>2. Count(<<>>, x) = 0
      <3>1. <<>> \in Seq(Key) /\ Elements(<<>>) = {}
        BY DEF Elements
      <3> QED
        BY <3>1, CountType
    <2>3. One(x, D) \in Nat
      BY DEF One
    <2> QED
      BY <2>1, <2>2, <2>3
  <1>6. ChainInv'
    <2>1. D' = D
      BY <1>1
    <2> HIDE DEF D
    <2>2. (\A x : Count(ChainEdges, x) =
                     One(x, EdgesOf(tree, EL_START_LV)) + Count(stale, x))'
      BY <1>1, <1>4, <1>5, <2>1 DEF D
    <2> QED
      BY <1>1, <1>3, <1>4, <2>2 DEF ChainInv
  <1> QED
    BY <1>1, <1>6 DEF ListInv

\* Between two calls the tree has its shape, and the chain what the tree has
\* on the deep levels besides what was deleted there.
THEOREM ListInvariant == Spec => []ListInv
  <1>1. ListInv /\ [Next]_vars => ListInv'
    <2> SUFFICES ASSUME ListInv, [Next]_vars PROVE ListInv'
      OBVIOUS
    <2>1. CASE Restart
      BY <2>1, RestartStep
    <2>2. ASSUME NEW x \in Key, InsertEdge(x) PROVE ListInv'
      BY <2>2, InsertStep
    <2>3. ASSUME NEW x \in Key, DeleteEdge(x) PROVE ListInv'
      BY <2>3, DeleteStep
    <2>4. CASE UNCHANGED vars
      BY <2>4 DEF vars, ListInv, ChainInv, ChainEdges
    <2> QED
      BY <2>1, <2>2, <2>3, <2>4 DEF Next
  <1> QED
    BY <1>1, InitListInv, PTL DEF Spec

\* No array of the chain is written past its end, only the last one has room
\* left, and the memory counted is enough for the edges (insert_el,
\* init_edgelist and get_num_elbytes of vertex_index.h).
THEOREM ChainPackedHolds == Spec => []ChainPacked
  <1>1. ListInv => ChainPacked
    <2> SUFFICES ASSUME ListInv PROVE ChainPacked
      OBVIOUS
    <2>1. chain \in Seq(Array) /\ Packed(chain)
      BY DEF ListInv, ChainInv, Chained
    <2> QED
      BY <2>1, BytesEnough DEF ChainPacked, Packed
  <1> QED
    BY <1>1, ListInvariant, PTL

-----------------------------------------------------------------------------
(* The readers.                                                            *)

LEMMA BeforeFacts ==
    ASSUME NEW n \in Nat, NEW I \in SUBSET (1 .. n)
    PROVE  /\ Before(I, n) \in 0 .. n
           /\ \A i \in 1 .. Before(I, n) : i \notin I
           /\ I # {} => Before(I, n) + 1 \in I
           /\ I = {} => Before(I, n) = n
  <1>1. CASE I = {}
    <2>1. Before(I, n) = n
      BY <1>1 DEF Before
    <2> QED
      BY <1>1, <2>1
  <1>2. CASE I # {}
    <2> DEFINE m == Min(I)
    <2>1. \E i \in I : \A j \in I : i <= j
      <3>1. I \in SUBSET Nat
        OBVIOUS
      <3> QED
        BY <1>2, <3>1, LeastNumber
    <2>2. m \in I /\ \A j \in I : m <= j
      BY <2>1 DEF Min
    <2> HIDE DEF m
    <2>3. m \in 1 .. n
      BY <2>2
    <2>4. Before(I, n) = m - 1
      BY <1>2 DEF Before, m
    <2>5. m - 1 \in 0 .. n /\ (m - 1) + 1 = m
          /\ \A i \in 1 .. m - 1 : i \in Nat /\ ~(m <= i)
      BY <2>3
    <2>6. \A i \in 1 .. m - 1 : i \notin I
      BY <2>2, <2>5
    <2> QED
      BY <1>2, <2>2, <2>4, <2>5, <2>6
  <1> QED
    BY <1>1, <1>2

\* The edges of the root, and those of nodes below it.
LEMMA RootFirst ==
    ASSUME Shape(tree), Entries(tree),
           NEW q \in Seq(DOMAIN tree), Distinct(q), <<>> \notin Elements(q)
    PROVE  LET s == tree[<<>>] \o EdgesIn(q)
           IN  /\ s \in Seq(Key) /\ Distinct(s)
               /\ \A x : x \in Elements(s) <=>
                     \E p \in {<<>>} \cup Elements(q) : x \in Elements(tree[p])
  <1> DEFINE a == tree[<<>>]
             b == EdgesIn(q)
             s == a \o b
  <1>1. <<>> \in DOMAIN tree /\ \A p \in Elements(q) : p \in DOMAIN tree
    BY DEF Shape, Elements
  <1>2. a \in Seq(Key) /\ Distinct(a)
    BY <1>1 DEF Shape, Entries
  <1>3. b \in Seq(Key) /\ Distinct(b)
        /\ Elements(b) = UNION {Elements(tree[p]) : p \in Elements(q)}
    BY EdgesInFacts
  <1>4. Elements(a) \cap Elements(b) = {}
    <2>1. \A p \in Elements(q) : Elements(a) \cap Elements(tree[p]) = {}
      BY <1>1 DEF Entries
    <2> HIDE DEF a, b
    <2> QED
      BY <1>3, <2>1
  <1>5. s \in Seq(Key) /\ Distinct(s) /\ Elements(s) = Elements(a) \cup Elements(b)
    <2> HIDE DEF a, b
    <2>1. a \o b \in Seq(Key)
      BY <1>2, <1>3
    <2>2. Distinct(a \o b) /\ Elements(a \o b) = Elements(a) \cup Elements(b)
      BY <1>2, <1>3, <1>4, Appended
    <2> QED
      BY <2>1, <2>2
  <1> HIDE DEF b, s
  <1>6. \A x : x \in Elements(s) <=>
                  \E p \in {<<>>} \cup Elements(q) : x \in Elements(tree[p])
    BY <1>3, <1>5
  <1> QED
    BY <1>5, <1>6 DEF s, b

LEMMA TreeEdgesSet ==
    ASSUME Shape(tree), Entries(tree)
    PROVE  TreeEdges = SetToBag(EdgesOf(tree, 0))
  <1>1. \A x : x \in EdgesOf(tree, 0) <=> x \in Key /\ find_edge_t(x)
    BY Found, EdgesOfType
  <1>2. {x \in Key : find_edge_t(x)} = EdgesOf(tree, 0)
    BY <1>1
  <1> QED
    BY <1>2 DEF TreeEdges

\* The levels above EL_START_LV, from the tree, and the chain.
LEMMA UpperAndChain ==
    ASSUME ListInv,
           NEW q \in Seq(DOMAIN tree), Distinct(q),
           \A p : p \in Elements(q)
                     <=> p \in DOMAIN tree /\ p # <<>> /\ Len(p) < EL_START_LV
    PROVE  ToBag(tree[<<>>] \o EdgesIn(q) \o ChainEdges) = TreeEdges (+) ToBag(stale)
  <1> DEFINE s == tree[<<>>] \o EdgesIn(q)
             c == ChainEdges
             D == EdgesOf(tree, EL_START_LV)
             A == EdgesOf(tree, 0)
  <1>1. /\ Shape(tree) /\ Entries(tree) /\ stale \in Seq(Key) /\ c \in Seq(Key)
        /\ \A x : Count(c, x) = One(x, D) + Count(stale, x)
        /\ EL_START_LV \in Nat \ {0}
    BY ChainedType DEF ListInv, ChainInv
  <1>2. /\ s \in Seq(Key) /\ Distinct(s)
        /\ \A x : x \in Elements(s) <=>
              \E p \in {<<>>} \cup Elements(q) : x \in Elements(tree[p])
    BY <1>1, RootFirst
  <1>3. /\ <<>> \in DOMAIN tree /\ Len(<<>>) = 0 /\ ~(Len(<<>>) >= EL_START_LV)
        /\ \A p \in DOMAIN tree : Len(p) \in Nat
    BY <1>1 DEF Shape
  <1> HIDE DEF s, c
  <1>4. \A p : p \in {<<>>} \cup Elements(q)
                  <=> p \in DOMAIN tree /\ ~(Len(p) >= EL_START_LV)
    BY <1>1, <1>3
  <1>5. \A x : x \in A <=> \E p \in DOMAIN tree : x \in Elements(tree[p])
    BY <1>3 DEF EdgesOf
  <1>6. \A x : x \in D <=> \E p \in DOMAIN tree :
                              Len(p) >= EL_START_LV /\ x \in Elements(tree[p])
    BY DEF EdgesOf
  <1> HIDE DEF A, D
  <1>7. \A x : x \in A <=> x \in Elements(s) \/ x \in D
    BY <1>2, <1>4, <1>5, <1>6
  <1>8. ASSUME NEW x, x \in Elements(s), x \in D PROVE FALSE
    <2>1. PICK p \in DOMAIN tree : ~(Len(p) >= EL_START_LV) /\ x \in Elements(tree[p])
      BY <1>2, <1>4, <1>8
    <2>2. PICK r \in DOMAIN tree : Len(r) >= EL_START_LV /\ x \in Elements(tree[r])
      BY <1>6, <1>8
    <2>3. p # r
      BY <2>1, <2>2
    <2> QED
      BY <1>1, <2>1, <2>2, <2>3 DEF Entries
  <1>9. \A x : Count(s \o c, x) = One(x, A) + Count(stale, x)
    <2> SUFFICES ASSUME NEW x PROVE Count(s \o c, x) = One(x, A) + Count(stale, x)
      OBVIOUS
    <2>1. Count(s \o c, x) = Count(s, x) + Count(c, x)
      BY <1>1, <1>2, CountConcat
    <2>2. Count(s, x) = One(x, Elements(s))
      BY <1>2, CountDistinct
    <2>3. Count(c, x) = One(x, D) + Count(stale, x) /\ Count(stale, x) \in Nat
      BY <1>1, CountType
    <2>4. One(x, A) = One(x, Elements(s)) + One(x, D)
      BY <1>7, <1>8 DEF One
    <2>5. One(x, Elements(s)) \in Nat /\ One(x, D) \in Nat
      BY DEF One
    <2> QED
      BY <2>1, <2>2, <2>3, <2>4, <2>5
  <1>10. s \o c \in Seq(Key)
    BY <1>1, <1>2
  <1> DEFINE u == s \o c
  <1>11. u \in Seq(Key) /\ \A x : Count(u, x) = One(x, A) + Count(stale, x)
    BY <1>9, <1>10
  <1> HIDE DEF u
  <1>12. ToBag(u) = SetToBag(A) (+) ToBag(stale)
    BY <1>1, <1>11, BagOfUnion
  <1> QED
    BY <1>1, <1>12, TreeEdgesSet DEF u, s, c, A

\* All nodes of the tree.
LEMMA AllNodes ==
    ASSUME Shape(tree), Entries(tree),
           NEW q \in Seq(DOMAIN tree), Distinct(q),
           Elements(q) = DOMAIN tree \ {<<>>}
    PROVE  /\ tree[<<>>] \o EdgesIn(q) \in Seq(Key)
           /\ ToBag(tree[<<>>] \o EdgesIn(q)) = TreeEdges
  <1> DEFINE s == tree[<<>>] \o EdgesIn(q)
  <1>1. /\ s \in Seq(Key) /\ Distinct(s)
        /\ \A x : x \in Elements(s) <=>
              \E p \in {<<>>} \cup Elements(q) : x \in Elements(tree[p])
    BY RootFirst
  <1> HIDE DEF s
  <1>2. {<<>>} \cup Elements(q) = DOMAIN tree /\ \A p \in DOMAIN tree : Len(p) >= 0
    <2>1. <<>> \in DOMAIN tree
      BY DEF Shape
    <2>2. \A p \in DOMAIN tree : Len(p) >= 0
      BY DEF Shape
    <2> QED
      BY <2>1, <2>2
  <1>3. Elements(s) = EdgesOf(tree, 0)
    <2>1. \A x : x \in EdgesOf(tree, 0) <=> \E p \in DOMAIN tree : x \in Elements(tree[p])
      BY <1>2 DEF EdgesOf
    <2>2. \A x : x \in Elements(s) <=> x \in EdgesOf(tree, 0)
      BY <1>1, <1>2, <2>1
    <2> QED
      BY <2>2
  <1>4. ToBag(s) = SetToBag(Elements(s))
    BY <1>1, BagOfDistinct
  <1> QED
    BY <1>1, <1>3, <1>4, TreeEdgesSet DEF s

\* Nothing stale in a chain that nothing was ever put into.
LEMMA NothingDeep ==
    ASSUME ListInv, \A p \in DOMAIN tree : ~(Len(p) >= EL_START_LV)
    PROVE  TreeEdges (+) ToBag(stale) = TreeEdges
  <1>1. stale = <<>>
    BY DEF ListInv, ChainInv
  <1>2. ToBag(<<>>) = [x \in {} |-> 0]
    <2>1. <<>> \in Seq(Key) /\ Elements(<<>>) = {}
      BY DEF Elements
    <2>2. ToBag(<<>>) = [x \in Elements(<<>>) |-> Count(<<>>, x)]
      BY <2>1, BagOfSequence
    <2> QED
      BY <2>1, <2>2
  <1> DEFINE A == {x \in Key : find_edge_t(x)}
             a == SetToBag(A)
             b == ToBag(<<>>)
  <1>3. DOMAIN b = {} /\ DOMAIN a = A /\ (\A x \in A : a[x] = 1)
        /\ a = [x \in A |-> 1]
    BY <1>2 DEF SetToBag
  <1> HIDE DEF a, b, A
  <1>4. a (+) b = [x \in (DOMAIN a) \cup (DOMAIN b) |->
                     (IF x \in DOMAIN a THEN a[x] ELSE 0)
                     + (IF x \in DOMAIN b THEN b[x] ELSE 0)]
    BY DEF (+)
  <1>5. a (+) b = [x \in A |-> 1]
    BY <1>3, <1>4
  <1> QED
    BY <1>1, <1>3, <1>5 DEF TreeEdges, a, b, A

\* A vertex with one node.
LEMMA RootOnly ==
    ASSUME ListInv, get_num_nodes <= 1
    PROVE  /\ tree[<<>>] \in Seq(Key)
           /\ ToBag(tree[<<>>]) = TreeEdges
           /\ TreeEdges (+) ToBag(stale) = TreeEdges
           /\ Queue = <<>>
  <1>1. Shape(tree) /\ Entries(tree) /\ EL_START_LV \in Nat \ {0}
    BY DEF ListInv
  <1>2. /\ Queue \in Seq(DOMAIN tree) /\ Distinct(Queue)
        /\ Elements(Queue) = DOMAIN tree \ {<<>>}
        /\ Len(Queue) < get_num_nodes
    BY <1>1, QueueIsTree
  <1>3. get_num_nodes \in Nat
    BY <1>1, NodesFinite
  <1>4. Queue = <<>>
    <2>1. Len(Queue) = 0
      BY <1>2, <1>3
    <2> QED
      BY <1>2, <2>1
  <1>5. EdgesIn(<<>>) = <<>>
    BY FlattenEmpty DEF EdgesIn
  <1>6. tree[<<>>] \in Seq(Key)
    BY <1>1 DEF Shape
  <1>7. ToBag(tree[<<>>] \o EdgesIn(Queue)) = TreeEdges
    BY <1>1, <1>2, AllNodes
  <1>8. tree[<<>>] \o EdgesIn(Queue) = tree[<<>>]
    BY <1>4, <1>5, <1>6, ConcatEmptySeq
  <1>9. DOMAIN tree \ {<<>>} = {}
    BY <1>2, <1>4 DEF Elements
  <1>10. \A p \in DOMAIN tree : ~(Len(p) >= EL_START_LV)
    <2>1. \A p \in DOMAIN tree : p = <<>>
      BY <1>9
    <2>2. ~(Len(<<>>) >= EL_START_LV)
      BY <1>1
    <2> QED
      BY <2>1, <2>2
  <1>11. TreeEdges (+) ToBag(stale) = TreeEdges
    BY <1>10, NothingDeep
  <1> QED
    BY <1>4, <1>6, <1>7, <1>8, <1>11

LEMMA PlainExact ==
    ASSUME ListInv
    PROVE  ToBag(get_adj_edges_plain) = TreeEdges
  <1>1. CASE get_num_nodes <= 1
    BY <1>1, RootOnly DEF get_adj_edges_plain
  <1>2. CASE ~(get_num_nodes <= 1)
    <2>1. Shape(tree) /\ Entries(tree)
      BY DEF ListInv
    <2>2. ToBag(tree[<<>>] \o EdgesIn(Queue)) = TreeEdges
      BY <2>1, QueueIsTree, AllNodes
    <2> QED
      BY <1>2, <2>2 DEF get_adj_edges_plain
  <1> QED
    BY <1>1, <1>2

LEMMA ArrayExact ==
    ASSUME ListInv
    PROVE  ToBag(get_adj_edges_array) = TreeEdges (+) ToBag(stale)
  <1>0. Shape(tree) /\ Entries(tree) /\ EL_START_LV \in Nat \ {0}
    BY DEF ListInv
  <1>1. CASE get_num_nodes <= 1
    BY <1>1, RootOnly DEF get_adj_edges_array
  <1>2. CASE ~(get_num_nodes <= 1)
    <2> DEFINE Q == Queue
               deep == {i \in DOMAIN Q : Len(Q[i]) >= EL_START_LV}
               n == Before(deep, Len(Q))
               q == SubSeq(Q, 1, n)
    <2>1. /\ Q \in Seq(DOMAIN tree) /\ Distinct(Q)
          /\ Elements(Q) = DOMAIN tree \ {<<>>}
          /\ \A i, j \in 1 .. Len(Q) : i <= j => Len(Q[i]) <= Len(Q[j])
      BY <1>0, QueueIsTree
    <2>2. get_adj_edges_array = tree[<<>>] \o EdgesIn(q) \o ChainEdges
      BY <1>2 DEF get_adj_edges_array
    <2> HIDE DEF Q
    <2>3. DOMAIN Q = 1 .. Len(Q) /\ Len(Q) \in Nat /\ deep \in SUBSET (1 .. Len(Q))
          /\ \A i \in 1 .. Len(Q) : Q[i] \in DOMAIN tree /\ Len(Q[i]) \in Nat
      <3>1. DOMAIN Q = 1 .. Len(Q) /\ Len(Q) \in Nat
            /\ \A i \in 1 .. Len(Q) : Q[i] \in DOMAIN tree
        BY <2>1
      <3>2. \A p \in DOMAIN tree : Len(p) \in Nat
        BY <1>0 DEF Shape
      <3> QED
        BY <3>1, <3>2
    <2>4. /\ n \in 0 .. Len(Q)
          /\ \A i \in 1 .. n : i \notin deep
          /\ deep # {} => n + 1 \in deep
          /\ deep = {} => n = Len(Q)
      <3> HIDE DEF deep
      <3> QED
        BY <2>3, BeforeFacts
    <2>5. \A i \in deep : i \in 1 .. Len(Q) /\ Len(Q[i]) >= EL_START_LV
      BY <2>3
    <2>6. \A i \in 1 .. Len(Q) : Len(Q[i]) >= EL_START_LV => i \in deep
      BY <2>3
    <2> HIDE DEF n, deep
    <2>7. /\ q \in Seq(DOMAIN tree) /\ Len(q) = n
          /\ \A i \in 1 .. n : q[i] = Q[i] /\ i \in 1 .. Len(Q)
      <3> DEFINE k == Len(Q)
      <3>0. k \in Nat /\ n \in 0 .. k
        BY <2>3, <2>4
      <3>1. n \in Int /\ 1 \in Int /\ \A i \in 1 .. n : i \in 1 .. Len(Q)
        <4> HIDE DEF k
        <4>1. n \in Int /\ 1 \in Int /\ \A i \in 1 .. n : i \in 1 .. k
          BY <3>0
        <4> QED
          BY <4>1 DEF k
      <3>2. \A i \in 1 .. n : Q[i] \in DOMAIN tree
        BY <2>3, <3>1
      <3> QED
        BY <2>1, <2>4, <3>1, <3>2
    <2> HIDE DEF q
    <2>8. Distinct(q)
      BY <2>1, <2>7 DEF Distinct
    <2>9. \A i \in 1 .. Len(Q) : i \in 1 .. n <=> ~(Len(Q[i]) >= EL_START_LV)
      <3> SUFFICES ASSUME NEW i \in 1 .. Len(Q), i \notin 1 .. n
                   PROVE  Len(Q[i]) >= EL_START_LV
        BY <2>4, <2>6
      <3>1. n + 1 \in 1 .. Len(Q) /\ n + 1 <= i /\ n # Len(Q)
        <4> DEFINE k == Len(Q)
        <4>1. k \in Nat /\ n \in 0 .. k /\ i \in 1 .. k /\ i \notin 1 .. n
          BY <2>3, <2>4
        <4> HIDE DEF k
        <4>2. n + 1 \in 1 .. k /\ n + 1 <= i /\ n # k
          BY <4>1
        <4> QED
          BY <4>2 DEF k
      <3>2. n + 1 \in deep
        BY <2>4, <3>1
      <3> DEFINE m == n + 1
      <3>3. m \in 1 .. Len(Q) /\ m <= i /\ Len(Q[m]) >= EL_START_LV
        BY <2>5, <3>1, <3>2
      <3> HIDE DEF m
      <3>4. Len(Q[m]) <= Len(Q[i])
        BY <2>1, <3>3
      <3> QED
        BY <1>0, <2>3, <3>3, <3>4
    <2>10. \A p : p \in Elements(q)
                     <=> p \in DOMAIN tree /\ p # <<>> /\ Len(p) < EL_START_LV
      <3>1. \A p : p \in Elements(q) <=> \E i \in 1 .. n : Q[i] = p
        BY <2>7 DEF Elements
      <3>2. \A p : p \in DOMAIN tree /\ p # <<>> <=> \E i \in 1 .. Len(Q) : Q[i] = p
        BY <2>1 DEF Elements
      <3>3. \A p \in DOMAIN tree : Len(p) < EL_START_LV <=> ~(Len(p) >= EL_START_LV)
        BY <1>0 DEF Shape
      <3>4. \A i \in 1 .. n : i \in 1 .. Len(Q)
        BY <2>7
      <3> QED
        BY <2>9, <3>1, <3>2, <3>3, <3>4
    <2> QED
      BY <2>2, <2>7, <2>8, <2>10, UpperAndChain
  <1> QED
    BY <1>1, <1>2

\* The queue only grows at its end; once every node in it has been taken it
\* does not grow any more.
LEMMA QueueGrows ==
    ASSUME Shape(tree), NEW f \in 0 .. get_num_nodes
    PROVE  LET q == QueueAfter[f]
           IN  /\ q \in Seq(DOMAIN tree)
               /\ Len(q) <= Len(Queue)
               /\ \A j \in 1 .. Len(q) : Queue[j] = q[j]
               /\ Len(q) <= f => Queue = q
  <1> DEFINE N == get_num_nodes
             q == QueueAfter[f]
             Ahead(r) == /\ r \in Seq(DOMAIN tree)
                         /\ Len(q) <= Len(r)
                         /\ \A j \in 1 .. Len(q) : r[j] = q[j]
                         /\ Len(q) <= f => r = q
             T == {d \in 0 .. N - f : Ahead(QueueAfter[f + d])}
  <1>1. /\ N \in Nat /\ N - f \in Nat /\ f \in Nat /\ f + 0 = f /\ f + (N - f) = N
        /\ IsRun(QueueAfter)
    BY NodesFinite, QueueRuns
  <1>2. \A g \in 0 .. N : QueueAfter[g] \in Seq(DOMAIN tree)
    BY <1>1 DEF IsRun
  <1>3. Ahead(q)
    <2>1. q \in Seq(DOMAIN tree)
      BY <1>2
    <2> HIDE DEF q
    <2> QED
      BY <2>1
  <1> HIDE DEF q
  <1>4. 0 \in T
    BY <1>1, <1>3 DEF q
  <1>5. \A d \in 1 .. N - f : d - 1 \in T => d \in T
    <2> SUFFICES ASSUME NEW d \in 1 .. N - f, Ahead(QueueAfter[f + (d - 1)])
                 PROVE  Ahead(QueueAfter[f + d]) /\ d \in 0 .. N - f
      OBVIOUS
    <2> DEFINE g == f + d
               r == QueueAfter[g - 1]
    <2>1. g \in 1 .. N /\ g - 1 = f + (d - 1) /\ g - 1 \in 0 .. N /\ d \in 0 .. N - f
          /\ f < g
      BY <1>1
    <2>2. QueueAfter[g] = RoundOf(r, g)
      BY <1>1, <2>1 DEF IsRun
    <2>3. Ahead(r)
      BY <2>1
    <2>4. Len(q) \in Nat /\ Len(r) \in Nat /\ q \in Seq(DOMAIN tree)
      BY <1>2, <2>3 DEF q
    <2> HIDE DEF g, r
    <2>5. CASE g <= Len(r)
      <3> DEFINE c == ChildSeq(r[g])
      <3>1. r[g] \in DOMAIN tree
        BY <2>1, <2>3, <2>5
      <3>2. c \in Seq(DOMAIN tree)
        BY <3>1, ChildSeqFacts
      <3>3. QueueAfter[g] = r \o c
        BY <2>2, <2>5 DEF RoundOf
      <3> HIDE DEF c
      <3>4. /\ r \o c \in Seq(DOMAIN tree) /\ Len(r) <= Len(r \o c)
            /\ \A j \in 1 .. Len(r) : (r \o c)[j] = r[j]
        BY <2>3, <3>2
      <3>5. ~(Len(q) <= f)
        BY <1>1, <2>1, <2>3, <2>4, <2>5
      <3>6. \A j \in 1 .. Len(q) : j \in 1 .. Len(r)
        BY <2>3, <2>4
      <3>7. Len(q) <= Len(r \o c)
        BY <2>3, <2>4, <3>2, <3>4
      <3>8. \A j \in 1 .. Len(q) : (r \o c)[j] = q[j]
        BY <2>3, <3>4, <3>6
      <3>9. Ahead(r \o c)
        BY <3>4, <3>5, <3>7, <3>8
      <3> QED
        BY <2>1, <3>3, <3>9 DEF g
    <2>6. CASE ~(g <= Len(r))
      BY <2>1, <2>2, <2>3, <2>6 DEF RoundOf, g
    <2> QED
      BY <2>5, <2>6
  <1>6. N - f \in T
    <2> HIDE DEF T
    <2> DEFINE M == N - f
    <2>1. M \in Nat /\ \A d \in 1 .. M : d - 1 \in T => d \in T
      BY <1>1, <1>5
    <2> HIDE DEF M
    <2>2. 0 .. M \subseteq T
      BY <1>4, <2>1, Induction
    <2>3. M \in T
      BY <2>1, <2>2
    <2> QED
      BY <2>3 DEF M
  <1>7. Ahead(Queue)
    <2>1. Ahead(QueueAfter[f + (N - f)])
      BY <1>6
    <2> QED
      BY <1>1, <2>1 DEF Queue
  <1> QED
    BY <1>2, <1>7 DEF q

\* Once the queue has come to a node with children whose level is the one above
\* lv or deeper, it has all levels above lv, and before that node is processed
\* nothing else.
LEMMA QueueCut ==
    ASSUME Shape(tree), NEW lv \in Nat, lv >= 2,
           NEW above, above = {i \in DOMAIN Queue :
                                 Len(Queue[i]) >= lv - 1 /\ is_offset_valid(Queue[i])},
           above # {},
           NEW q, q = QueueAfter[Before(above, get_num_nodes)]
    PROVE  /\ q \in Seq(DOMAIN tree) /\ Distinct(q)
           /\ \A p : p \in Elements(q) <=> p \in DOMAIN tree /\ p # <<>> /\ Len(p) < lv
  <1> DEFINE Q == Queue
             N == get_num_nodes
             f == Before(above, N)
             a == f + 1
  <1>1. /\ Q \in Seq(DOMAIN tree) /\ Distinct(Q)
        /\ Elements(Q) = DOMAIN tree \ {<<>>}
        /\ \A i, j \in 1 .. Len(Q) : i <= j => Len(Q[i]) <= Len(Q[j])
        /\ Len(Q) < N /\ N \in Nat
    BY QueueIsTree, NodesFinite
  <1>2. /\ DOMAIN Q = 1 .. Len(Q) /\ Len(Q) \in Nat
        /\ \A i \in 1 .. Len(Q) : Q[i] \in DOMAIN tree
    BY <1>1
  <1>3. \A p \in DOMAIN tree : Len(p) \in Nat /\ p \in Seq(Branches)
    BY DEF Shape
  <1>4. \A i : i \in above <=> /\ i \in 1 .. Len(Q)
                               /\ Len(Q[i]) >= lv - 1 /\ is_offset_valid(Q[i])
    BY <1>2
  <1> HIDE DEF Q, N
  <1>5. above \in SUBSET (1 .. N)
    BY <1>1, <1>2, <1>4
  <1>6. f \in 0 .. N /\ (\A i \in 1 .. f : i \notin above) /\ a \in above
    BY <1>1, <1>5, BeforeFacts
  <1>7. Grown(q, f)
    BY <1>6, GrownAfter DEF N
  <1> HIDE DEF f
  <1>8. /\ q \in Seq(DOMAIN tree) /\ Len(q) <= Len(Q)
        /\ \A j \in 1 .. Len(q) : Q[j] = q[j]
        /\ Len(q) <= f => Q = q
    <2>1. f \in 0 .. get_num_nodes /\ q = QueueAfter[f]
      BY <1>6 DEF N, f
    <2> QED
      BY <2>1, QueueGrows DEF Q
  <1>9. /\ a \in 1 .. Len(Q) /\ Len(Q[a]) >= lv - 1 /\ f \in Nat /\ f < a
        /\ a \in Nat
    BY <1>4, <1>6
  <1>10. Len(q) \in Nat /\ f < Len(q)
    <2>1. Len(q) \in Nat
      BY <1>8
    <2>2. ASSUME Len(q) <= f PROVE FALSE
      <3>1. Len(Q) = Len(q)
        BY <1>8, <2>2
      <3> QED
        BY <1>2, <1>9, <2>1, <2>2, <3>1
    <2> QED
      BY <1>9, <2>1, <2>2
  <1>11. \A j \in 1 .. f : j \in 1 .. Len(q) /\ j \in 1 .. Len(Q) /\ q[j] = Q[j]
    <2>1. \A j \in 1 .. f : j \in 1 .. Len(q)
      BY <1>9, <1>10
    <2>2. \A j \in 1 .. Len(q) : j \in 1 .. Len(Q)
      BY <1>2, <1>8, <1>10
    <2> QED
      BY <1>8, <2>1, <2>2
  <1> HIDE DEF a
  <1>12. ASSUME NEW m \in Processed(q, f) PROVE m \in Parents /\ Len(m) < lv - 1
    <2>1. m \in Parents /\ Len(m) \in Nat
      BY <1>3 DEF Processed, Parents
    <2>2. CASE m = <<>>
      BY <2>1, <2>2
    <2>3. CASE m # <<>>
      <3>1. PICK j \in 1 .. f : q[j] = m
        BY <1>12, <2>3 DEF Processed
      <3>2. j \in 1 .. Len(Q) /\ Q[j] = m /\ j \notin above
        BY <1>6, <1>11, <3>1
      <3>3. ~(Len(m) >= lv - 1)
        BY <1>4, <2>1, <3>2 DEF Parents
      <3> QED
        BY <2>1, <3>3
    <2> QED
      BY <2>2, <2>3
  <1>13. ASSUME NEW m \in Parents, Len(m) < lv - 1 PROVE m \in Processed(q, f)
    <2>1. m \in DOMAIN tree /\ Len(m) \in Nat
      BY <1>3 DEF Parents
    <2>2. CASE m = <<>>
      BY <2>2 DEF Processed
    <2>3. CASE m # <<>>
      <3>1. PICK j \in 1 .. Len(Q) : Q[j] = m
        BY <1>1, <2>1, <2>3 DEF Elements
      <3>2. ~(a <= j)
        <4>1. a <= j => Len(Q[a]) <= Len(Q[j])
          BY <1>1, <1>9
        <4>2. Len(Q[a]) \in Nat
          BY <1>2, <1>3, <1>9
        <4> QED
          BY <1>9, <1>13, <2>1, <3>1, <4>1, <4>2
      <3>3. j \in 1 .. f
        BY <1>2, <1>9, <3>2 DEF a
      <3>4. q[j] = m /\ j <= Len(q)
        BY <1>10, <1>11, <3>1, <3>3
      <3> QED
        BY <3>3, <3>4 DEF Processed
    <2> QED
      BY <2>2, <2>3
  <1>14. ASSUME NEW p \in Elements(q)
         PROVE  p \in DOMAIN tree /\ p # <<>> /\ Len(p) < lv
    <2>1. PICK m \in Processed(q, f) : p \in Children(m)
      BY <1>7 DEF Grown
    <2>2. m \in Parents /\ Len(m) < lv - 1
      BY <1>12
    <2>3. m \in Seq(Branches) /\ Len(m) \in Nat /\ Children(m) \subseteq DOMAIN tree
      BY <1>3, <2>2 DEF Parents, is_offset_valid
    <2>4. Len(p) = Len(m) + 1
      BY <2>1, <2>3, ChildFacts
    <2>5. Len(<<>>) = 0
      OBVIOUS
    <2> QED
      BY <2>1, <2>2, <2>3, <2>4, <2>5
  <1>15. ASSUME NEW p \in DOMAIN tree, p # <<>>, Len(p) < lv
         PROVE  p \in Elements(q)
    <2>1. PICK m \in DOMAIN tree : p \in Children(m) /\ Children(m) \subseteq DOMAIN tree
      BY <1>15 DEF Shape
    <2>2. m \in Seq(Branches) /\ Len(m) \in Nat
      BY <1>3
    <2>3. Len(p) = Len(m) + 1
      BY <2>1, <2>2, ChildFacts
    <2>4. m \in Parents /\ Len(m) < lv - 1
      BY <1>15, <2>1, <2>2, <2>3 DEF Parents, is_offset_valid
    <2>5. m \in Processed(q, f)
      BY <1>13, <2>4
    <2> QED
      BY <1>7, <2>1, <2>5 DEF Grown
  <1> QED
    BY <1>7, <1>14, <1>15 DEF Grown

\* A loop over an iterator whose arrays are those of the chain sees them all.
LEMMA SeenArrays ==
    ASSUME ListInv, NEW it, it.els = ArrayEdges(chain)
    PROVE  Seen(it) = it.edges \o EdgesIn(it.nodes) \o ChainEdges
  <1> DEFINE e == it.els
             empty == {i \in DOMAIN e : e[i] = <<>>}
  <1>1. chain \in Seq(Array) /\ Packed(chain)
    BY DEF ListInv, ChainInv, Chained
  <1>2. /\ e \in Seq(Seq(Key)) /\ Len(e) = Len(chain)
        /\ \A i \in 1 .. Len(chain) : e[i] = chain[i].edges
    BY <1>1, ArrayEdgesType
  <1>3. e = ArrayEdges(chain)
    OBVIOUS
  <1> HIDE DEF e
  <1>4. empty = {}
    <2> SUFFICES ASSUME NEW i \in DOMAIN e, e[i] = <<>> PROVE FALSE
      OBVIOUS
    <2>1. i \in 1 .. Len(chain) /\ i \in DOMAIN chain /\ Len(<<>>) = 0
      BY <1>1, <1>2
    <2>2. 0 < Len(chain[i].edges)
      BY <1>1, <2>1 DEF Packed
    <2> QED
      BY <1>2, <2>1, <2>2
  <1>5. SubSeq(e, 1, Before(empty, Len(e))) = e
    <2>1. Before(empty, Len(e)) = Len(e)
      BY <1>4 DEF Before
    <2> QED
      BY <1>2, <2>1, SubSeqFull
  <1> HIDE DEF empty
  <1>6. FlattenSeq(e) = ChainEdges
    BY <1>3, ChainEdgesArrays
  <1>7. Seen(it) = it.edges \o EdgesIn(it.nodes)
                   \o FlattenSeq(SubSeq(e, 1, Before(empty, Len(e))))
    BY DEF Seen, e, empty
  <1> QED
    BY <1>5, <1>6, <1>7

LEMMA SeenNone ==
    ASSUME NEW it, it.els = <<>>,
           it.edges \o EdgesIn(it.nodes) \in Seq(Key)
    PROVE  Seen(it) = it.edges \o EdgesIn(it.nodes)
  <1> DEFINE s == it.edges \o EdgesIn(it.nodes)
             e == it.els
             empty == {i \in DOMAIN e : e[i] = <<>>}
  <1>1. Seen(it) = s \o FlattenSeq(SubSeq(e, 1, Before(empty, Len(e))))
    BY DEF Seen
  <1>2. e = <<>> /\ empty = {} /\ Len(e) = 0
    OBVIOUS
  <1>3. Before(empty, Len(e)) = 0
    BY <1>2 DEF Before
  <1> HIDE DEF empty, e
  <1>4. FlattenSeq(SubSeq(e, 1, 0)) = <<>>
    <2>1. SubSeq(e, 1, 0) = <<>>
      BY SubSeqEmpty
    <2> QED
      BY <2>1, FlattenEmpty
  <1>5. s \o <<>> = s
    BY ConcatEmptySeq
  <1> HIDE DEF s
  <1>6. Seen(it) = s
    BY <1>1, <1>3, <1>4, <1>5
  <1> QED
    BY <1>6 DEF s

LEMMA TreeIteratorExact ==
    ASSUME ListInv
    PROVE  ToBag(Seen(sbtree_iterator)) = TreeEdges
  <1>1. Shape(tree) /\ Entries(tree)
    BY DEF ListInv
  <1>2. /\ tree[<<>>] \o EdgesIn(Queue) \in Seq(Key)
        /\ ToBag(tree[<<>>] \o EdgesIn(Queue)) = TreeEdges
    BY <1>1, QueueIsTree, AllNodes
  <1> DEFINE it == [edges |-> tree[<<>>], nodes |-> Queue, els |-> <<>>]
  <1>3. it.edges = tree[<<>>] /\ it.nodes = Queue /\ it.els = <<>>
        /\ sbtree_iterator = it
    BY DEF sbtree_iterator
  <1> HIDE DEF it
  <1>4. Seen(it) = it.edges \o EdgesIn(it.nodes)
    BY <1>2, <1>3, SeenNone
  <1> QED
    BY <1>2, <1>3, <1>4

LEMMA IteratorExact ==
    ASSUME ListInv
    PROVE  ToBag(Seen(iterator2)) = TreeEdges (+) ToBag(stale)
  <1> DEFINE above == {i \in DOMAIN Queue : Len(Queue[i]) >= EL_START_LV - 1
                                           /\ is_offset_valid(Queue[i])}
             els == [i \in DOMAIN chain |-> chain[i].edges]
             it == iterator2
             root == tree[<<>>]
  <1>0. Shape(tree) /\ Entries(tree) /\ EL_START_LV \in Nat \ {0}
        /\ root \in Seq(Key) /\ els = ArrayEdges(chain)
    BY DEF ListInv, Shape, ArrayEdges
  <1>1. CASE get_num_nodes <= 1
    <2>1. it.edges = root /\ it.nodes = <<>> /\ it.els = <<>>
      BY <1>1 DEF iterator2
    <2>2. EdgesIn(<<>>) = <<>>
      BY FlattenEmpty DEF EdgesIn
    <2> HIDE DEF it, root
    <2>3. it.edges \o EdgesIn(it.nodes) = root /\ root \in Seq(Key)
      BY <1>0, <2>1, <2>2, ConcatEmptySeq
    <2>4. Seen(it) = root
      BY <2>1, <2>3, SeenNone
    <2> QED
      BY <1>1, <2>4, RootOnly DEF it, root
  <1>2. CASE ~(get_num_nodes <= 1) /\ EL_START_LV <= 1
    <2>1. it.edges = root /\ it.nodes = <<>> /\ it.els = els
      BY <1>2 DEF iterator2
    <2> HIDE DEF it, els
    <2>2. Seen(it) = root \o EdgesIn(<<>>) \o ChainEdges
      BY <1>0, <2>1, SeenArrays
    <2>3. <<>> \in Seq(DOMAIN tree) /\ Distinct(<<>>) /\ Elements(<<>>) = {}
      BY DEF Distinct, Elements
    <2>4. \A p : ~(p \in DOMAIN tree /\ p # <<>> /\ Len(p) < EL_START_LV)
      <3>1. \A p \in DOMAIN tree : Len(p) \in Nat /\ (Len(p) = 0 => p = <<>>)
        BY <1>0 DEF Shape
      <3> QED
        BY <1>0, <1>2, <3>1
    <2>5. ToBag(root \o EdgesIn(<<>>) \o ChainEdges) = TreeEdges (+) ToBag(stale)
      BY <2>3, <2>4, UpperAndChain
    <2> QED
      BY <2>2, <2>5 DEF it
  <1>3. CASE ~(get_num_nodes <= 1) /\ ~(EL_START_LV <= 1) /\ above # {}
    <2> DEFINE q == QueueAfter[Before(above, get_num_nodes)]
    <2>1. it.edges = root /\ it.nodes = q /\ it.els = els
      BY <1>3 DEF iterator2
    <2>2. EL_START_LV \in Nat /\ EL_START_LV >= 2
      BY <1>0, <1>3
    <2>3. /\ q \in Seq(DOMAIN tree) /\ Distinct(q)
          /\ \A p : p \in Elements(q)
                       <=> p \in DOMAIN tree /\ p # <<>> /\ Len(p) < EL_START_LV
      BY <1>0, <1>3, <2>2, QueueCut
    <2> HIDE DEF it, els, q
    <2>4. Seen(it) = root \o EdgesIn(q) \o ChainEdges
      BY <1>0, <2>1, SeenArrays
    <2>5. ToBag(root \o EdgesIn(q) \o ChainEdges) = TreeEdges (+) ToBag(stale)
      BY <2>3, UpperAndChain
    <2> QED
      BY <2>4, <2>5 DEF it
  <1>4. CASE ~(get_num_nodes <= 1) /\ ~(EL_START_LV <= 1) /\ above = {}
    <2>1. it.edges = root /\ it.nodes = Queue /\ it.els = <<>>
      BY <1>4 DEF iterator2, Before, Queue
    <2>2. root \o EdgesIn(Queue) \in Seq(Key) /\ ToBag(root \o EdgesIn(Queue)) = TreeEdges
      BY <1>0, QueueIsTree, AllNodes
    <2>3. ASSUME NEW p \in DOMAIN tree, Len(p) >= EL_START_LV PROVE FALSE
      <3>0. Len(p) \in Nat /\ Len(<<>>) = 0
        BY <1>0 DEF Shape
      <3>1. p # <<>>
        BY <1>0, <2>3, <3>0
      <3>2. PICK m \in DOMAIN tree : p \in Children(m) /\ Children(m) \subseteq DOMAIN tree
        BY <1>0, <3>1 DEF Shape
      <3>3. m \in Seq(Branches) /\ Len(m) \in Nat
        BY <1>0 DEF Shape
      <3>4. Len(p) = Len(m) + 1
        BY <3>2, <3>3, ChildFacts
      <3>5. Len(m) >= EL_START_LV - 1 /\ m # <<>>
        BY <1>0, <1>4, <2>3, <3>0, <3>3, <3>4
      <3>6. m \in Elements(Queue)
        BY <1>0, <3>5, QueueIsTree
      <3>7. PICK i \in 1 .. Len(Queue) : Queue[i] = m
        BY <3>6 DEF Elements
      <3>8. DOMAIN Queue = 1 .. Len(Queue)
        BY <1>0, QueueIsTree
      <3>9. i \in above
        BY <3>2, <3>5, <3>7, <3>8 DEF is_offset_valid
      <3> QED
        BY <1>4, <3>9
    <2>4. TreeEdges (+) ToBag(stale) = TreeEdges
      BY <2>3, NothingDeep
    <2> HIDE DEF it, root
    <2>5. Seen(it) = root \o EdgesIn(Queue)
      BY <2>1, <2>2, SeenNone
    <2> QED
      BY <2>2, <2>4, <2>5 DEF it
  <1> QED
    BY <1>1, <1>2, <1>3, <1>4

\* The readers of the EDGELIST build return each edge that a search finds once
\* and besides only the edges deleted from the deep levels since the start; the
\* readers that know no chain return each edge once (get_adj_edges_l, iterator2
\* and sbtree_iterator).
THEOREM ReadersExactHolds == Spec => []ReadersExact
  <1>1. ListInv => ReadersExact
    BY ArrayExact, IteratorExact, PlainExact, TreeIteratorExact DEF ReadersExact
  <1> QED
    BY <1>1, ListInvariant, PTL

=============================================================================
