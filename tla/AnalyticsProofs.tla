-------------------------- MODULE AnalyticsProofs --------------------------
(***************************************************************************)
(* Proofs about the algorithms of Analytics, for any graph.                *)
(***************************************************************************)
EXTENDS Analytics, NumberLemmas, FiniteSetTheorems, FunctionTheorems,
        SequenceTheorems, TLAPS

-----------------------------------------------------------------------------
(* Graphs.                                                                 *)

Out(u) == ToSet(g.adj[u])

LEMMA GraphFacts ==
    ASSUME g \in Graphs
    PROVE  /\ num_vertices \in Nat /\ INF \in Nat
           /\ g.n \in Nat \ {0} /\ g.n <= num_vertices
           /\ L \subseteq Capacity /\ L \subseteq Nat
           /\ \A u \in L : g.adj[u] \in Seq(L) /\ Out(u) \subseteq L
           /\ \A u \in L : g.degree[u] \in Nat /\ g.degree[u] >= Len(g.adj[u])
           /\ IsFiniteSet(L) /\ Cardinality(L) = g.n
  <1>1. num_vertices \in Nat /\ INF \in Nat /\ g.n \in 1 .. num_vertices
    BY GraphsAssumption
  <1>2. L \subseteq Capacity /\ L \subseteq Nat
    BY <1>1 DEF L, Capacity
  <1>3. ASSUME NEW u \in L
        PROVE  /\ g.adj[u] \in Seq(L) /\ Out(u) \subseteq L
               /\ g.degree[u] \in Nat /\ g.degree[u] >= Len(g.adj[u])
    <2>1. u \in Capacity /\ u < g.n
      BY <1>1, <1>2 DEF L
    <2>2. /\ g.adj[u] \in Seq(IF u < g.n THEN 0 .. g.n - 1 ELSE {})
          /\ g.degree \in [Capacity -> Nat] /\ g.degree[u] >= Len(g.adj[u])
      BY <2>1, GraphsAssumption
    <2>3. g.adj[u] \in Seq(L)
      BY <2>1, <2>2 DEF L
    <2>4. Out(u) \subseteq L
      BY <2>3 DEF Out, ToSet
    <2> QED
      BY <2>1, <2>2, <2>3, <2>4
  <1>4. IsFiniteSet(L) /\ Cardinality(L) = g.n
    BY <1>1, FS_Interval DEF L
  <1>5. g.n \in Nat \ {0} /\ g.n <= num_vertices
    BY <1>1
  <1>6. \A u \in L : g.adj[u] \in Seq(L) /\ Out(u) \subseteq L
    BY <1>3
  <1>7. \A u \in L : g.degree[u] \in Nat /\ g.degree[u] >= Len(g.adj[u])
    BY <1>3
  <1> QED
    BY <1>1, <1>2, <1>4, <1>5, <1>6, <1>7, Zenon
LEMMA FindVertex ==
    ASSUME g \in Graphs, NEW p \in Range(g.phys)
    PROVE  find_vertex(p) \in L /\ g.phys[find_vertex(p)] = p
  <1>1. DOMAIN g.phys = L
    BY GraphsAssumption DEF L
  <1>2. \E v \in L : g.phys[v] = p
    BY <1>1 DEF Range
  <1> QED
    BY <1>2 DEF find_vertex

-----------------------------------------------------------------------------
(* The vertices at most so many edges from v, and the distances.           *)

Grow(X) == X \cup UNION {Out(u) : u \in X}

LEMMA ReachBalls ==
    ASSUME g \in Graphs, NEW v, NEW S, {v} \in S, \A X \in S : Grow(X) \in S
    PROVE  /\ Reach(v) \in [0 .. num_vertices -> S]
           /\ Reach(v)[0] = {v}
           /\ \A k \in 1 .. num_vertices : Reach(v)[k] = Grow(Reach(v)[k - 1])
  <1> DEFINE N == num_vertices
             step == [k \in 1 .. N |-> [X \in S |-> Grow(X)]]
             Eqn(f) == f = [k \in 0 .. N |->
                              IF k = 0 THEN {v}
                              ELSE f[k - 1] \union UNION {ToSet(g.adj[u]) : u \in f[k - 1]}]
             ball == CHOOSE f : Eqn(f)
  <1>1. N \in Nat /\ {v} \in S
    BY GraphFacts
  <1>2. \A X \in S : Grow(X) \in S
    OBVIOUS
  <1>3. Steps(step, N, S)
    BY <1>2 DEF Steps
  <1>4. PICK h : Follows(h, step, {v}, N, S)
    <2> HIDE DEF step, N
    <2> QED
      BY <1>1, <1>3, Recursion
  <1>5. /\ h \in [0 .. N -> S] /\ h[0] = {v}
        /\ \A k \in 1 .. N : k - 1 \in 0 .. N /\ h[k] = Grow(h[k - 1])
    <2>1. /\ h \in [0 .. N -> S] /\ h[0] = {v}
          /\ \A k \in 1 .. N : h[k] = step[k][h[k - 1]]
      BY <1>4 DEF Follows
    <2>2. \A k \in 1 .. N : k - 1 \in 0 .. N
      BY <1>1
    <2> QED
      BY <2>1, <2>2
  <1> HIDE DEF step
  <1>6. Eqn(h)
    <2>1. ASSUME NEW k \in 0 .. N
          PROVE  h[k] = IF k = 0 THEN {v}
                        ELSE h[k - 1] \union UNION {ToSet(g.adj[u]) : u \in h[k - 1]}
      <3>1. k # 0 => k \in 1 .. N
        BY <1>1
      <3> QED
        BY <1>5, <3>1 DEF Grow, Out
    <2> QED
      BY <1>5, <2>1
  <1>7. Eqn(ball)
    <2> HIDE DEF Eqn
    <2> QED
      BY <1>6
  <1>8. Reach(v) = ball
    BY DEF Reach
  <1> HIDE DEF ball
  <1>9. \A k \in 0 .. N : ball[k] = IF k = 0 THEN {v} ELSE Grow(ball[k - 1])
    BY <1>7, Zenon DEF Grow, Out
  <1>10. ball[0] = {v} /\ \A k \in 1 .. N : ball[k] = Grow(ball[k - 1])
    <2>1. 0 \in 0 .. N /\ \A k \in 1 .. N : k \in 0 .. N /\ k # 0
      BY <1>1
    <2> QED
      BY <1>9, <2>1
  <1> DEFINE V == {k \in 0 .. N : ball[k] \in S}
  <1>11. 0 .. N \subseteq V
    <2>1. 0 \in V
      <3>1. 0 \in 0 .. N
        BY <1>1
      <3> HIDE DEF N
      <3> QED
        BY <1>1, <1>10, <3>1
    <2>2. \A k \in 1 .. N : k - 1 \in V => k \in V
      BY <1>2, <1>10
    <2> HIDE DEF V, N
    <2> QED
      BY <1>1, <2>1, <2>2, Induction
  <1>12. ball \in [0 .. N -> S]
    BY <1>7, <1>11
  <1> QED
    BY <1>8, <1>10, <1>12

LEMMA ReachFacts ==
    ASSUME g \in Graphs, NEW v \in L
    PROVE  /\ Reach(v) \in [0 .. num_vertices -> SUBSET L]
           /\ Reach(v)[0] = {v}
           /\ \A k \in 1 .. num_vertices : Reach(v)[k] = Grow(Reach(v)[k - 1])
  <1>1. {v} \in SUBSET L /\ \A X \in SUBSET L : Grow(X) \in SUBSET L
    BY GraphFacts DEF Grow
  <1> QED
    BY <1>1, ReachBalls

\* The lists of an id without a vertex are empty: it reaches itself.
LEMMA ReachAlone ==
    ASSUME g \in Graphs, NEW v \in Capacity, v \notin L, NEW k \in 0 .. num_vertices
    PROVE  Reach(v)[k] = {v}
  <1>1. Out(v) = {}
    <2>1. g.adj[v] \in Seq(IF v < g.n THEN 0 .. g.n - 1 ELSE {})
      BY GraphsAssumption
    <2>2. v \in 0 .. num_vertices - 1 /\ v \notin 0 .. g.n - 1
      BY DEF L, Capacity
    <2>3. ~(v < g.n)
      BY <2>2, GraphFacts
    <2>4. g.adj[v] \in Seq({})
      BY <2>1, <2>3
    <2> QED
      BY <2>4 DEF Out, ToSet
  <1>2. {v} \in {{v}} /\ \A X \in {{v}} : Grow(X) \in {{v}}
    BY <1>1 DEF Grow
  <1>3. Reach(v) \in [0 .. num_vertices -> {{v}}]
    BY <1>2, ReachBalls
  <1> QED
    BY <1>3

\* The balls grow,
LEMMA ReachGrows ==
    ASSUME g \in Graphs, NEW v \in L,
           NEW k \in 0 .. num_vertices, NEW m \in 0 .. num_vertices, k <= m
    PROVE  Reach(v)[k] \subseteq Reach(v)[m]
  <1> DEFINE N == num_vertices
             B == Reach(v)
             V == {i \in 0 .. N : k <= i => B[k] \subseteq B[i]}
  <1>1. N \in Nat
    BY GraphFacts
  <1>2. \A i \in 1 .. N : B[i] = Grow(B[i - 1])
    BY ReachFacts
  <1> HIDE DEF B
  <1>3. 0 \in V
    <2>1. 0 \in 0 .. N /\ (k <= 0 => k = 0)
      BY <1>1
    <2> QED
      BY <2>1
  <1>4. ASSUME NEW i \in 1 .. N, i - 1 \in V PROVE i \in V
    <2>1. i \in 0 .. N /\ i - 1 \in 0 .. N
      BY <1>1
    <2>2. B[i - 1] \subseteq B[i]
      BY <1>2 DEF Grow
    <2>3. CASE k <= i - 1
      BY <1>4, <2>1, <2>2, <2>3
    <2>4. CASE ~(k <= i - 1)
      <3>1. k <= i => k = i
        BY <1>1, <2>4
      <3> QED
        BY <2>1, <3>1
    <2> QED
      BY <2>3, <2>4
  <1>5. 0 .. N \subseteq V
    <2> HIDE DEF V, N
    <2> QED
      BY <1>1, <1>3, <1>4, Induction
  <1> QED
    BY <1>5 DEF B

\* and do not grow again once they have not grown.
LEMMA ReachStable ==
    ASSUME g \in Graphs, NEW v \in L,
           NEW k \in 0 .. num_vertices, NEW m \in 0 .. num_vertices, k <= m,
           Grow(Reach(v)[k]) = Reach(v)[k]
    PROVE  Reach(v)[m] = Reach(v)[k]
  <1> DEFINE N == num_vertices
             B == Reach(v)
             V == {i \in 0 .. N : k <= i => B[i] = B[k]}
  <1>1. N \in Nat
    BY GraphFacts
  <1>2. \A i \in 1 .. N : B[i] = Grow(B[i - 1])
    BY ReachFacts
  <1>0. Grow(B[k]) = B[k]
    OBVIOUS
  <1> HIDE DEF B
  <1>3. 0 \in V
    <2>1. 0 \in 0 .. N /\ (k <= 0 => k = 0)
      BY <1>1
    <2> QED
      BY <2>1
  <1>4. ASSUME NEW i \in 1 .. N, i - 1 \in V PROVE i \in V
    <2>1. i \in 0 .. N /\ i - 1 \in 0 .. N
      BY <1>1
    <2>2. CASE k <= i - 1
      <3>1. B[i - 1] = B[k]
        BY <1>4, <2>2
      <3> QED
        BY <1>0, <1>2, <2>1, <3>1
    <2>3. CASE ~(k <= i - 1)
      <3>1. k <= i => k = i
        BY <1>1, <2>3
      <3> QED
        BY <2>1, <3>1
    <2> QED
      BY <2>2, <2>3
  <1>5. 0 .. N \subseteq V
    <2> HIDE DEF V, N
    <2> QED
      BY <1>1, <1>3, <1>4, Induction
  <1> QED
    BY <1>5 DEF B

\* A ball that has grown k times has more than k vertices.
LEMMA ReachSize ==
    ASSUME g \in Graphs, NEW v \in L, NEW k \in 0 .. num_vertices,
           \A i \in 1 .. k : Reach(v)[i] # Reach(v)[i - 1]
    PROVE  k + 1 <= Cardinality(Reach(v)[k]) /\ k < g.n
  <1> DEFINE B == Reach(v)
             V == {i \in 0 .. k : i + 1 <= Cardinality(B[i])}
  <1>1. num_vertices \in Nat /\ k \in Nat
    BY GraphFacts
  <1>2. /\ B \in [0 .. num_vertices -> SUBSET L] /\ B[0] = {v}
        /\ \A i \in 1 .. num_vertices : B[i] = Grow(B[i - 1])
    BY ReachFacts
  <1>3. \A i \in 0 .. k : i \in 0 .. num_vertices
    BY <1>1
  <1>0. \A i \in 1 .. k : B[i] # B[i - 1]
    OBVIOUS
  <1> HIDE DEF B
  <1>4. \A i \in 0 .. k : B[i] \in SUBSET L /\ IsFiniteSet(B[i])
                          /\ Cardinality(B[i]) \in Nat
    <2>1. \A i \in 0 .. k : B[i] \in SUBSET L
      BY <1>2, <1>3
    <2> QED
      BY <2>1, GraphFacts, FS_Subset, FS_CardinalityType
  <1>5. 0 \in V
    <2>1. Cardinality(B[0]) = 1
      BY <1>2, FS_Singleton
    <2>2. 0 \in 0 .. k
      BY <1>1
    <2> QED
      BY <2>1, <2>2
  <1>6. ASSUME NEW i \in 1 .. k, i - 1 \in V PROVE i \in V
    <2>1. i \in 0 .. k /\ i - 1 \in 0 .. k /\ i \in 1 .. num_vertices
      BY <1>1
    <2>2. B[i - 1] \subseteq B[i] /\ B[i - 1] # B[i]
      BY <1>0, <1>2, <2>1 DEF Grow
    <2>3. Cardinality(B[i - 1]) < Cardinality(B[i])
      <3>1. Cardinality(B[i - 1]) <= Cardinality(B[i])
        BY <1>4, <2>1, <2>2, FS_Subset
      <3>2. Cardinality(B[i - 1]) # Cardinality(B[i])
        BY <1>4, <2>1, <2>2, FS_Subset
      <3> QED
        BY <1>4, <2>1, <3>1, <3>2
    <2>4. i - 1 + 1 <= Cardinality(B[i - 1])
      BY <1>6
    <2> QED
      BY <1>4, <2>1, <2>3, <2>4
  <1>7. 0 .. k \subseteq V
    <2> HIDE DEF V
    <2> QED
      BY <1>1, <1>5, <1>6, Induction
  <1>8. k + 1 <= Cardinality(B[k])
    BY <1>1, <1>7
  <1>9. Cardinality(B[k]) <= g.n
    BY <1>1, <1>4, GraphFacts, FS_Subset
  <1>10. k < g.n
    BY <1>1, <1>4, <1>8, <1>9, GraphFacts
  <1> QED
    BY <1>8, <1>10 DEF B

\* After n - 1 edges every vertex is reached that is.
LEMMA ReachEnds ==
    ASSUME g \in Graphs, NEW v \in L, NEW m \in 0 .. num_vertices, g.n - 1 <= m
    PROVE  Reach(v)[m] = Reach(v)[g.n - 1]
  <1> DEFINE B == Reach(v)
             n == g.n
  <1>1. num_vertices \in Nat /\ n \in Nat \ {0} /\ n <= num_vertices
    BY GraphFacts
  <1>2. PICK i \in 1 .. n : B[i] = B[i - 1]
    <2>1. n \in 0 .. num_vertices /\ ~(n < n)
      BY <1>1
    <2> QED
      BY <2>1, ReachSize
  <1>3. i - 1 \in 0 .. num_vertices /\ i \in 1 .. num_vertices
        /\ i - 1 <= n - 1 /\ i - 1 <= m /\ n - 1 \in 0 .. num_vertices
    BY <1>1
  <1>4. Grow(B[i - 1]) = B[i - 1]
    BY <1>2, <1>3, ReachFacts
  <1>5. B[m] = B[i - 1] /\ B[n - 1] = B[i - 1]
    BY <1>3, <1>4, ReachStable
  <1> QED
    BY <1>5

\* u is k edges from v.
Away(v, u, k) == u \in Reach(v)[k] /\ (k > 0 => u \notin Reach(v)[k - 1])

\* What Distance is: below INF if and only if there is a way, and then the
\* number of the first ball.
LEMMA DistanceOfVertex ==
    ASSUME g \in Graphs, ShortPaths, NEW v \in L, NEW u \in Capacity
    PROVE  /\ Distance(v)[u] \in Nat /\ Distance(v)[u] <= INF
           /\ u \in Reach(v)[num_vertices] <=> Distance(v)[u] # INF
           /\ Distance(v)[u] # INF => Distance(v)[u] < g.n
           /\ \A k \in 0 .. num_vertices :
                u \in Reach(v)[k] <=> Distance(v)[u] # INF /\ Distance(v)[u] <= k
  <1> DEFINE N == num_vertices
             B == Reach(v)
             d == CHOOSE k \in 0 .. N : Away(v, u, k)
  <1>1. N \in Nat /\ INF \in Nat /\ g.n \in Nat \ {0} /\ g.n <= N
    BY GraphFacts
  <1>2. Distance(v)[u] = IF u \in B[N] THEN d ELSE INF
    BY DEF Distance, Away
  <1>3. \A k \in 0 .. N : \A m \in 0 .. N : k <= m => B[k] \subseteq B[m]
    BY ReachGrows
  <1>4. ASSUME u \notin B[N]
        PROVE  \A k \in 0 .. N : u \notin B[k]
    <2>1. N \in 0 .. N /\ \A k \in 0 .. N : k <= N
      BY <1>1
    <2> QED
      BY <1>1, <1>3, <1>4, <2>1
  <1>5. ASSUME u \in B[N]
        PROVE  /\ d \in 0 .. N /\ d < g.n /\ d < INF
               /\ \A k \in 0 .. N : u \in B[k] <=> d <= k
    <2> DEFINE S == {k \in 0 .. N : u \in B[k]}
    <2>1. S \in SUBSET Nat /\ N \in S
      BY <1>1, <1>5
    <2>2. PICK a \in S : \A b \in S : a <= b
      <3> HIDE DEF S
      <3> QED
        BY <2>1, LeastNumber
    <2>3. Away(v, u, a)
      <3>1. ASSUME a > 0, u \in B[a - 1] PROVE FALSE
        <4>1. a - 1 \in S /\ ~(a <= a - 1)
          BY <1>1, <3>1
        <4> QED
          BY <2>2, <4>1
      <3> QED
        BY <3>1 DEF Away
    <2>4. d \in 0 .. N /\ Away(v, u, d)
      BY <2>3
    <2> HIDE DEF d
    <2>5. u \in B[d]
      BY <2>4 DEF Away
    <2>6. ASSUME NEW k \in 0 .. N, u \in B[k] PROVE d <= k
      <3> SUFFICES ASSUME ~(d <= k) PROVE FALSE
        OBVIOUS
      <3>1. d > 0 /\ d - 1 \in 0 .. N /\ k <= d - 1
        BY <1>1, <2>4
      <3>2. u \in B[d - 1]
        BY <1>3, <2>6, <3>1
      <3> QED
        BY <2>4, <3>1, <3>2 DEF Away
    <2>7. ASSUME NEW k \in 0 .. N, d <= k PROVE u \in B[k]
      BY <1>3, <2>4, <2>5, <2>7
    <2>8. u \in B[g.n - 1] /\ g.n - 1 \in 0 .. N
      BY <1>1, <1>5, ReachEnds
    <2>9. d <= g.n - 1
      BY <2>6, <2>8
    <2>10. u \in L /\ u \in Component(v)
      <3>1. N \in 0 .. N
        BY <1>1
      <3> QED
        BY <1>5, <3>1, ReachFacts DEF Component
    <2>11. PICK k \in 0 .. N : k < INF /\ u \in B[k]
      BY <2>10 DEF ShortPaths
    <2>12. d < INF
      BY <1>1, <2>4, <2>6, <2>11
    <2> QED
      BY <1>1, <2>4, <2>6, <2>7, <2>9, <2>12
  <1> HIDE DEF d
  <1>6. CASE u \in B[N]
    <2>1. Distance(v)[u] = d
      BY <1>2, <1>6
    <2>2. d \in Nat /\ d < INF
      BY <1>1, <1>5, <1>6
    <2>3. \A k \in 0 .. N : u \in B[k] <=> d <= k
      BY <1>5, <1>6
    <2>4. d # INF /\ d <= INF /\ d < g.n
      BY <1>1, <1>5, <1>6, <2>2
    <2> HIDE DEF B, N
    <2>5. \A k \in 0 .. N :
             u \in B[k] <=> Distance(v)[u] # INF /\ Distance(v)[u] <= k
      BY <2>1, <2>3, <2>4
    <2> QED
      BY <1>6, <2>1, <2>2, <2>4, <2>5 DEF B, N
  <1>7. CASE u \notin B[N]
    BY <1>1, <1>2, <1>4, <1>7
  <1> QED
    BY <1>6, <1>7

\* Every vertex is no edge from itself.
LEMMA InfPositive ==
    ASSUME g \in Graphs, ShortPaths
    PROVE  INF # 0
  <1>1. g.n \in Nat \ {0} /\ num_vertices \in Nat /\ INF \in Nat
    BY GraphFacts
  <1>2. 0 \in L /\ 0 \in 0 .. num_vertices
    BY <1>1 DEF L
  <1>3. 0 \in Capacity
    BY <1>2, GraphFacts
  <1>4. 0 \in Reach(0)[0]
    BY <1>2, ReachFacts
  <1>5. Distance(0)[0] # INF
    BY <1>2, <1>3, <1>4, DistanceOfVertex
  <1>6. Distance(0)[0] \in Nat /\ Distance(0)[0] <= INF
    BY <1>2, <1>3, DistanceOfVertex
  <1> QED
    BY <1>1, <1>5, <1>6

LEMMA DistanceFacts ==
    ASSUME g \in Graphs, ShortPaths, NEW v \in Capacity, NEW u \in Capacity
    PROVE  /\ Distance(v)[u] \in Nat /\ Distance(v)[u] <= INF
           /\ u \in Reach(v)[num_vertices] <=> Distance(v)[u] # INF
           /\ Distance(v)[u] # INF => Distance(v)[u] < g.n
           /\ \A k \in 0 .. num_vertices :
                u \in Reach(v)[k] <=> Distance(v)[u] # INF /\ Distance(v)[u] <= k
  <1>1. /\ num_vertices \in Nat /\ INF \in Nat /\ g.n \in Nat \ {0}
        /\ num_vertices \in 0 .. num_vertices /\ 0 \in 0 .. num_vertices
    BY GraphFacts
  <1>2. INF # 0
    BY InfPositive
  <1>3. CASE v \notin L
    <2>1. \A k \in 0 .. num_vertices : Reach(v)[k] = {v}
      BY <1>3, ReachAlone
    <2>2. CASE u = v
      <3> DEFINE d == CHOOSE k \in 0 .. num_vertices : Away(v, u, k)
      <3>1. Away(v, u, 0)
        BY <1>1, <2>1, <2>2 DEF Away
      <3>2. d \in 0 .. num_vertices /\ Away(v, u, d)
        BY <1>1, <3>1
      <3>3. Distance(v)[u] = d
        BY <1>1, <2>1, <2>2 DEF Distance, Away
      <3> HIDE DEF d
      <3>4. ASSUME d # 0 PROVE FALSE
        <4>1. d > 0 /\ d - 1 \in 0 .. num_vertices
          BY <1>1, <3>2, <3>4
        <4> QED
          BY <2>1, <2>2, <3>2, <4>1 DEF Away
      <3>5. Distance(v)[u] = 0
        BY <3>3, <3>4
      <3>6. \A k \in 0 .. num_vertices : 0 <= k
        BY <1>1
      <3> QED
        BY <1>1, <1>2, <2>1, <2>2, <3>5, <3>6
    <2>3. CASE u # v
      <3>1. Distance(v)[u] = INF
        BY <1>1, <2>1, <2>3 DEF Distance
      <3> QED
        BY <1>1, <2>1, <2>3, <3>1
    <2> QED
      BY <2>2, <2>3
  <1> QED
    BY <1>3, DistanceOfVertex

\* One edge more is one edge further at most.
LEMMA DistanceEdge ==
    ASSUME g \in Graphs, ShortPaths, NEW v \in Capacity,
           NEW u \in L, NEW w \in Out(u), Distance(v)[u] # INF
    PROVE  w \in L /\ Distance(v)[w] <= Distance(v)[u] + 1 /\ Distance(v)[w] # INF
  <1> DEFINE k == Distance(v)[u]
  <1>1. w \in L /\ L \subseteq Capacity
    BY GraphFacts
  <1>2. k \in Nat /\ k < g.n /\ g.n \in Nat /\ g.n <= num_vertices /\ num_vertices \in Nat
    BY <1>1, DistanceFacts, GraphFacts
  <1> DEFINE m == k + 1
  <1>3. k \in 0 .. num_vertices /\ m \in 1 .. num_vertices /\ k <= k
        /\ m \in 0 .. num_vertices /\ m - 1 = k
    BY <1>2
  <1>4. u \in Reach(v)[k]
    BY <1>1, <1>3, DistanceFacts
  <1> HIDE DEF k, m
  <1>0. v \in L
    <2>1. ASSUME v \notin L PROVE FALSE
      BY <1>3, <1>4, <2>1, ReachAlone
    <2> QED
      BY <2>1
  <1>5. Reach(v)[m] = Grow(Reach(v)[k])
    BY <1>0, <1>3, ReachFacts
  <1>6. w \in Reach(v)[m]
    BY <1>4, <1>5 DEF Grow
  <1>7. Distance(v)[w] <= m /\ Distance(v)[w] # INF
    BY <1>1, <1>3, <1>6, DistanceFacts
  <1> QED
    BY <1>1, <1>7 DEF k, m

\* A vertex of the next ball comes by an edge from the one before.
LEMMA DistancePredecessor ==
    ASSUME g \in Graphs, ShortPaths, NEW v \in Capacity,
           NEW k \in 0 .. num_vertices - 1, NEW w \in L, Distance(v)[w] = k + 1,
           k + 1 # INF
    PROVE  \E u \in L : w \in Out(u) /\ Distance(v)[u] = k
  <1>1. w \in Capacity /\ L \subseteq Capacity /\ num_vertices \in Nat
    BY GraphFacts
  <1> DEFINE m == k + 1
  <1>2. k \in 0 .. num_vertices /\ m \in 1 .. num_vertices /\ m - 1 = k
        /\ m \in 0 .. num_vertices /\ k \in Nat /\ ~(m <= k) /\ m <= m /\ m = k + 1
    BY <1>1
  <1>0. Distance(v)[w] = m /\ m # INF
    OBVIOUS
  <1> HIDE DEF m
  <1>3. w \in Reach(v)[m] /\ w \notin Reach(v)[k]
    BY <1>0, <1>1, <1>2, DistanceFacts
  <1>9. v \in L
    <2>1. ASSUME v \notin L PROVE FALSE
      BY <1>2, <1>3, <2>1, ReachAlone
    <2> QED
      BY <2>1
  <1>4. Reach(v)[m] = Grow(Reach(v)[k]) /\ Reach(v)[k] \in SUBSET L
    BY <1>2, <1>9, ReachFacts
  <1>5. PICK u \in Reach(v)[k] : w \in Out(u)
    BY <1>3, <1>4 DEF Grow
  <1>6. u \in L /\ u \in Capacity
    BY <1>1, <1>4
  <1>7. Distance(v)[u] \in Nat /\ Distance(v)[u] <= k /\ Distance(v)[u] # INF
    BY <1>2, <1>4, <1>5, <1>6, DistanceFacts
  <1>8. m <= Distance(v)[u] + 1
    BY <1>0, <1>5, <1>6, <1>7, DistanceEdge
  <1>10. Distance(v)[u] = k
    BY <1>2, <1>7, <1>8
  <1> QED
    BY <1>5, <1>6, <1>10

-----------------------------------------------------------------------------
(* The loops over all edges, and the sums.                                 *)

LEMMA ToSetConcat ==
    ASSUME NEW S, NEW s \in Seq(S), NEW t \in Seq(S)
    PROVE  s \o t \in Seq(S) /\ ToSet(s \o t) = ToSet(s) \cup ToSet(t)
  <1> DEFINE st == s \o t
  <1>1. /\ st \in Seq(S) /\ Len(st) = Len(s) + Len(t)
        /\ Len(s) \in Nat /\ Len(t) \in Nat
        /\ \A i \in 1 .. Len(s) : st[i] = s[i]
        /\ \A i \in 1 .. Len(t) : st[Len(s) + i] = t[i]
    BY ConcatProperties
  <1>2. ToSet(s) = {s[i] : i \in 1 .. Len(s)} /\ ToSet(t) = {t[i] : i \in 1 .. Len(t)}
    BY DEF ToSet
  <1>3. ToSet(st) = {st[i] : i \in 1 .. Len(st)}
    BY <1>1, SMTT(30) DEF ToSet
  <1> HIDE DEF st
  <1>4. ToSet(s) \subseteq ToSet(st)
    <2>1. \A i \in 1 .. Len(s) : i \in 1 .. Len(st)
      BY <1>1
    <2> QED
      BY <1>1, <1>2, <1>3, <2>1
  <1>5. ToSet(t) \subseteq ToSet(st)
    <2>1. \A i \in 1 .. Len(t) : Len(s) + i \in 1 .. Len(st)
      BY <1>1
    <2> QED
      BY <1>1, <1>2, <1>3, <2>1
  <1>6. ASSUME NEW i \in 1 .. Len(st) PROVE st[i] \in ToSet(s) \cup ToSet(t)
    <2>1. CASE i <= Len(s)
      BY <1>1, <1>2, <2>1
    <2>2. CASE ~(i <= Len(s))
      <3>1. i - Len(s) \in 1 .. Len(t) /\ Len(s) + (i - Len(s)) = i
        BY <1>1, <2>2
      <3> QED
        BY <1>1, <1>2, <3>1
    <2> QED
      BY <2>1, <2>2
  <1>7. ToSet(st) \subseteq ToSet(s) \cup ToSet(t)
    BY <1>3, <1>6
  <1>8. ToSet(st) = ToSet(s) \cup ToSet(t) /\ st \in Seq(S)
    BY <1>1, <1>4, <1>5, <1>7
  <1> QED
    BY <1>8 DEF st

\* The edges of the vertices us.
Arcs(us) == {e \in us \X L : e[2] \in Out(e[1])}

LEMMA RowFacts ==
    ASSUME g \in Graphs, NEW u \in L
    PROVE  Row(u) \in Seq(L \X L) /\ ToSet(Row(u)) = {<<u, w>> : w \in Out(u)}
  <1>1. g.adj[u] \in Seq(L)
    BY GraphFacts
  <1> DEFINE q == g.adj[u]
  <1>2. Len(q) \in Nat /\ q \in [1 .. Len(q) -> L]
    BY <1>1
  <1>3. Out(u) = {q[j] : j \in 1 .. Len(q)}
    BY <1>2 DEF Out, ToSet
  <1>4. Row(u) = [j \in 1 .. Len(q) |-> <<u, q[j]>>]
    BY DEF Row
  <1> HIDE DEF q
  <1>5. Row(u) \in [1 .. Len(q) -> L \X L]
    BY <1>2, <1>4
  <1>6. Row(u) \in Seq(L \X L) /\ DOMAIN Row(u) = 1 .. Len(q)
    BY <1>2, <1>5, SeqDef
  <1>7. ToSet(Row(u)) = {Row(u)[j] : j \in 1 .. Len(q)}
    BY <1>6 DEF ToSet
  <1>8. ToSet(Row(u)) = {<<u, w>> : w \in Out(u)}
    BY <1>3, <1>4, <1>7
  <1> QED
    BY <1>6, <1>8

\* The edges up to a vertex, by vertices.
Rows(upTo, us) ==
    /\ upTo \in [0 .. g.n -> Seq(L \X L)]
    /\ upTo[0] = <<>>
    /\ \A i \in 1 .. g.n : upTo[i] = upTo[i - 1] \o (IF i - 1 \in us THEN Row(i - 1) ELSE <<>>)

LEMMA RowsRun ==
    ASSUME g \in Graphs, NEW us \in SUBSET L
    PROVE  \E upTo : Rows(upTo, us) /\ EdgesOf(us) = upTo[g.n]
  <1> DEFINE N == g.n
             S == Seq(L \X L)
             part(i) == IF i - 1 \in us THEN Row(i - 1) ELSE <<>>
             step == [i \in 1 .. N |-> [q \in S |-> q \o part(i)]]
             Eqn(f) == f = [i \in 0 .. N |->
                              IF i = 0 THEN <<>>
                              ELSE f[i - 1] \o (IF i - 1 \in us THEN Row(i - 1) ELSE <<>>)]
             upTo == CHOOSE f : Eqn(f)
  <1>1. N \in Nat /\ <<>> \in S /\ L = 0 .. N - 1
    BY GraphFacts DEF L
  <1>2. \A i \in 1 .. N : part(i) \in S
    <2>1. \A i \in 1 .. N : i - 1 \in L
      BY <1>1
    <2> QED
      BY <1>1, <2>1, RowFacts
  <1>3. \A i \in 1 .. N : \A q \in S : q \o part(i) \in S
    <2> HIDE DEF part
    <2> QED
      BY <1>2
  <1>4. Steps(step, N, S)
    <2> HIDE DEF part
    <2> QED
      BY <1>3 DEF Steps
  <1>5. PICK h : Follows(h, step, <<>>, N, S)
    <2> HIDE DEF step, N, S
    <2> QED
      BY <1>1, <1>4, Recursion
  <1>6. /\ h \in [0 .. N -> S] /\ h[0] = <<>>
        /\ \A i \in 1 .. N : h[i] = h[i - 1] \o part(i)
    <2>1. /\ h \in [0 .. N -> S] /\ h[0] = <<>>
          /\ \A i \in 1 .. N : h[i] = step[i][h[i - 1]]
      BY <1>5 DEF Follows
    <2>2. \A i \in 1 .. N : i - 1 \in 0 .. N
      BY <1>1
    <2> HIDE DEF S, part
    <2> QED
      BY <2>1, <2>2
  <1>7. Eqn(h)
    <2>1. ASSUME NEW i \in 0 .. N
          PROVE  h[i] = IF i = 0 THEN <<>> ELSE h[i - 1] \o part(i)
      <3>1. i # 0 => i \in 1 .. N
        BY <1>1
      <3> HIDE DEF part
      <3> QED
        BY <1>6, <3>1
    <2> QED
      BY <1>6, <2>1
  <1>8. Eqn(upTo)
    <2> HIDE DEF Eqn
    <2> QED
      BY <1>7
  <1>9. EdgesOf(us) = upTo[N]
    BY DEF EdgesOf
  <1> HIDE DEF upTo
  <1>10. \A i \in 0 .. N : upTo[i] = IF i = 0 THEN <<>> ELSE upTo[i - 1] \o part(i)
    BY <1>8, Zenon
  <1>11. upTo[0] = <<>> /\ \A i \in 1 .. N : upTo[i] = upTo[i - 1] \o part(i)
    <2>1. 0 \in 0 .. N /\ \A i \in 1 .. N : i \in 0 .. N /\ i # 0
      BY <1>1
    <2> HIDE DEF part
    <2> QED
      BY <1>10, <2>1
  <1> DEFINE V == {i \in 0 .. N : upTo[i] \in S}
  <1>12. 0 .. N \subseteq V
    <2> HIDE DEF part, S, N
    <2>1. 0 \in V
      <3>1. 0 \in 0 .. N /\ upTo[0] \in S
        BY <1>1, <1>11
      <3> QED
        BY <3>1
    <2>2. ASSUME NEW i \in 1 .. N, i - 1 \in V PROVE i \in V
      <3>1. upTo[i - 1] \in S /\ i \in 0 .. N
        BY <1>1, <2>2
      <3>2. upTo[i] \in S
        BY <1>3, <1>11, <3>1
      <3> QED
        BY <3>1, <3>2
    <2> HIDE DEF V, N
    <2> QED
      BY <1>1, <2>1, <2>2, Induction
  <1>13. upTo \in [0 .. N -> S]
    BY <1>8, <1>12
  <1> QED
    BY <1>9, <1>11, <1>13 DEF Rows

LEMMA EdgesOfFacts ==
    ASSUME g \in Graphs, NEW us \in SUBSET L
    PROVE  EdgesOf(us) \in Seq(L \X L) /\ ToSet(EdgesOf(us)) = Arcs(us)
  <1> DEFINE N == g.n
             S == Seq(L \X L)
             part(i) == IF i - 1 \in us THEN Row(i - 1) ELSE <<>>
  <1>1. N \in Nat /\ <<>> \in S /\ L = 0 .. N - 1
    BY GraphFacts DEF L
  <1>0. \A e \in Arcs(us) : e[1] \in L /\ e[1] \in Nat /\ e[1] < N
    <2>1. \A e \in Arcs(us) : e[1] \in L
      BY DEF Arcs
    <2> QED
      BY <1>1, <2>1
  <1>2. \A i \in 1 .. N : part(i) \in S
    <2>1. \A i \in 1 .. N : i - 1 \in L
      BY <1>1
    <2> QED
      BY <1>1, <2>1, RowFacts
  <1>9. PICK upTo : Rows(upTo, us) /\ EdgesOf(us) = upTo[N]
    BY RowsRun
  <1>11. upTo[0] = <<>> /\ \A i \in 1 .. N : upTo[i] = upTo[i - 1] \o part(i)
    BY <1>9 DEF Rows
  <1> DEFINE V == {i \in 0 .. N : /\ upTo[i] \in S
                                  /\ ToSet(upTo[i]) = {e \in Arcs(us) : e[1] < i}}
  <1>12. 0 \in V
    <2>1. 0 \in 0 .. N /\ \A e \in Arcs(us) : ~(e[1] < 0)
      BY <1>0, <1>1
    <2>2. ToSet(<<>>) = {}
      BY DEF ToSet
    <2> QED
      BY <1>1, <1>11, <2>1, <2>2
  <1>13. ASSUME NEW i \in 1 .. N, i - 1 \in V PROVE i \in V
    <2>1. i \in 0 .. N /\ i - 1 \in L
      BY <1>1
    <2>2. /\ upTo[i] \in S
          /\ ToSet(upTo[i]) = ToSet(upTo[i - 1]) \cup ToSet(part(i))
      <3>1. upTo[i] = upTo[i - 1] \o part(i) /\ part(i) \in S /\ upTo[i - 1] \in S
        BY <1>2, <1>11, <1>13
      <3> HIDE DEF part
      <3> QED
        BY <3>1, ToSetConcat
    <2>3. ToSet(part(i)) = {e \in Arcs(us) : e[1] = i - 1}
      <3>1. CASE i - 1 \in us
        <4>1. ToSet(part(i)) = {<<i - 1, w>> : w \in Out(i - 1)}
          BY <2>1, <3>1, RowFacts
        <4>2. Out(i - 1) \subseteq L
          BY <2>1, GraphFacts
        <4> DEFINE P == {<<i - 1, w>> : w \in Out(i - 1)}
                   Q == {e \in Arcs(us) : e[1] = i - 1}
        <4>3. ASSUME NEW e \in Q PROVE e \in P
          <5>1. e \in us \X L /\ e[2] \in Out(e[1]) /\ e[1] = i - 1
            BY DEF Arcs
          <5>2. e = <<e[1], e[2]>>
            BY <5>1
          <5> QED
            BY <5>1, <5>2
        <4>4. ASSUME NEW e \in P PROVE e \in Q
          BY <3>1, <4>2 DEF Arcs
        <4> QED
          BY <4>1, <4>3, <4>4
      <3>2. CASE i - 1 \notin us
        <4>1. ToSet(part(i)) = {}
          BY <3>2 DEF ToSet
        <4> QED
          BY <3>2, <4>1 DEF Arcs
      <3> QED
        BY <3>1, <3>2
    <2>4. ToSet(upTo[i - 1]) = {e \in Arcs(us) : e[1] < i - 1}
      BY <1>13
    <2>5. ToSet(upTo[i]) = {e \in Arcs(us) : e[1] < i}
      <3>1. \A e \in Arcs(us) : e[1] \in Nat
        BY <1>0
      <3>2. \A e \in Arcs(us) : e[1] < i <=> e[1] < i - 1 \/ e[1] = i - 1
        BY <1>1, <3>1
      <3> HIDE DEF part
      <3> QED
        BY <2>2, <2>3, <2>4, <3>2
    <2> QED
      BY <2>1, <2>2, <2>5
  <1>14. 0 .. N \subseteq V
    <2> HIDE DEF V, N
    <2> QED
      BY <1>1, <1>12, <1>13, Induction
  <1>15. N \in V
    BY <1>1, <1>14
  <1> QED
    BY <1>0, <1>9, <1>15

\* The forms that leave out vertices of degree 0 leave out no edge.
LEMMA EdgesFacts ==
    ASSUME g \in Graphs
    PROVE  /\ Edges \in Seq(L \X L) /\ ToSet(Edges) = Arcs(L)
           /\ ArrayEdges \in Seq(L \X L) /\ ToSet(ArrayEdges) = Arcs(L)
  <1> DEFINE us == {u \in L : g.degree[u] # 0}
  <1>1. Edges \in Seq(L \X L) /\ ToSet(Edges) = Arcs(L)
    BY EdgesOfFacts DEF Edges
  <1>2. ArrayEdges \in Seq(L \X L) /\ ToSet(ArrayEdges) = Arcs(us)
    BY EdgesOfFacts DEF ArrayEdges
  <1>3. ASSUME NEW u \in L, NEW w \in Out(u) PROVE u \in us
    <2>1. /\ g.adj[u] \in Seq(L) /\ g.degree[u] \in Nat
          /\ g.degree[u] >= Len(g.adj[u])
      BY GraphFacts
    <2>2. Len(g.adj[u]) # 0 /\ Len(g.adj[u]) \in Nat
      BY <1>3, <2>1 DEF Out, ToSet
    <2> QED
      BY <2>1, <2>2
  <1>4. Arcs(us) = Arcs(L)
    BY <1>3 DEF Arcs
  <1> QED
    BY <1>1, <1>2, <1>4

\* The sums up to i, for values that are natural numbers.
LEMMA TotalRuns ==
    ASSUME num_vertices \in Nat, NEW S, NEW f,
           \A i \in S \cap Capacity : f[i] \in Nat
    PROVE  \E sum \in [0 .. num_vertices -> Nat] :
             /\ sum[0] = 0
             /\ \A i \in 1 .. num_vertices :
                  sum[i] = sum[i - 1] + (IF i - 1 \in S THEN f[i - 1] ELSE 0)
             /\ Total(f, S) = sum[num_vertices]
  <1> DEFINE N == num_vertices
             part(i) == IF i - 1 \in S THEN f[i - 1] ELSE 0
             step == [i \in 1 .. N |-> [a \in Nat |-> a + part(i)]]
             Eqn(h) == h = [i \in 0 .. N |->
                              IF i = 0 THEN 0
                              ELSE h[i - 1] + (IF i - 1 \in S THEN f[i - 1] ELSE 0)]
             upTo == CHOOSE h : Eqn(h)
  <1>1. \A i \in 1 .. N : part(i) \in Nat
    <2>1. \A i \in 1 .. N : i - 1 \in Capacity
      BY DEF Capacity
    <2> QED
      BY <2>1
  <1>2. Steps(step, N, Nat)
    <2> HIDE DEF part
    <2> QED
      BY <1>1 DEF Steps
  <1>3. PICK h : Follows(h, step, 0, N, Nat)
    <2> HIDE DEF step, N
    <2> QED
      BY <1>2, Recursion DEF N
  <1>4. /\ h \in [0 .. N -> Nat] /\ h[0] = 0
        /\ \A i \in 1 .. N : h[i] = h[i - 1] + part(i)
    <2>1. /\ h \in [0 .. N -> Nat] /\ h[0] = 0
          /\ \A i \in 1 .. N : h[i] = step[i][h[i - 1]]
      BY <1>3 DEF Follows
    <2>2. \A i \in 1 .. N : i - 1 \in 0 .. N
      OBVIOUS
    <2> HIDE DEF part
    <2> QED
      BY <2>1, <2>2
  <1>5. Eqn(h)
    <2>1. ASSUME NEW i \in 0 .. N
          PROVE  h[i] = IF i = 0 THEN 0 ELSE h[i - 1] + part(i)
      <3>1. i # 0 => i \in 1 .. N
        OBVIOUS
      <3> HIDE DEF part
      <3> QED
        BY <1>4, <3>1
    <2> QED
      BY <1>4, <2>1
  <1>6. Eqn(upTo)
    <2> HIDE DEF Eqn
    <2> QED
      BY <1>5
  <1>7. Total(f, S) = upTo[N]
    BY DEF Total
  <1> HIDE DEF upTo
  <1>8. \A i \in 0 .. N : upTo[i] = IF i = 0 THEN 0 ELSE upTo[i - 1] + part(i)
    BY <1>6, Zenon
  <1>9. upTo[0] = 0 /\ \A i \in 1 .. N : upTo[i] = upTo[i - 1] + part(i)
    <2>1. 0 \in 0 .. N /\ \A i \in 1 .. N : i \in 0 .. N /\ i # 0
      OBVIOUS
    <2> HIDE DEF part
    <2> QED
      BY <1>8, <2>1
  <1> DEFINE V == {i \in 0 .. N : upTo[i] \in Nat}
  <1>10. 0 .. N \subseteq V
    <2>1. 0 \in V
      BY <1>9
    <2>2. \A i \in 1 .. N : i - 1 \in V => i \in V
      <3> HIDE DEF part
      <3> QED
        BY <1>1, <1>9
    <2> HIDE DEF V, N
    <2> QED
      BY <2>1, <2>2, Induction DEF N
  <1>11. upTo \in [0 .. N -> Nat]
    BY <1>6, <1>10
  <1> QED
    BY <1>7, <1>9, <1>11

LEMMA TotalSame ==
    ASSUME num_vertices \in Nat, NEW S, NEW f, NEW T, NEW h,
           \A i \in S \cap Capacity : f[i] \in Nat,
           S \cap Capacity = T \cap Capacity,
           \A i \in S \cap Capacity : f[i] = h[i]
    PROVE  Total(f, S) = Total(h, T)
  <1> DEFINE N == num_vertices
  <1>1. PICK a \in [0 .. N -> Nat] :
          /\ a[0] = 0
          /\ \A i \in 1 .. N : a[i] = a[i - 1] + (IF i - 1 \in S THEN f[i - 1] ELSE 0)
          /\ Total(f, S) = a[N]
    BY TotalRuns
  <1>2. PICK b \in [0 .. N -> Nat] :
          /\ b[0] = 0
          /\ \A i \in 1 .. N : b[i] = b[i - 1] + (IF i - 1 \in T THEN h[i - 1] ELSE 0)
          /\ Total(h, T) = b[N]
    <2>1. \A i \in T \cap Capacity : h[i] \in Nat
      OBVIOUS
    <2> QED
      BY <2>1, TotalRuns
  <1> DEFINE V == {i \in 0 .. N : a[i] = b[i]}
  <1>3. 0 \in V
    BY <1>1, <1>2
  <1>4. ASSUME NEW i \in 1 .. N, i - 1 \in V PROVE i \in V
    <2>1. i - 1 \in Capacity /\ i \in 0 .. N
      BY DEF Capacity
    <2>2. (IF i - 1 \in S THEN f[i - 1] ELSE 0) = (IF i - 1 \in T THEN h[i - 1] ELSE 0)
      BY <2>1
    <2> QED
      BY <1>1, <1>2, <1>4, <2>1, <2>2
  <1>5. 0 .. N \subseteq V
    <2> HIDE DEF V, N
    <2> QED
      BY <1>3, <1>4, Induction DEF N
  <1> QED
    BY <1>1, <1>2, <1>5

-----------------------------------------------------------------------------
(* Breadth first search.                                                   *)

\* An edge leads to w from a vertex of level r.
Leads(q, s, r, w) == \E e \in ToSet(q) : e[2] = w /\ s[e[1]] = r

\* A pass gives the next level to the neighbours of this one that have none.
LEMMA VisitFacts ==
    ASSUME NEW q \in Seq(L \X L), NEW s \in [L -> Int], NEW r \in Nat
    PROVE  /\ Visit(s, r, q) \in [L -> Int]
           /\ \A w \in L :
                /\ s[w] # -1 => Visit(s, r, q)[w] = s[w]
                /\ s[w] = -1 =>
                     Visit(s, r, q)[w] = IF Leads(q, s, r, w) THEN r + 1 ELSE -1
  <1> DEFINE N == Len(q)
             S == [L -> Int]
             do(t, e) == IF t[e[1]] = r /\ t[e[2]] = -1
                         THEN [t EXCEPT ![e[2]] = r + 1] ELSE t
             step == [i \in 1 .. N |-> [t \in S |-> do(t, q[i])]]
             Eqn(f) == f = [i \in 0 .. N |->
                              IF i = 0 THEN s ELSE do(f[i - 1], q[i])]
             after == CHOOSE f : Eqn(f)
             Hit(i, w) == \E j \in 1 .. i : q[j][2] = w /\ s[q[j][1]] = r
  <1>1. N \in Nat /\ \A i \in 1 .. N : q[i] \in L \X L
    OBVIOUS
  <1>2. \A i \in 1 .. N : q[i][1] \in L /\ q[i][2] \in L
    BY <1>1
  <1>3. \A i \in 1 .. N : \A t \in S : do(t, q[i]) \in S
    BY <1>2, SMTT(30)
  <1>4. Steps(step, N, S)
    <2> HIDE DEF do
    <2> QED
      BY <1>3 DEF Steps
  <1>5. PICK h : Follows(h, step, s, N, S)
    <2> HIDE DEF step, N, S
    <2> QED
      BY <1>1, <1>4, Recursion DEF S
  <1>6. /\ h \in [0 .. N -> S] /\ h[0] = s
        /\ \A i \in 1 .. N : h[i] = do(h[i - 1], q[i])
    <2>1. /\ h \in [0 .. N -> S] /\ h[0] = s
          /\ \A i \in 1 .. N : h[i] = step[i][h[i - 1]]
      BY <1>5 DEF Follows
    <2>2. \A i \in 1 .. N : i - 1 \in 0 .. N
      BY <1>1
    <2> HIDE DEF S, do
    <2> QED
      BY <2>1, <2>2
  <1>7. Eqn(h)
    <2>1. ASSUME NEW i \in 0 .. N
          PROVE  h[i] = IF i = 0 THEN s ELSE do(h[i - 1], q[i])
      <3>1. i # 0 => i \in 1 .. N
        BY <1>1
      <3> HIDE DEF do
      <3> QED
        BY <1>6, <3>1
    <2> HIDE DEF do
    <2> QED
      BY <1>6, <2>1
  <1>8. Eqn(after)
    <2> HIDE DEF Eqn
    <2> QED
      BY <1>7
  <1>9. Visit(s, r, q) = after[N]
    BY DEF Visit, ForEach
  <1> HIDE DEF after
  <1>10. \A i \in 0 .. N : after[i] = IF i = 0 THEN s ELSE do(after[i - 1], q[i])
    <2> HIDE DEF do
    <2> QED
      BY <1>8, Zenon
  <1>11. after[0] = s /\ \A i \in 1 .. N : after[i] = do(after[i - 1], q[i])
    <2>1. 0 \in 0 .. N /\ \A i \in 1 .. N : i \in 0 .. N /\ i # 0
      BY <1>1
    <2> HIDE DEF do
    <2> QED
      BY <1>10, <2>1
  <1> DEFINE Good(i) == /\ after[i] \in S
                        /\ \A w \in L :
                             /\ s[w] # -1 => after[i][w] = s[w]
                             /\ s[w] = -1 =>
                                  after[i][w] = IF Hit(i, w) THEN r + 1 ELSE -1
             V == {i \in 0 .. N : Good(i)}
  <1>12. 0 \in V
    <2>1. \A w \in L : ~Hit(0, w)
      OBVIOUS
    <2> HIDE DEF Hit
    <2> QED
      BY <1>1, <1>11, <2>1
  <1>13. ASSUME NEW i \in 1 .. N, i - 1 \in V PROVE i \in V
    <2> DEFINE t == after[i - 1]
               u == q[i][1]
               v == q[i][2]
    <2>1. /\ i \in 0 .. N /\ u \in L /\ v \in L /\ t \in S /\ Good(i - 1)
          /\ after[i] = IF t[u] = r /\ t[v] = -1 THEN [t EXCEPT ![v] = r + 1] ELSE t
      <3>1. i \in 0 .. N /\ u \in L /\ v \in L
        BY <1>1, <1>2
      <3>2. Good(i - 1) /\ t \in S
        BY <1>13
      <3>3. after[i] = do(t, q[i])
        BY <1>11
      <3> HIDE DEF Good
      <3> QED
        BY <3>1, <3>2, <3>3
    <2>2. \A w \in L : Hit(i, w) <=> Hit(i - 1, w) \/ (v = w /\ s[u] = r)
      <3>1. 1 .. i = (1 .. i - 1) \cup {i}
        BY <1>1
      <3> QED
        BY <3>1
    <2> HIDE DEF Hit
    <2>3. t[u] = r <=> s[u] = r
      <3>1. /\ s[u] # -1 => t[u] = s[u]
            /\ s[u] = -1 => t[u] = IF Hit(i - 1, u) THEN r + 1 ELSE -1
        BY <2>1
      <3> HIDE DEF t, u
      <3> QED
        BY <3>1, SMTT(30)
    <2>4. after[i] \in S
      <3>1. /\ u \in L /\ v \in L /\ t \in S
            /\ after[i] = IF t[u] = r /\ t[v] = -1 THEN [t EXCEPT ![v] = r + 1] ELSE t
        <4> HIDE DEF Good, t, u, v
        <4> QED
          BY <2>1
      <3>2. r + 1 \in Int
        OBVIOUS
      <3> HIDE DEF t, u, v
      <3> QED
        BY <3>1, <3>2
    <2> HIDE DEF t, u, v
    <2>5. ASSUME NEW w \in L
          PROVE  /\ s[w] # -1 => after[i][w] = s[w]
                 /\ s[w] = -1 => after[i][w] = IF Hit(i, w) THEN r + 1 ELSE -1
      <3>1. /\ s[w] # -1 => t[w] = s[w]
            /\ s[w] = -1 => t[w] = IF Hit(i - 1, w) THEN r + 1 ELSE -1
        BY <2>1 DEF t
      <3>2. CASE w # v
        <4>1. after[i][w] = t[w] /\ (Hit(i, w) <=> Hit(i - 1, w))
          BY <2>1, <2>2, <3>2
        <4> QED
          BY <3>1, <4>1
      <3>3. CASE w = v
        <4>1. after[i][v] = IF t[u] = r /\ t[v] = -1 THEN r + 1 ELSE t[v]
          BY <2>1
        <4>2. Hit(i, v) <=> Hit(i - 1, v) \/ s[u] = r
          BY <2>1, <2>2
        <4> QED
          BY <2>3, <3>1, <3>3, <4>1, <4>2
      <3> QED
        BY <3>2, <3>3
    <2> QED
      BY <2>1, <2>4, <2>5
  <1>14. 0 .. N \subseteq V
    <2> HIDE DEF V, N
    <2> QED
      BY <1>1, <1>12, <1>13, Induction
  <1>15. Good(N)
    <2>1. N \in V
      <3> HIDE DEF V
      <3> QED
        BY <1>1, <1>14
    <2> QED
      BY <2>1
  <1>16. \A w \in L : Hit(N, w) <=> Leads(q, s, r, w)
    <2>1. ToSet(q) = {q[j] : j \in 1 .. N}
      BY <1>1 DEF ToSet
    <2> QED
      BY <2>1 DEF Leads
  <1> HIDE DEF Hit
  <1> QED
    BY <1>9, <1>15, <1>16

-----------------------------------------------------------------------------
(* Which algorithm takes a step.                                           *)

BfsForms == {"test_bfs", "test_bfs2", "test_bfs3", "test_bfs5"}
BellmanFordForms == {"bellman_ford2", "bellman_ford3", "bellman_ford5"}

LEMMA RunOthers ==
    ASSUME Run
    PROVE  \/ test_bfs \/ test_bfs2 \/ test_bfs_iterators
           \/ bellman_ford2 \/ bellman_ford_iterators \/ dijkstra
           \/ alg \notin BySource
  <1>1. CASE test_cc2 \/ test_cc_iterators
    BY <1>1 DEF test_cc2, test_cc_iterators, BySource
  <1>2. CASE page_rank2 \/ page_rank_iterators
    BY <1>2 DEF page_rank2, page_rank_iterators, BySource
  <1>3. CASE test_one_hop \/ test_two_hop \/ test_two_hop_l
    BY <1>3 DEF test_one_hop, test_two_hop, test_two_hop_l, BySource
  <1>4. CASE avg_degree \/ BFS_with_edge_map \/ CC_T \/ SSSP_BF
    BY <1>4 DEF avg_degree, BFS_with_edge_map, CC_T, SSSP_BF, BySource
  <1> QED
    BY <1>1, <1>2, <1>3, <1>4 DEF Run

LEMMA RunBfs ==
    ASSUME Run, alg \in BfsForms
    PROVE  Bfs(Edges) \/ Bfs(ArrayEdges)
  <1>1. test_bfs \/ test_bfs2 \/ test_bfs_iterators
    <2>1. alg \in BySource
      BY DEF BfsForms, BySource
    <2>2. ~bellman_ford2 /\ ~bellman_ford_iterators /\ ~dijkstra
      BY DEF BfsForms, bellman_ford2, bellman_ford_iterators, dijkstra
    <2> QED
      BY <2>1, <2>2, RunOthers
  <1> QED
    BY <1>1 DEF test_bfs, test_bfs2, test_bfs_iterators

\* The graph and the call are those of a program, and stay.
CallInv ==
    /\ g \in Graphs
    /\ alg \in BySource => source \in Range(g.phys)
    /\ alg \in EdgeMaps \union Connectivity => Undirected

LEMMA CallInvariant == Spec => []CallInv
  <1>1. Init => CallInv
    <2> SUFFICES ASSUME Init PROVE CallInv
      OBVIOUS
    <2>1. g \in Graphs /\ (alg \in EdgeMaps \union Connectivity => Undirected)
      BY DEF Init
    <2>3. alg \in BySource => source \in Range(g.phys)
      BY DEF Init, Searches, BySource, Connectivity
    <2> QED
      BY <2>1, <2>3 DEF CallInv
  <1>2. CallInv /\ [Next]_vars => CallInv'
    <2> SUFFICES ASSUME CallInv, [Next]_vars PROVE CallInv'
      OBVIOUS
    <2>1. UNCHANGED call
      BY DEF Next, Returned, vars
    <2> QED
      BY <2>1 DEF CallInv, call, Undirected, L, BySource, EdgeMaps, Connectivity
  <1> QED
    BY <1>1, <1>2, PTL DEF Spec

-----------------------------------------------------------------------------
(* Breadth first search finds the distances.                               *)

From == find_vertex(source)
D == Distance(From)

\* Each vertex at most r edges away has its distance, the others have none.
Levels(s, r) ==
    /\ s \in [L -> Int]
    /\ \A w \in L : s[w] = IF D[w] # INF /\ D[w] <= r THEN D[w] ELSE -1

LEMMA FromFacts ==
    ASSUME CallInv, alg \in BySource, ShortPaths
    PROVE  /\ g \in Graphs /\ From \in L /\ From \in Capacity
           /\ num_vertices \in Nat /\ INF \in Nat /\ g.n \in Nat /\ g.n <= num_vertices
           /\ L \subseteq Capacity
           /\ \A w \in L : D[w] \in Nat /\ (D[w] = INF \/ D[w] < g.n)
           /\ \A w \in L : D[w] <= INF
  <1>1. g \in Graphs /\ From \in L
    BY FindVertex DEF CallInv, From
  <1>2. L \subseteq Capacity
    BY <1>1, GraphFacts
  <1>3. \A w \in L : D[w] \in Nat /\ (D[w] = INF \/ D[w] < g.n)
    BY <1>1, <1>2, DistanceFacts, GraphFacts DEF D
  <1>4. \A w \in L : D[w] <= INF
    BY <1>1, <1>2, DistanceFacts DEF D
  <1> QED
    BY <1>1, <1>2, <1>3, <1>4, GraphFacts

LEMMA VisitLevels ==
    ASSUME CallInv, alg \in BySource, ShortPaths,
           NEW r \in 0 .. g.n - 1, NEW s, Levels(s, r),
           NEW q \in Seq(L \X L), ToSet(q) = Arcs(L)
    PROVE  Levels(Visit(s, r, q), r + 1)
  <1> DEFINE t == Visit(s, r, q)
  <1>1. /\ g \in Graphs /\ From \in L /\ num_vertices \in Nat /\ g.n \in Nat
        /\ g.n <= num_vertices /\ INF \in Nat
        /\ \A w \in L : D[w] \in Nat /\ (D[w] = INF \/ D[w] < g.n)
    BY FromFacts
  <1>2. r \in Nat /\ r \in 0 .. num_vertices - 1 /\ r + 1 \in Nat
    BY <1>1
  <1>3. /\ s \in [L -> Int]
        /\ \A w \in L : s[w] = IF D[w] # INF /\ D[w] <= r THEN D[w] ELSE -1
    BY DEF Levels
  <1>4. /\ t \in [L -> Int]
        /\ \A w \in L :
             /\ s[w] # -1 => t[w] = s[w]
             /\ s[w] = -1 => t[w] = IF Leads(q, s, r, w) THEN r + 1 ELSE -1
    <2>1. r \in Nat /\ s \in [L -> Int] /\ q \in Seq(L \X L)
      BY <1>2, <1>3
    <2> QED
      BY <2>1, VisitFacts
  <1> HIDE DEF t
  <1>5. ASSUME NEW w \in L
        PROVE  t[w] = IF D[w] # INF /\ D[w] <= r + 1 THEN D[w] ELSE -1
    <2>1. CASE D[w] # INF /\ D[w] <= r
      <3>1. s[w] = D[w] /\ s[w] # -1
        BY <1>1, <1>3, <2>1
      <3> QED
        BY <1>1, <1>2, <1>4, <2>1, <3>1
    <2>2. CASE ~(D[w] # INF /\ D[w] <= r)
      <3>1. s[w] = -1
        BY <1>3, <2>2
      <3>2. ASSUME NEW e \in ToSet(q), e[2] = w, s[e[1]] = r
            PROVE  D[w] # INF /\ D[w] = r + 1
        <4> DEFINE u == e[1]
        <4>1. u \in L /\ w \in Out(u)
          BY <3>2 DEF Arcs
        <4> HIDE DEF u
        <4>2. s[u] = r
          BY <3>2 DEF u
        <4>3. D[u] = r /\ D[u] # INF
          BY <1>1, <1>2, <1>3, <4>1, <4>2
        <4>4. D[w] <= r + 1 /\ D[w] # INF
          BY <1>1, <4>1, <4>3, FromFacts, DistanceEdge DEF D
        <4> QED
          BY <1>1, <1>2, <2>2, <4>4
      <3>3. ASSUME D[w] # INF, D[w] = r + 1
            PROVE  \E e \in ToSet(q) : e[2] = w /\ s[e[1]] = r
        <4>1. PICK u \in L : w \in Out(u) /\ D[u] = r
          BY <1>1, <1>2, <3>3, FromFacts, DistancePredecessor DEF D
        <4>2. <<u, w>> \in Arcs(L)
          BY <4>1 DEF Arcs
        <4>4. D[u] # INF
          <5>1. r + 1 <= INF
            BY <3>3, FromFacts
          <5> QED
            BY <1>1, <1>2, <4>1, <5>1
        <4>3. s[u] = r
          BY <1>2, <1>3, <4>1, <4>4
        <4> QED
          BY <4>2, <4>3
      <3>4. D[w] # INF => (D[w] <= r + 1 <=> D[w] = r + 1)
        BY <1>1, <1>2, <2>2
      <3>5. Leads(q, s, r, w) <=> D[w] # INF /\ D[w] = r + 1
        BY <3>2, <3>3 DEF Leads
      <3> QED
        BY <1>4, <3>1, <3>4, <3>5
    <2> QED
      BY <2>1, <2>2
  <1>6. Levels(t, r + 1)
    BY <1>4, <1>5 DEF Levels
  <1> QED
    BY <1>6 DEF t

\* What breadth first search has done: r passes have gone r edges, each further.
BfsInv ==
    alg \in BfsForms =>
      /\ pc \in {"call", "loop", "done"}
      /\ pc = "call" => round = 0
      /\ pc = "loop" =>
           /\ round \in 0 .. g.n - 1
           /\ Levels(val, round)
           /\ \A i \in 1 .. round : Reach(From)[i] # Reach(From)[i - 1]
      /\ pc = "done" =>
           /\ round <= g.n
           /\ \A w \in L : val[w] = IF D[w] = INF THEN -1 ELSE D[w]
           /\ result = Total(val, {v \in L : val[v] # -1})

LEMMA BfsPass ==
    ASSUME CallInv, BfsInv, alg \in BfsForms, ShortPaths, pc = "loop",
           UNCHANGED call, NEW q \in Seq(L \X L), ToSet(q) = Arcs(L),
           val' = Visit(val, round, q), round' = round + 1
    PROVE  /\ Levels(val', round')
           /\ val' = val =>
                \A w \in L : val'[w] = IF D[w] = INF THEN -1 ELSE D[w]
           /\ val' # val =>
                /\ round' < g.n
                /\ \A i \in 1 .. round' : Reach(From)[i] # Reach(From)[i - 1]
           /\ round' <= g.n
  <1> DEFINE r == round
             m == round'
             B == Reach(From)
  <1>0. alg \in BySource
    BY DEF BfsForms, BySource
  <1>1. /\ g \in Graphs /\ From \in L /\ num_vertices \in Nat /\ g.n \in Nat
        /\ g.n <= num_vertices /\ INF \in Nat /\ L \subseteq Capacity
        /\ \A w \in L : D[w] \in Nat /\ (D[w] = INF \/ D[w] < g.n)
    BY <1>0, FromFacts
  <1>2. /\ r \in 0 .. g.n - 1 /\ Levels(val, r)
        /\ \A i \in 1 .. r : B[i] # B[i - 1]
    BY DEF BfsInv
  <1>3. Levels(val', m)
    BY <1>0, <1>2, VisitLevels
  <1>4. /\ r \in 0 .. num_vertices /\ m \in 0 .. num_vertices /\ m \in Nat
        /\ m \in 1 .. num_vertices /\ m - 1 = r /\ m <= g.n
        /\ r <= num_vertices /\ num_vertices \in 0 .. num_vertices
    BY <1>1, <1>2
  <1>5. /\ \A w \in L : w \in B[r] <=> D[w] # INF /\ D[w] <= r
        /\ \A w \in L : w \in B[m] <=> D[w] # INF /\ D[w] <= m
        /\ \A w \in L : w \in B[num_vertices] <=> D[w] # INF
    BY <1>1, <1>4, DistanceFacts DEF D
  <1>6. B[m] = Grow(B[r]) /\ B[r] \in SUBSET L /\ B[m] \in SUBSET L
    BY <1>1, <1>4, ReachFacts
  <1> HIDE DEF r, m, B
  <1>7. B[m] = B[r] => \A w \in L : val'[w] = IF D[w] = INF THEN -1 ELSE D[w]
    <2> SUFFICES ASSUME B[m] = B[r], NEW w \in L
                 PROVE  val'[w] = IF D[w] = INF THEN -1 ELSE D[w]
      OBVIOUS
    <2>1. B[num_vertices] = B[r]
      BY <1>1, <1>4, <1>6, ReachStable DEF B
    <2>2. D[w] # INF /\ D[w] <= m <=> D[w] # INF
      BY <1>5, <2>1
    <2> QED
      BY <1>3, <2>2 DEF Levels
  <1>8. val' = val <=> B[m] = B[r]
    <2>1. ASSUME B[m] = B[r] PROVE val' = val
      <3>1. \A w \in L : D[w] # INF /\ D[w] <= r <=> D[w] # INF /\ D[w] <= m
        BY <1>5, <2>1
      <3>2. val \in [L -> Int] /\ val' \in [L -> Int]
        BY <1>2, <1>3 DEF Levels
      <3>3. \A w \in L : val'[w] = val[w]
        BY <1>2, <1>3, <3>1 DEF Levels
      <3> QED
        BY <3>2, <3>3
    <2>2. ASSUME val' = val PROVE B[m] = B[r]
      <3>1. \A w \in L : w \in B[m] <=> w \in B[r]
        <4> SUFFICES ASSUME NEW w \in L
                     PROVE  D[w] # INF /\ D[w] <= m <=> D[w] # INF /\ D[w] <= r
          BY <1>5
        <4>1. (IF D[w] # INF /\ D[w] <= m THEN D[w] ELSE -1)
                = (IF D[w] # INF /\ D[w] <= r THEN D[w] ELSE -1)
          BY <1>2, <1>3, <2>2 DEF Levels
        <4> QED
          BY <1>1, <4>1
      <3> QED
        BY <1>6, <3>1
    <2> QED
      BY <2>1, <2>2
  <1>9. ASSUME B[m] # B[r]
        PROVE  m < g.n /\ \A i \in 1 .. m : B[i] # B[i - 1]
    <2>1. \A i \in 1 .. m : i = m \/ i \in 1 .. r
      BY <1>1, <1>2, <1>4
    <2>2. \A i \in 1 .. m : B[i] # B[i - 1]
      BY <1>2, <1>4, <1>9, <2>1 DEF r, B
    <2>3. m < g.n
      BY <1>1, <1>4, <2>2, ReachSize DEF B
    <2> QED
      BY <2>2, <2>3
  <1>10. \A i \in 1 .. m : i - 1 \in Int
    OBVIOUS
  <1>11. /\ val' = val => \A w \in L : val'[w] = IF D[w] = INF THEN -1 ELSE D[w]
         /\ val' # val => m < g.n /\ \A i \in 1 .. m : B[i] # B[i - 1]
    BY <1>7, <1>8, <1>9
  <1> QED
    BY <1>3, <1>4, <1>11 DEF m, B

LEMMA BfsStep ==
    ASSUME CallInv, BfsInv, ShortPaths, [Next]_vars
    PROVE  BfsInv'
  <1> SUFFICES ASSUME (alg \in BfsForms)' PROVE BfsInv'
    BY DEF BfsInv
  <1>1. UNCHANGED call
    BY DEF Next, Returned, vars
  <1>2. /\ alg' = alg /\ alg \in BfsForms /\ alg \in BySource
        /\ L' = L /\ From' = From /\ D' = D /\ g' = g
    BY <1>1 DEF call, BfsForms, BySource, L, From, find_vertex, D, Distance, Reach
  <1>3. Reach(From)' = Reach(From)
    BY <1>1, <1>2 DEF call, Reach
  <1>4. CASE UNCHANGED vars
    BY <1>2, <1>3, <1>4 DEF vars, BfsInv, Levels, Total
  <1>5. ASSUME NEW q \in Seq(L \X L), ToSet(q) = Arcs(L), Bfs(q)
        PROVE  BfsInv'
    <2>1. ASSUME Begin([v \in L |-> IF v = From THEN 0 ELSE -1], None, NoFrontier)
          PROVE  BfsInv'
      <3>1. /\ pc' = "loop" /\ round' = 0
            /\ val' = [v \in L |-> IF v = From THEN 0 ELSE -1]
        BY <2>1 DEF Begin
      <3>2. Levels(val', 0)
        <4>1. /\ g \in Graphs /\ From \in L /\ num_vertices \in Nat
              /\ L \subseteq Capacity /\ g.n \in Nat
          BY <1>2, FromFacts
        <4>2. Reach(From)[0] = {From} /\ 0 \in 0 .. num_vertices
          BY <4>1, ReachFacts
        <4>3. \A w \in L : w = From <=> D[w] # INF /\ D[w] <= 0
          BY <4>1, <4>2, DistanceFacts DEF D
        <4>4. \A w \in L : D[w] \in Nat
          BY <1>2, FromFacts
        <4> QED
          BY <3>1, <4>3, <4>4 DEF Levels
      <3>3. 0 \in 0 .. g.n - 1
        BY <1>2, FromFacts, GraphFacts
      <3> QED
        BY <1>2, <1>3, <3>1, <3>2, <3>3 DEF BfsInv, Levels
    <2>2. ASSUME /\ pc = "loop" /\ val' = Visit(val, round, q) /\ round' = round + 1
                 /\ IF val' # val THEN Goto("loop")
                    ELSE Return(Total(val, {v \in L : val[v] # -1}))
          PROVE  BfsInv'
      <3>1. /\ Levels(val', round')
            /\ val' = val =>
                 \A w \in L : val'[w] = IF D[w] = INF THEN -1 ELSE D[w]
            /\ val' # val =>
                 /\ round' < g.n
                 /\ \A i \in 1 .. round' : Reach(From)[i] # Reach(From)[i - 1]
            /\ round' <= g.n
        BY <1>1, <1>2, <1>5, <2>2, BfsPass
      <3>2. Levels(val, round)'
        BY <1>2, <3>1 DEF Levels
      <3>3. CASE val' # val
        <4>1. pc' = "loop"
          BY <2>2, <3>3 DEF Goto
        <4>2. round \in Nat /\ g.n \in Nat
          BY <1>2, <2>2, FromFacts DEF BfsInv
        <4>3. round' \in 0 .. g.n - 1
          BY <2>2, <3>1, <3>3, <4>2
        <4> QED
          BY <1>2, <1>3, <3>1, <3>2, <3>3, <4>1, <4>3 DEF BfsInv
      <3>4. CASE val' = val
        <4>1. pc' = "done" /\ result' = Total(val, {v \in L : val[v] # -1})
          BY <2>2, <3>4 DEF Return
        <4>2. result' = Total(val', {v \in L' : val'[v] # -1})
          BY <1>2, <3>4, <4>1
        <4> QED
          BY <1>2, <3>1, <3>4, <4>1, <4>2 DEF BfsInv, Total
      <3> QED
        BY <3>3, <3>4
    <2> QED
      BY <1>5, <2>1, <2>2 DEF Bfs, From
  <1>6. CASE Run
    <2>1. Bfs(Edges) \/ Bfs(ArrayEdges)
      BY <1>2, <1>6, RunBfs
    <2>2. g \in Graphs
      BY DEF CallInv
    <2> QED
      BY <1>5, <2>1, <2>2, EdgesFacts
  <1> QED
    BY <1>4, <1>6 DEF Next, Returned

-----------------------------------------------------------------------------
(* Bellman-Ford finds the distances.                                       *)

\* Nothing is below its distance, and what is at most r edges away has it.
Bounds(s) ==
    /\ s \in [L -> Nat]
    /\ \A w \in L : D[w] <= s[w] /\ s[w] <= INF
Near(s, r) == \A w \in L : D[w] <= r => s[w] = D[w]
Exact(s) == s \in [L -> Nat] /\ \A w \in L : s[w] = D[w]

\* A pass relaxes every edge, with the value its source had before at most.
LEMMA RelaxFacts ==
    ASSUME CallInv, alg \in BySource, ShortPaths,
           NEW q \in Seq(L \X L), ToSet(q) = Arcs(L), NEW s, Bounds(s)
    PROVE  /\ Bounds(Relax(s, q))
           /\ \A w \in L : Relax(s, q)[w] <= s[w]
           /\ \A e \in Arcs(L) : Relax(s, q)[e[2]] <= s[e[1]] + 1
  <1> DEFINE N == Len(q)
             S == [L -> Nat]
             do(t, e) == IF t[e[1]] + 1 < t[e[2]]
                         THEN [t EXCEPT ![e[2]] = t[e[1]] + 1] ELSE t
             step == [i \in 1 .. N |-> [t \in S |-> do(t, q[i])]]
             Eqn(f) == f = [i \in 0 .. N |->
                              IF i = 0 THEN s ELSE do(f[i - 1], q[i])]
             after == CHOOSE f : Eqn(f)
  <1>1. N \in Nat /\ \A i \in 1 .. N : q[i] \in L \X L
    OBVIOUS
  <1>2. \A i \in 1 .. N : q[i][1] \in L /\ q[i][2] \in L
    BY <1>1
  <1>0. s \in S
    BY DEF Bounds
  <1>3. \A i \in 1 .. N : \A t \in S : do(t, q[i]) \in S
    BY <1>2
  <1>4. Steps(step, N, S)
    <2> HIDE DEF do
    <2> QED
      BY <1>3 DEF Steps
  <1>5. PICK h : Follows(h, step, s, N, S)
    <2> HIDE DEF step, N, S
    <2> QED
      BY <1>0, <1>1, <1>4, Recursion
  <1>6. /\ h \in [0 .. N -> S] /\ h[0] = s
        /\ \A i \in 1 .. N : h[i] = do(h[i - 1], q[i])
    <2>1. /\ h \in [0 .. N -> S] /\ h[0] = s
          /\ \A i \in 1 .. N : h[i] = step[i][h[i - 1]]
      BY <1>5 DEF Follows
    <2>2. \A i \in 1 .. N : i - 1 \in 0 .. N
      BY <1>1
    <2> HIDE DEF S, do
    <2> QED
      BY <2>1, <2>2
  <1>7. Eqn(h)
    <2>1. ASSUME NEW i \in 0 .. N
          PROVE  h[i] = IF i = 0 THEN s ELSE do(h[i - 1], q[i])
      <3>1. i # 0 => i \in 1 .. N
        BY <1>1
      <3> HIDE DEF do
      <3> QED
        BY <1>6, <3>1
    <2> HIDE DEF do
    <2> QED
      BY <1>6, <2>1
  <1>8. Eqn(after)
    <2> HIDE DEF Eqn
    <2> QED
      BY <1>7
  <1>9. Relax(s, q) = after[N]
    BY DEF Relax, ForEach, Shorter
  <1> HIDE DEF after
  <1>10. \A i \in 0 .. N : after[i] = IF i = 0 THEN s ELSE do(after[i - 1], q[i])
    <2> HIDE DEF do
    <2> QED
      BY <1>8, Zenon
  <1>11. after[0] = s /\ \A i \in 1 .. N : after[i] = do(after[i - 1], q[i])
    <2>1. 0 \in 0 .. N /\ \A i \in 1 .. N : i \in 0 .. N /\ i # 0
      BY <1>1
    <2> HIDE DEF do
    <2> QED
      BY <1>10, <2>1
  <1> DEFINE Good(i) == /\ Bounds(after[i])
                        /\ \A w \in L : after[i][w] <= s[w]
                        /\ \A j \in 1 .. i : after[i][q[j][2]] <= s[q[j][1]] + 1
             V == {i \in 0 .. N : Good(i)}
  <1>12. 0 \in V
    <2>1. \A w \in L : s[w] <= s[w]
      BY <1>0
    <2> QED
      BY <1>1, <1>11, <2>1
  <1>13. ASSUME NEW i \in 1 .. N, i - 1 \in V PROVE i \in V
    <2> DEFINE t == after[i - 1]
               u == q[i][1]
               v == q[i][2]
    <2>1. /\ i \in 0 .. N /\ u \in L /\ v \in L
          /\ after[i] = IF t[u] + 1 < t[v] THEN [t EXCEPT ![v] = t[u] + 1] ELSE t
      <3>1. i \in 0 .. N /\ u \in L /\ v \in L
        BY <1>1, <1>2
      <3>2. after[i] = do(t, q[i])
        BY <1>11
      <3> QED
        BY <3>1, <3>2
    <2>2. /\ Bounds(t) /\ \A w \in L : t[w] <= s[w]
          /\ \A j \in 1 .. i - 1 : t[q[j][2]] <= s[q[j][1]] + 1
      BY <1>13
    <2>3. v \in Out(u)
      <3>1. q[i] \in ToSet(q)
        BY <1>1 DEF ToSet
      <3> QED
        BY <3>1 DEF Arcs
    <2>4. INF \in Nat /\ \A w \in L : D[w] \in Nat
      BY FromFacts
    <2>5. t[u] + 1 < t[v] => D[v] <= t[u] + 1
      <3> SUFFICES ASSUME t[u] + 1 < t[v] PROVE D[v] <= t[u] + 1
        OBVIOUS
      <3>1. /\ t[u] \in Nat /\ t[v] \in Nat /\ D[u] <= t[u] /\ t[v] <= INF
        BY <2>1, <2>2 DEF Bounds
      <3> HIDE DEF t, u, v
      <3>2. D[u] # INF
        BY <2>1, <2>4, <3>1
      <3>3. D[v] <= D[u] + 1
        BY <2>1, <2>3, <3>2, FromFacts, DistanceEdge DEF D
      <3> QED
        BY <2>1, <2>4, <3>1, <3>3
    <2>6. \A w \in L : t[w] \in Nat /\ D[w] <= t[w] /\ t[w] <= INF /\ s[w] \in Nat
      BY <1>0, <2>2 DEF Bounds
    <2> DEFINE a == after[i]
    <2>7. a \in [L -> Nat] /\ \A w \in L : a[w] <= t[w] /\ D[w] <= a[w]
      <3>1. t \in [L -> Nat]
        BY <2>2 DEF Bounds
      <3> HIDE DEF t, u, v
      <3>2. a \in [L -> Nat]
        BY <2>1, <2>6, <3>1
      <3>3. ASSUME NEW w \in L PROVE a[w] <= t[w] /\ D[w] <= a[w]
        <4>1. CASE w = v /\ t[u] + 1 < t[v]
          <5>1. a[w] = t[u] + 1
            BY <2>1, <3>1, <4>1
          <5> QED
            BY <2>1, <2>4, <2>5, <2>6, <4>1, <5>1
        <4>2. CASE ~(w = v /\ t[u] + 1 < t[v])
          <5>1. a[w] = t[w]
            BY <2>1, <3>1, <4>2
          <5> QED
            BY <2>4, <2>6, <5>1
        <4> QED
          BY <4>1, <4>2
      <3> QED
        BY <3>2, <3>3
    <2>8. a[v] <= t[u] + 1
      <3>1. t \in [L -> Nat]
        BY <2>2 DEF Bounds
      <3> HIDE DEF t, u, v
      <3> QED
        BY <2>1, <2>6, <3>1
    <2> HIDE DEF a
    <2>9. Bounds(a) /\ \A w \in L : a[w] <= s[w]
      <3>1. ASSUME NEW w \in L PROVE a[w] <= INF /\ a[w] <= s[w]
        <4>1. a[w] \in Nat /\ a[w] <= t[w] /\ t[w] <= s[w]
          BY <2>2, <2>7
        <4> HIDE DEF t
        <4> QED
          BY <2>4, <2>6, <4>1
      <3> QED
        BY <2>7, <3>1 DEF Bounds
    <2>10. ASSUME NEW j \in 1 .. i PROVE a[q[j][2]] <= s[q[j][1]] + 1
      <3>1. j \in 1 .. N
        BY <1>1
      <3>2. q[j][1] \in L /\ q[j][2] \in L
        BY <1>2, <3>1
      <3>3. CASE j = i
        <4>1. a[v] \in Nat /\ t[u] \in Nat /\ s[u] \in Nat /\ t[u] <= s[u]
          BY <2>1, <2>2, <2>6, <2>7
        <4> HIDE DEF t
        <4>2. a[v] <= s[u] + 1
          BY <2>8, <4>1
        <4> QED
          BY <3>3, <4>2
      <3>4. CASE j # i
        <4>1. j \in 1 .. i - 1
          BY <3>4
        <4> DEFINE x == q[j][1]
                   y == q[j][2]
        <4>2. t[y] <= s[x] + 1
          BY <2>2, <4>1
        <4>3. a[y] <= t[y] /\ a[y] \in Nat /\ t[y] \in Nat /\ s[x] \in Nat
          BY <2>6, <2>7, <3>2
        <4> HIDE DEF x, y, t
        <4>4. a[y] <= s[x] + 1
          BY <4>2, <4>3
        <4> QED
          BY <4>4 DEF x, y
      <3> QED
        BY <3>3, <3>4
    <2>11. Good(i)
      BY <2>9, <2>10 DEF a
    <2> QED
      BY <2>1, <2>11
  <1>14. 0 .. N \subseteq V
    <2> HIDE DEF V, N
    <2> QED
      BY <1>1, <1>12, <1>13, Induction
  <1>15. Good(N)
    <2>1. N \in V
      <3> HIDE DEF V
      <3> QED
        BY <1>1, <1>14
    <2> QED
      BY <2>1
  <1>16. ASSUME NEW e \in Arcs(L) PROVE after[N][e[2]] <= s[e[1]] + 1
    <2>1. PICK j \in 1 .. N : q[j] = e
      BY <1>1 DEF ToSet
    <2> QED
      BY <1>15, <2>1
  <1> QED
    BY <1>9, <1>15, <1>16

\* So that a pass brings the distances one edge further,
LEMMA RelaxNear ==
    ASSUME CallInv, alg \in BySource, ShortPaths,
           NEW q \in Seq(L \X L), ToSet(q) = Arcs(L), NEW s, Bounds(s),
           NEW r \in 0 .. g.n - 1, Near(s, r)
    PROVE  Near(Relax(s, q), r + 1)
  <1> DEFINE t == Relax(s, q)
             m == r + 1
  <1>1. /\ g \in Graphs /\ From \in L /\ num_vertices \in Nat /\ g.n \in Nat
        /\ g.n <= num_vertices /\ INF \in Nat
        /\ \A w \in L : D[w] \in Nat
    BY FromFacts
  <1>2. r \in 0 .. num_vertices - 1 /\ m \in Nat /\ r \in Nat
    BY <1>1
  <1>3. /\ Bounds(t) /\ \A w \in L : t[w] <= s[w]
        /\ \A e \in Arcs(L) : t[e[2]] <= s[e[1]] + 1
    BY RelaxFacts
  <1>4. \A w \in L : t[w] \in Nat /\ D[w] <= t[w] /\ t[w] <= INF /\ s[w] \in Nat
    BY <1>3 DEF Bounds
  <1> HIDE DEF t
  <1>5. ASSUME NEW w \in L, D[w] <= m PROVE t[w] = D[w]
    <2>1. CASE D[w] <= r
      <3>1. s[w] = D[w] /\ t[w] <= s[w]
        BY <1>3, <2>1 DEF Near
      <3> QED
        BY <1>1, <1>4, <3>1
    <2>2. CASE ~(D[w] <= r) /\ D[w] # INF
      <3>1. D[w] = r + 1
        BY <1>1, <1>2, <1>5, <2>2
      <3>2. PICK u \in L : w \in Out(u) /\ D[u] = r
        BY <1>1, <1>2, <2>2, <3>1, FromFacts, DistancePredecessor DEF D
      <3>3. <<u, w>> \in Arcs(L)
        BY <3>2 DEF Arcs
      <3>4. s[u] = r
        BY <1>2, <3>2 DEF Near
      <3>5. t[w] <= r + 1
        BY <1>3, <3>3, <3>4
      <3> QED
        BY <1>1, <1>2, <1>4, <3>1, <3>5
    <2>3. CASE D[w] = INF
      BY <1>1, <1>4, <2>3
    <2> QED
      BY <2>1, <2>2, <2>3
  <1> QED
    BY <1>5 DEF Near, t

\* no distance is further than the number of vertices less one,
LEMMA NearExact ==
    ASSUME CallInv, alg \in BySource, ShortPaths, NEW s, Bounds(s),
           Near(s, g.n - 1)
    PROVE  Exact(s)
  <1>1. \A w \in L : D[w] \in Nat /\ (D[w] = INF \/ D[w] < g.n)
    BY FromFacts
  <1>2. g.n \in Nat /\ INF \in Nat
    BY FromFacts
  <1>3. s \in [L -> Nat] /\ \A w \in L : D[w] <= s[w] /\ s[w] <= INF
    BY DEF Bounds
  <1>4. ASSUME NEW w \in L PROVE s[w] = D[w]
    <2>1. CASE D[w] = INF
      <3>1. s[w] \in Nat /\ D[w] <= s[w] /\ s[w] <= INF
        BY <1>3
      <3> QED
        BY <1>2, <2>1, <3>1
    <2>2. CASE D[w] < g.n
      <3>1. D[w] <= g.n - 1
        BY <1>1, <1>2, <2>2
      <3> QED
        BY <3>1 DEF Near
    <2> QED
      BY <1>1, <2>1, <2>2
  <1> QED
    BY <1>3, <1>4 DEF Exact

\* and after a pass that changes nothing there is none to find.
LEMMA RelaxStable ==
    ASSUME CallInv, alg \in BySource, ShortPaths,
           NEW q \in Seq(L \X L), ToSet(q) = Arcs(L), NEW s, Bounds(s), Near(s, 0),
           Relax(s, q) = s
    PROVE  Exact(s)
  <1> DEFINE N == g.n - 1
             V == {k \in 0 .. N : Near(s, k)}
  <1>1. g.n \in Nat /\ N \in Nat
    BY FromFacts, GraphFacts
  <1>2. 0 \in V
    BY <1>1
  <1>3. ASSUME NEW k \in 1 .. N, k - 1 \in V PROVE k \in V
    <2> DEFINE j == k - 1
    <2>1. j \in 0 .. g.n - 1 /\ Near(s, j) /\ j + 1 = k /\ k \in 0 .. N
      BY <1>1, <1>3
    <2> HIDE DEF j
    <2>2. Near(s, j + 1)
      BY <2>1, RelaxNear
    <2> QED
      BY <2>1, <2>2
  <1>4. 0 .. N \subseteq V
    <2> HIDE DEF N, V
    <2> QED
      BY <1>1, <1>2, <1>3, Induction
  <1>5. N \in V
    <2>1. N \in 0 .. N
      BY <1>1
    <2> HIDE DEF N, V
    <2> QED
      BY <1>4, <2>1
  <1>6. Near(s, g.n - 1)
    BY <1>5
  <1> QED
    BY <1>6, NearExact

\* The distances stay, and no edge shortens one.
LEMMA RelaxExact ==
    ASSUME CallInv, alg \in BySource, ShortPaths,
           NEW q \in Seq(L \X L), ToSet(q) = Arcs(L), NEW s, Exact(s)
    PROVE  /\ Exact(Relax(s, q))
           /\ \A e \in Arcs(L) : ~Shorter(s, e)
  <1> DEFINE t == Relax(s, q)
  <1>1. /\ g \in Graphs /\ From \in L /\ g.n \in Nat /\ INF \in Nat
        /\ g.n <= num_vertices /\ num_vertices \in Nat
        /\ \A w \in L : D[w] \in Nat /\ D[w] <= INF
    BY FromFacts
  <1>2. s \in [L -> Nat] /\ \A w \in L : s[w] = D[w]
    BY DEF Exact
  <1>3. Bounds(s)
    <2>1. \A w \in L : D[w] <= D[w] /\ D[w] <= INF
      BY <1>1
    <2> QED
      BY <1>2, <2>1 DEF Bounds
  <1>4. Bounds(t) /\ \A w \in L : t[w] <= s[w]
    BY <1>3, RelaxFacts
  <1> HIDE DEF t
  <1>5. t \in [L -> Nat] /\ \A w \in L : t[w] = D[w]
    BY <1>1, <1>2, <1>4 DEF Bounds
  <1>6. ASSUME NEW e \in Arcs(L) PROVE ~Shorter(s, e)
    <2> DEFINE u == e[1]
               w == e[2]
    <2>1. u \in L /\ w \in L /\ w \in Out(u)
      BY DEF Arcs
    <2> HIDE DEF u, w
    <2>2. D[w] <= D[u] + 1
      <3>1. CASE D[u] = INF
        BY <1>1, <2>1, <3>1
      <3>2. CASE D[u] # INF
        BY <1>1, <2>1, <3>2, FromFacts, DistanceEdge DEF D
      <3> QED
        BY <3>1, <3>2
    <2>3. ~(s[u] + 1 < s[w])
      BY <1>1, <1>2, <2>1, <2>2
    <2> QED
      BY <2>3 DEF Shorter, u, w
  <1> QED
    BY <1>5, <1>6 DEF Exact, t

LEMMA RunBellmanFord ==
    ASSUME Run, alg \in BellmanFordForms
    PROVE  bellman_ford2 \/ bellman_ford_iterators
  <1>1. alg \in BySource
    BY DEF BellmanFordForms, BySource
  <1>2. ~test_bfs /\ ~test_bfs2 /\ ~test_bfs_iterators /\ ~dijkstra
    BY DEF BellmanFordForms, test_bfs, test_bfs2, test_bfs_iterators, dijkstra
  <1> QED
    BY <1>1, <1>2, RunOthers

\* What Bellman-Ford has done: a round brings the distances one edge further,
\* and the rounds end only when all are there.
BellmanFordInv ==
    alg \in BellmanFordForms =>
      /\ pc \in {"call", "loop", "check", "done"}
      /\ pc = "call" => round = 0
      /\ pc = "loop" => round \in 0 .. g.n - 2 /\ Bounds(val) /\ Near(val, round)
      /\ pc \in {"check", "done"} => round \in 0 .. g.n /\ Exact(val)
      /\ pc = "done" => result = Reached(val)

\* The call and the rounds, which all forms have in common.
LEMMA BellmanFordRound ==
    ASSUME CallInv, BellmanFordInv, alg \in BellmanFordForms, ShortPaths,
           NEW q \in Seq(L \X L), ToSet(q) = Arcs(L), BellmanFord(q)
    PROVE  \/ /\ pc' = "loop" /\ round' \in 0 .. g.n - 2
              /\ Bounds(val') /\ Near(val', round')
           \/ pc' = "check" /\ round' \in 0 .. g.n /\ Exact(val')
  <1>0. alg \in BySource
    BY DEF BellmanFordForms, BySource
  <1>1. /\ g \in Graphs /\ From \in L /\ num_vertices \in Nat /\ g.n \in Nat
        /\ g.n <= num_vertices /\ INF \in Nat /\ L \subseteq Capacity
        /\ \A w \in L : D[w] \in Nat /\ D[w] <= INF
    BY <1>0, FromFacts
  <1>2. g.n >= 1
    BY <1>1, GraphFacts
  <1>3. CASE /\ pc = "call" /\ pc' = IF g.n > 1 THEN "loop" ELSE "check"
             /\ val' = [v \in L |-> IF v = find_vertex(source) THEN 0 ELSE INF]
             /\ round' = round
    <2>1. round' = 0
      BY <1>3 DEF BellmanFordInv
    <2>2. \A w \in L : w = From <=> D[w] <= 0
      <3>1. Reach(From)[0] = {From} /\ 0 \in 0 .. num_vertices /\ From \in Capacity
        BY <1>1, ReachFacts
      <3>2. ASSUME NEW w \in L PROVE w = From <=> D[w] # INF /\ D[w] <= 0
        BY <1>1, <3>1, DistanceFacts DEF D
      <3>3. INF # 0
        BY <1>1, InfPositive
      <3> QED
        BY <1>1, <3>2, <3>3
    <2>3. val' = [v \in L |-> IF v = From THEN 0 ELSE INF]
      BY <1>3 DEF From
    <2>4. Bounds(val')
      BY <1>1, <2>2, <2>3 DEF Bounds
    <2>5. Near(val', 0)
      BY <1>1, <2>2, <2>3 DEF Near
    <2>6. CASE g.n > 1
      <3>1. 0 \in 0 .. g.n - 2 /\ pc' = "loop"
        BY <1>1, <1>3, <2>6
      <3> QED
        BY <2>1, <2>4, <2>5, <3>1
    <2>7. CASE ~(g.n > 1)
      <3>1. g.n - 1 = 0 /\ 0 \in 0 .. g.n /\ pc' = "check"
        BY <1>1, <1>2, <1>3, <2>7
      <3>2. Near(val', g.n - 1)
        BY <2>5, <3>1
      <3>3. Exact(val')
        BY <1>0, <2>4, <3>2, NearExact
      <3> QED
        BY <2>1, <3>1, <3>3
    <2> QED
      BY <2>6, <2>7
  <1>4. CASE /\ pc = "loop" /\ val' = Relax(val, q)
             /\ has_change' = (val' # val) /\ round' = round + 1
             /\ Goto(IF has_change' /\ round' < g.n - 1 THEN "loop" ELSE "check")
    <2> DEFINE r == round
               m == round'
    <2>1. r \in 0 .. g.n - 2 /\ Bounds(val) /\ Near(val, r)
      BY <1>4 DEF BellmanFordInv
    <2>2. /\ r \in 0 .. g.n - 1 /\ m = r + 1 /\ r \in Nat /\ m \in 0 .. g.n
          /\ m <= g.n - 1 /\ m \in Nat
      BY <1>1, <1>4, <2>1
    <2>3. Bounds(val')
      BY <1>0, <1>4, <2>1, RelaxFacts
    <2>4. Near(val', m)
      BY <1>0, <1>4, <2>1, <2>2, RelaxNear
    <2>5. CASE val' # val /\ m < g.n - 1
      <3>1. pc' = "loop"
        BY <1>4, <2>5 DEF Goto
      <3>2. m \in 0 .. g.n - 2
        BY <1>1, <2>2, <2>5
      <3> QED
        BY <2>3, <2>4, <3>1, <3>2
    <2>6. CASE ~(val' # val /\ m < g.n - 1)
      <3>1. pc' = "check"
        BY <1>4, <2>6 DEF Goto
      <3>2. Exact(val')
        <4>1. CASE val' = val
          <5>1. Near(val, 0)
            BY <1>1, <2>1, <2>2 DEF Near
          <5> QED
            BY <1>0, <1>4, <2>1, <4>1, <5>1, RelaxStable
        <4>2. CASE val' # val
          <5>1. m = g.n - 1
            BY <1>1, <2>2, <2>6, <4>2
          <5> QED
            BY <1>0, <2>3, <2>4, <5>1, NearExact
        <4> QED
          BY <4>1, <4>2
      <3> QED
        BY <2>2, <3>1, <3>2
    <2> QED
      BY <2>5, <2>6
  <1> QED
    BY <1>3, <1>4 DEF BellmanFord

LEMMA BellmanFordStep ==
    ASSUME CallInv, BellmanFordInv, ShortPaths, [Next]_vars
    PROVE  BellmanFordInv'
  <1> SUFFICES ASSUME (alg \in BellmanFordForms)' PROVE BellmanFordInv'
    BY DEF BellmanFordInv
  <1>1. UNCHANGED call
    BY DEF Next, Returned, vars
  <1>2. /\ alg' = alg /\ alg \in BellmanFordForms /\ alg \in BySource
        /\ L' = L /\ From' = From /\ D' = D /\ g' = g
    BY <1>1 DEF call, BellmanFordForms, BySource, L, From, find_vertex, D, Distance, Reach
  <1>3. CASE UNCHANGED vars
    BY <1>2, <1>3 DEF vars, BellmanFordInv, Bounds, Near, Exact, Reached, Total
  <1>4. ASSUME NEW q \in Seq(L \X L), ToSet(q) = Arcs(L), BellmanFord(q)
        PROVE  BellmanFordInv'
    <2>1. \/ /\ pc' = "loop" /\ round' \in 0 .. g.n - 2
             /\ Bounds(val') /\ Near(val', round')
          \/ pc' = "check" /\ round' \in 0 .. g.n /\ Exact(val')
      BY <1>2, <1>4, BellmanFordRound
    <2> QED
      BY <1>2, <2>1 DEF BellmanFordInv, Bounds, Near, Exact
  <1>5. g \in Graphs
    BY DEF CallInv
  <1>6. CASE bellman_ford2 \/ bellman_ford_iterators
    <2>1. CASE BellmanFord(Edges) \/ BellmanFord(ArrayEdges)
      BY <1>4, <1>5, <2>1, EdgesFacts
    <2>2. CASE /\ pc = "check" /\ UNCHANGED <<val, round>>
               /\ Return(IF has_change /\ \E e \in ToSet(ArrayEdges) : Shorter(val, e)
                         THEN -1 ELSE Reached(val))
      <3>1. Exact(val) /\ round \in 0 .. g.n
        BY <1>2, <2>2 DEF BellmanFordInv
      <3>2. \A e \in ToSet(ArrayEdges) : ~Shorter(val, e)
        BY <1>2, <1>5, <3>1, EdgesFacts, RelaxExact
      <3>3. pc' = "done" /\ result' = Reached(val)
        BY <2>2, <3>2 DEF Return
      <3> QED
        BY <1>2, <2>2, <3>1, <3>3 DEF BellmanFordInv, Exact, Reached, Total
    <2>3. CASE /\ pc = "check" /\ round' = round
               /\ val' = IF has_change THEN Relax(val, Edges) ELSE val
               /\ Return(Reached(val'))
      <3>1. Exact(val) /\ round \in 0 .. g.n
        BY <1>2, <2>3 DEF BellmanFordInv
      <3>2. Exact(val')
        BY <1>2, <1>5, <2>3, <3>1, EdgesFacts, RelaxExact
      <3>3. pc' = "done" /\ result' = Reached(val')
        BY <2>3 DEF Return
      <3> QED
        BY <1>2, <2>3, <3>1, <3>2, <3>3 DEF BellmanFordInv, Exact, Reached, Total
    <2> QED
      BY <1>6, <2>1, <2>2, <2>3 DEF bellman_ford2, bellman_ford_iterators
  <1>7. CASE Run
    BY <1>2, <1>6, <1>7, RunBellmanFord
  <1> QED
    BY <1>3, <1>7 DEF Next, Returned

-----------------------------------------------------------------------------
(* Dijkstra's algorithm finds the distances where the ids agree.           *)

Final(final) == {p \in Capacity : final[p] = 1}

\* What is final has its distance, and its neighbours are one further at most.
Settled(dist, final) ==
    /\ dist \in [Capacity -> Nat] /\ final \in [Capacity -> {0, 1}]
    /\ \A p \in Capacity : D[p] <= dist[p] /\ dist[p] <= INF
    /\ \A p \in Final(final) :
         /\ p \in L /\ D[p] # INF /\ dist[p] = D[p]
         /\ \A w \in Out(p) : dist[w] <= D[p] + 1
    /\ From \in Final(final)

LEMMA CapacityFacts ==
    ASSUME CallInv, alg \in BySource, ShortPaths
    PROVE  /\ \A p \in Capacity : D[p] \in Nat /\ D[p] <= INF
           /\ \A p \in Capacity : p \notin L => D[p] = INF
           /\ \A p \in Capacity : D[p] <= 0 <=> p = From
           /\ \A p \in L : Out(p) \subseteq L
           /\ \A p \in L : \A w \in Out(p) : D[p] # INF => D[w] <= D[p] + 1
  <1>1. /\ g \in Graphs /\ From \in L /\ num_vertices \in Nat /\ INF \in Nat
        /\ L \subseteq Capacity
    BY FromFacts
  <1>2. \A p \in Capacity : D[p] \in Nat /\ D[p] <= INF
    BY <1>1, DistanceFacts DEF D
  <1>3. ASSUME NEW p \in Capacity, p \notin L PROVE D[p] = INF
    <2>1. num_vertices \in 0 .. num_vertices
      BY <1>1
    <2>2. p \notin Reach(From)[num_vertices]
      BY <1>1, <1>3, <2>1, ReachFacts
    <2> QED
      BY <1>1, <2>2, DistanceFacts DEF D
  <1>4. \A p \in Capacity : D[p] <= 0 <=> p = From
    <2>1. Reach(From)[0] = {From} /\ 0 \in 0 .. num_vertices
      BY <1>1, ReachFacts
    <2> QED
      BY <1>1, <2>1, DistanceFacts DEF D
  <1>5. \A p \in L : Out(p) \subseteq L
    BY <1>1, GraphFacts
  <1>6. \A p \in L : \A w \in Out(p) : D[p] # INF => D[w] <= D[p] + 1
    BY <1>1, DistanceEdge DEF D
  <1> QED
    BY <1>2, <1>3, <1>4, <1>5, <1>6

\* If something that can be reached is not final, then so is something as near
\* that has its distance already.
LEMMA NearestOpen ==
    ASSUME CallInv, alg \in BySource, ShortPaths,
           NEW dist, NEW final, Settled(dist, final),
           NEW w \in Capacity, w \notin Final(final), D[w] # INF
    PROVE  \E x \in Capacity \ Final(final) :
             dist[x] = D[x] /\ D[x] <= D[w] /\ D[x] # INF
  <1> DEFINE Bad == {k \in Nat : \E x \in Capacity \ Final(final) : D[x] = k /\ k # INF}
  <1>1. /\ \A p \in Capacity : D[p] \in Nat /\ D[p] <= INF
        /\ \A p \in Capacity : p \notin L => D[p] = INF
        /\ \A p \in Capacity : D[p] <= 0 <=> p = From
    BY CapacityFacts
  <1>2. /\ g \in Graphs /\ From \in L /\ num_vertices \in Nat /\ INF \in Nat
        /\ L \subseteq Capacity /\ g.n \in Nat /\ g.n <= num_vertices
        /\ \A p \in L : D[p] = INF \/ D[p] < g.n
    BY FromFacts
  <1>3. D[w] \in Bad
    BY <1>1
  <1>4. Bad \subseteq Nat /\ Bad # {}
    BY <1>3
  <1>5. PICK k \in Bad : \A c \in Bad : k <= c
    <2> HIDE DEF Bad
    <2> QED
      BY <1>4, LeastNumber
  <1>6. PICK x \in Capacity \ Final(final) : D[x] = k /\ k # INF
    BY <1>5
  <1>7. x \in L /\ k \in Nat /\ k < g.n /\ k # 0 /\ k <= INF /\ k # INF
    <2>1. x \in L /\ k \in Nat /\ k < g.n /\ k <= INF /\ k # INF
      BY <1>1, <1>2, <1>6
    <2>2. x # From
      BY <1>6 DEF Settled
    <2> QED
      BY <1>1, <1>6, <2>1, <2>2
  <1> DEFINE j == k - 1
  <1>8. j \in 0 .. num_vertices - 1 /\ j + 1 = k /\ j < k /\ j \in Nat /\ j # INF
    BY <1>2, <1>7
  <1>9. j \notin Bad
    <2> HIDE DEF j
    <2> QED
      BY <1>5, <1>7, <1>8
  <1>10. PICK u \in L : x \in Out(u) /\ D[u] = j
    <2> HIDE DEF j, Bad
    <2>1. Distance(From)[x] = j + 1
      BY <1>6, <1>8 DEF D
    <2>2. \E u \in L : x \in Out(u) /\ Distance(From)[u] = j
      <3>1. From \in Capacity
        BY <1>2
      <3> QED
        BY <1>2, <1>7, <1>8, <2>1, <3>1, DistancePredecessor
    <2> QED
      BY <2>2 DEF D
  <1>11. u \in Final(final)
    BY <1>2, <1>8, <1>9, <1>10
  <1>12. dist[x] <= D[u] + 1 /\ dist[x] \in Nat /\ D[x] <= dist[x]
    BY <1>6, <1>10, <1>11 DEF Settled
  <1>13. dist[x] = D[x]
    <2> HIDE DEF j
    <2> QED
      BY <1>6, <1>7, <1>8, <1>10, <1>12
  <1>14. D[x] <= D[w]
    BY <1>3, <1>5, <1>6
  <1> QED
    BY <1>6, <1>13, <1>14

\* So that at the end, with no vertex open or one vertex left, all have it.
LEMMA SettledExact ==
    ASSUME CallInv, alg \in BySource, ShortPaths,
           NEW dist, NEW final, Settled(dist, final),
           \/ \A p \in Capacity \ Final(final) : ~(dist[p] < INF)
           \/ \A p, q \in Capacity \ Final(final) : p = q
    PROVE  \A p \in Capacity : dist[p] = D[p]
  <1> SUFFICES ASSUME NEW p \in Capacity PROVE dist[p] = D[p]
    OBVIOUS
  <1>1. dist[p] \in Nat /\ D[p] \in Nat /\ D[p] <= dist[p] /\ dist[p] <= INF /\ INF \in Nat
    BY CapacityFacts, FromFacts DEF Settled
  <1>2. CASE p \in Final(final)
    BY <1>2 DEF Settled
  <1>3. CASE D[p] = INF
    BY <1>1, <1>3
  <1>4. CASE p \notin Final(final) /\ D[p] # INF
    <2>1. PICK x \in Capacity \ Final(final) :
            dist[x] = D[x] /\ D[x] <= D[p] /\ D[x] # INF
      BY <1>4, NearestOpen
    <2>2. D[x] \in Nat /\ D[x] <= INF
      BY CapacityFacts
    <2>3. dist[x] < INF
      BY <1>1, <2>1, <2>2
    <2> QED
      BY <1>4, <2>1, <2>3
  <1> QED
    BY <1>2, <1>3, <1>4

\* The loop over the edges of next.
LEMMA RelaxFromFacts ==
    ASSUME CallInv, alg \in BySource, ShortPaths,
           NEW dist \in [Capacity -> Nat], NEW final \in [Capacity -> {0, 1}],
           NEW next \in Capacity, next \in Final(final),
           NEW q \in Seq(L),
           \A p \in Capacity : D[p] <= dist[p],
           \A v \in ToSet(q) : D[v] <= dist[next] + 1
    PROVE  LET t == RelaxFrom(dist, final, next, q)
           IN  /\ t \in [Capacity -> Nat]
               /\ \A p \in Capacity : D[p] <= t[p] /\ t[p] <= dist[p]
               /\ \A p \in Final(final) : t[p] = dist[p]
               /\ \A v \in ToSet(q) : v \notin Final(final) => t[v] <= dist[next] + 1
  <1> DEFINE N == Len(q)
             S == [Capacity -> Nat]
             do(t, v) == IF final[v] = 0 /\ t[next] + 1 < t[v]
                         THEN [t EXCEPT ![v] = t[next] + 1] ELSE t
             step == [i \in 1 .. N |-> [t \in S |-> do(t, q[i])]]
             Eqn(f) == f = [i \in 0 .. N |->
                              IF i = 0 THEN dist ELSE do(f[i - 1], q[i])]
             after == CHOOSE f : Eqn(f)
  <1>1. N \in Nat /\ \A i \in 1 .. N : q[i] \in L
    OBVIOUS
  <1>2. \A i \in 1 .. N : q[i] \in Capacity
    BY <1>1, FromFacts
  <1>0. dist \in S
    OBVIOUS
  <1>3. \A i \in 1 .. N : \A t \in S : do(t, q[i]) \in S
    BY <1>2
  <1>4. Steps(step, N, S)
    <2> HIDE DEF do
    <2> QED
      BY <1>3 DEF Steps
  <1>5. PICK h : Follows(h, step, dist, N, S)
    <2> HIDE DEF step, N, S
    <2> QED
      BY <1>0, <1>1, <1>4, Recursion
  <1>6. /\ h \in [0 .. N -> S] /\ h[0] = dist
        /\ \A i \in 1 .. N : h[i] = do(h[i - 1], q[i])
    <2>1. /\ h \in [0 .. N -> S] /\ h[0] = dist
          /\ \A i \in 1 .. N : h[i] = step[i][h[i - 1]]
      BY <1>5 DEF Follows
    <2>2. \A i \in 1 .. N : i - 1 \in 0 .. N
      BY <1>1
    <2> HIDE DEF S, do
    <2> QED
      BY <2>1, <2>2
  <1>7. Eqn(h)
    <2>1. ASSUME NEW i \in 0 .. N
          PROVE  h[i] = IF i = 0 THEN dist ELSE do(h[i - 1], q[i])
      <3>1. i # 0 => i \in 1 .. N
        BY <1>1
      <3> HIDE DEF do
      <3> QED
        BY <1>6, <3>1
    <2> HIDE DEF do
    <2> QED
      BY <1>6, <2>1
  <1>8. Eqn(after)
    <2> HIDE DEF Eqn
    <2> QED
      BY <1>7
  <1>9. RelaxFrom(dist, final, next, q) = after[N]
    BY DEF RelaxFrom, ForEach
  <1> HIDE DEF after
  <1>10. \A i \in 0 .. N : after[i] = IF i = 0 THEN dist ELSE do(after[i - 1], q[i])
    <2> HIDE DEF do
    <2> QED
      BY <1>8, Zenon
  <1>11. after[0] = dist /\ \A i \in 1 .. N : after[i] = do(after[i - 1], q[i])
    <2>1. 0 \in 0 .. N /\ \A i \in 1 .. N : i \in 0 .. N /\ i # 0
      BY <1>1
    <2> HIDE DEF do
    <2> QED
      BY <1>10, <2>1
  <1> DEFINE Good(i) == /\ after[i] \in [Capacity -> Nat]
                        /\ \A p \in Capacity : D[p] <= after[i][p] /\ after[i][p] <= dist[p]
                        /\ \A p \in Final(final) : after[i][p] = dist[p]
                        /\ \A j \in 1 .. i : q[j] \notin Final(final) =>
                             after[i][q[j]] <= dist[next] + 1
             V == {i \in 0 .. N : Good(i)}
  <1>12. 0 \in V
    <2>1. \A p \in Capacity : D[p] <= dist[p] /\ dist[p] <= dist[p]
      OBVIOUS
    <2> QED
      BY <1>1, <1>11, <2>1
  <1>13. ASSUME NEW i \in 1 .. N, i - 1 \in V PROVE i \in V
    <2> DEFINE t == after[i - 1]
               v == q[i]
               a == after[i]
               k == dist[next] + 1
    <2>1. /\ i \in 0 .. N /\ v \in Capacity
          /\ a = IF final[v] = 0 /\ t[next] + 1 < t[v]
                 THEN [t EXCEPT ![v] = t[next] + 1] ELSE t
      <3>1. i \in 0 .. N /\ v \in Capacity
        BY <1>1, <1>2
      <3>2. a = do(t, v)
        BY <1>11
      <3> QED
        BY <3>1, <3>2
    <2>2. /\ t \in [Capacity -> Nat]
          /\ \A p \in Capacity : D[p] <= t[p] /\ t[p] <= dist[p]
          /\ \A p \in Final(final) : t[p] = dist[p]
          /\ \A j \in 1 .. i - 1 : q[j] \notin Final(final) => t[q[j]] <= k
      BY <1>13
    <2>3. D[v] <= k /\ k \in Nat /\ t[next] + 1 = k
      <3>1. v \in ToSet(q)
        BY <1>1 DEF ToSet
      <3> QED
        BY <2>2, <3>1
    <2>4. v \notin Final(final) <=> final[v] = 0
      BY <2>1 DEF Final
    <2>5. a = IF v \notin Final(final) /\ k < t[v] THEN [t EXCEPT ![v] = k] ELSE t
      BY <2>1, <2>3, <2>4
    <2>6. \A p \in Capacity : D[p] \in Nat /\ dist[p] \in Nat
      BY CapacityFacts
    <2> HIDE DEF t, a, v, k
    <2>7. a \in [Capacity -> Nat]
      BY <2>1, <2>2, <2>3, <2>5
    <2>8. ASSUME NEW p \in Capacity
          PROVE  D[p] <= a[p] /\ a[p] <= t[p] /\ a[p] <= dist[p]
      <3>1. a[p] = t[p] \/ (p = v /\ a[p] = k /\ k < t[p])
        BY <2>2, <2>5
      <3> QED
        BY <2>2, <2>3, <2>6, <3>1
    <2>9. \A p \in Final(final) : a[p] = dist[p]
      <3>1. Final(final) \subseteq Capacity
        BY DEF Final
      <3> QED
        BY <2>2, <2>5, <3>1
    <2>10. ASSUME NEW j \in 1 .. i, q[j] \notin Final(final) PROVE a[q[j]] <= k
      <3>1. j \in 1 .. N
        BY <1>1
      <3>2. q[j] \in Capacity
        BY <1>2, <3>1
      <3>3. CASE j = i
        <4>1. v \notin Final(final) /\ t[v] \in Nat
          BY <2>1, <2>2, <2>10, <3>3 DEF v
        <4>2. a[v] <= k
          BY <2>1, <2>2, <2>3, <2>5, <4>1
        <4> QED
          BY <3>3, <4>2 DEF v
      <3>4. CASE j # i
        <4>1. j \in 1 .. i - 1
          BY <3>4
        <4> DEFINE y == q[j]
        <4>2. t[y] <= k /\ a[y] <= t[y] /\ t[y] \in Nat /\ a[y] \in Nat
          BY <2>2, <2>7, <2>8, <2>10, <3>2, <4>1
        <4> HIDE DEF y
        <4>3. a[y] <= k
          BY <2>3, <4>2
        <4> QED
          BY <4>3 DEF y
      <3> QED
        BY <3>3, <3>4
    <2>11. Good(i)
      BY <2>7, <2>8, <2>9, <2>10 DEF a, k
    <2> QED
      BY <2>1, <2>11
  <1>14. 0 .. N \subseteq V
    <2> HIDE DEF V, N
    <2> QED
      BY <1>1, <1>12, <1>13, Induction
  <1>15. Good(N)
    <2>1. N \in V
      <3> HIDE DEF V
      <3> QED
        BY <1>1, <1>14
    <2> QED
      BY <2>1
  <1>16. ASSUME NEW v \in ToSet(q), v \notin Final(final)
         PROVE  after[N][v] <= dist[next] + 1
    <2>1. PICK j \in 1 .. N : q[j] = v
      BY <1>1 DEF ToSet
    <2> QED
      BY <1>15, <1>16, <2>1
  <1> QED
    BY <1>9, <1>15, <1>16

\* The next vertex is the nearest open one, and has its distance.
LEMMA SettleNext ==
    ASSUME CallInv, alg \in BySource, ShortPaths,
           NEW dist, NEW final, Settled(dist, final),
           NEW next \in Capacity, next \notin Final(final), dist[next] < INF,
           \A p \in Capacity \ Final(final) : dist[next] <= dist[p],
           NEW q \in Seq(L), ToSet(q) = Out(next)
    PROVE  LET f == [final EXCEPT ![next] = 1]
           IN  /\ Settled(RelaxFrom(dist, f, next, q), f)
               /\ Final(f) = Final(final) \cup {next}
  <1> DEFINE f == [final EXCEPT ![next] = 1]
             t == RelaxFrom(dist, f, next, q)
  <1>1. /\ dist \in [Capacity -> Nat] /\ final \in [Capacity -> {0, 1}]
        /\ \A p \in Capacity : D[p] <= dist[p] /\ dist[p] <= INF
        /\ \A p \in Final(final) :
             /\ p \in L /\ D[p] # INF /\ dist[p] = D[p]
             /\ \A w \in Out(p) : dist[w] <= D[p] + 1
        /\ From \in Final(final)
    BY DEF Settled
  <1>2. /\ \A p \in Capacity : D[p] \in Nat /\ D[p] <= INF
        /\ \A p \in Capacity : p \notin L => D[p] = INF
        /\ \A p \in L : Out(p) \subseteq L
        /\ \A p \in L : \A w \in Out(p) : D[p] # INF => D[w] <= D[p] + 1
    BY CapacityFacts
  <1>3. L \subseteq Capacity /\ INF \in Nat
    BY FromFacts
  <1>4. f \in [Capacity -> {0, 1}] /\ Final(f) = Final(final) \cup {next}
    BY <1>1 DEF Final
  <1>5. dist[next] = D[next] /\ D[next] # INF
    <2>1. dist[next] \in Nat /\ D[next] \in Nat /\ D[next] <= dist[next]
      BY <1>1, <1>2
    <2>2. D[next] # INF
      BY <1>3, <2>1
    <2>3. PICK x \in Capacity \ Final(final) :
            dist[x] = D[x] /\ D[x] <= D[next] /\ D[x] # INF
      BY <2>2, NearestOpen
    <2>4. dist[next] <= dist[x] /\ D[x] \in Nat
      BY <1>2, <2>3
    <2> QED
      BY <2>1, <2>2, <2>3, <2>4
  <1>6. next \in L /\ \A w \in Out(next) : w \in L /\ D[w] <= D[next] + 1
    BY <1>2, <1>5
  <1> HIDE DEF f
  <1>7. /\ t \in [Capacity -> Nat]
        /\ \A p \in Capacity : D[p] <= t[p] /\ t[p] <= dist[p]
        /\ \A p \in Final(f) : t[p] = dist[p]
        /\ \A v \in Out(next) : v \notin Final(f) => t[v] <= dist[next] + 1
    <2>1. next \in Final(f)
      BY <1>4
    <2>2. \A v \in ToSet(q) : D[v] <= dist[next] + 1
      BY <1>5, <1>6
    <2>3. /\ t \in [Capacity -> Nat]
          /\ \A p \in Capacity : D[p] <= t[p] /\ t[p] <= dist[p]
          /\ \A p \in Final(f) : t[p] = dist[p]
          /\ \A v \in ToSet(q) : v \notin Final(f) => t[v] <= dist[next] + 1
      <3>1. dist \in [Capacity -> Nat] /\ \A p \in Capacity : D[p] <= dist[p]
        BY <1>1
      <3> QED
        BY <1>4, <2>1, <2>2, <3>1, RelaxFromFacts
    <2> QED
      BY <2>3
  <1> HIDE DEF t
  <1>8. \A p \in Capacity : D[p] <= t[p] /\ t[p] <= INF
    BY <1>1, <1>2, <1>3, <1>7
  <1>9. ASSUME NEW p \in Final(f)
        PROVE  /\ p \in L /\ D[p] # INF /\ t[p] = D[p]
               /\ \A w \in Out(p) : t[w] <= D[p] + 1
    <2>1. p \in L /\ D[p] # INF /\ dist[p] = D[p]
      BY <1>1, <1>4, <1>5, <1>6
    <2>2. t[p] = D[p]
      BY <1>7, <2>1
    <2>3. ASSUME NEW w \in Out(p) PROVE t[w] <= D[p] + 1
      <3>1. w \in L /\ w \in Capacity /\ D[w] <= D[p] + 1
        BY <1>2, <1>3, <2>1
      <3>2. t[w] \in Nat /\ t[w] <= dist[w] /\ dist[w] \in Nat /\ D[p] \in Nat
        BY <1>1, <1>2, <1>3, <1>7, <2>1, <3>1
      <3>3. CASE p \in Final(final)
        <4>1. dist[w] <= D[p] + 1
          BY <1>1, <3>3
        <4> QED
          BY <3>2, <4>1
      <3>4. CASE p = next /\ w \in Final(f)
        <4>1. dist[w] = D[w]
          BY <1>1, <1>4, <1>5, <3>4
        <4> QED
          BY <1>7, <3>1, <3>4, <4>1
      <3>5. CASE p = next /\ w \notin Final(f)
        BY <1>5, <1>7, <3>5
      <3> QED
        BY <1>4, <3>3, <3>4, <3>5
    <2> QED
      BY <2>1, <2>2, <2>3
  <1>10. From \in Final(f)
    BY <1>1, <1>4
  <1>11. Settled(t, f)
    BY <1>4, <1>7, <1>8, <1>9, <1>10 DEF Settled
  <1> QED
    BY <1>4, <1>11 DEF f, t

\* Where the ids agree, the lists by physical id are the lists by logical id.
LEMMA ListsAgree ==
    ASSUME g \in Graphs, PhysicalIsLogical, NEW p \in L
    PROVE  get_adj_edges(p) = g.adj[p]
  <1>1. L \subseteq Capacity
    BY GraphFacts
  <1>2. DOMAIN g.phys = L
    BY <1>1, GraphsAssumption DEF L
  <1>3. \A v \in L : g.phys[v] = v
    BY DEF PhysicalIsLogical
  <1>4. p \in Range(g.phys)
    BY <1>2, <1>3 DEF Range
  <1>5. find_vertex(p) = p
    BY <1>3, <1>4, FindVertex
  <1> QED
    BY <1>1, <1>5 DEF get_adj_edges, Adj

\* Then dijkstra starts at its vertex and reads its list.
LEMMA IdsAgree ==
    ASSUME CallInv, alg \in BySource, ShortPaths, PhysicalIsLogical,
           NEW p \in L
    PROVE  From = source /\ get_adj_edges(p) = g.adj[p] /\ g.adj[p] \in Seq(L)
  <1>1. g \in Graphs
    BY FromFacts
  <1>2. \A v \in L : g.phys[v] = v
    BY DEF PhysicalIsLogical
  <1>3. From = source
    BY <1>1, <1>2, FindVertex DEF CallInv, From
  <1> QED
    BY <1>1, <1>3, ListsAgree, GraphFacts

\* With as many rounds as there are vertices, less two, one is left at most.
LEMMA LastOpen ==
    ASSUME num_vertices \in Nat, NEW F \in SUBSET Capacity,
           Cardinality(F) >= num_vertices - 1
    PROVE  \A p, q \in Capacity \ F : p = q
  <1> SUFFICES ASSUME NEW p \in Capacity \ F, NEW q \in Capacity \ F, p # q
               PROVE  FALSE
    OBVIOUS
  <1>1. IsFiniteSet(Capacity) /\ Cardinality(Capacity) = num_vertices
    <2>1. Capacity = 0 .. num_vertices - 1
      BY DEF Capacity
    <2>2. IsFiniteSet(0 .. num_vertices - 1)
      BY FS_Interval
    <2>3. Cardinality(0 .. num_vertices - 1) = num_vertices
      BY FS_Interval
    <2> QED
      BY <2>1, <2>2, <2>3
  <1>2. IsFiniteSet(F) /\ Cardinality(F) \in Nat
    BY <1>1, FS_Subset, FS_CardinalityType
  <1> DEFINE G == F \cup {p}
             H == G \cup {q}
  <1>3. IsFiniteSet(G) /\ Cardinality(G) = Cardinality(F) + 1
    BY <1>2, FS_AddElement
  <1>4. IsFiniteSet(H) /\ Cardinality(H) = Cardinality(G) + 1
    <2>1. q \notin G
      OBVIOUS
    <2> HIDE DEF G
    <2> QED
      BY <1>3, <2>1, FS_AddElement
  <1>5. H \subseteq Capacity
    OBVIOUS
  <1> HIDE DEF G, H
  <1>6. Cardinality(H) <= num_vertices
    BY <1>1, <1>5, FS_Subset
  <1> QED
    BY <1>2, <1>3, <1>4, <1>6

LEMMA RunDijkstra ==
    ASSUME Run, alg = "dijkstra"
    PROVE  dijkstra
  <1>1. alg \in BySource
    BY DEF BySource
  <1>2. /\ ~test_bfs /\ ~test_bfs2 /\ ~test_bfs_iterators
        /\ ~bellman_ford2 /\ ~bellman_ford_iterators
    BY DEF test_bfs, test_bfs2, test_bfs_iterators, bellman_ford2, bellman_ford_iterators
  <1> QED
    BY <1>1, <1>2, RunOthers

\* What Dijkstra's algorithm has done: each round makes one more vertex final.
DijkstraInv ==
    alg = "dijkstra" /\ PhysicalIsLogical =>
      /\ pc \in {"call", "loop", "done"}
      /\ pc = "call" => round = 0
      /\ pc = "loop" =>
           /\ round \in Nat /\ Settled(val, aux)
           /\ IsFiniteSet(Final(aux)) /\ Cardinality(Final(aux)) = round + 1
      /\ pc = "done" =>
           /\ \A p \in Capacity : val[p] = D[p]
           /\ result = Total(val, {p \in Capacity : val[p] # INF})

LEMMA DijkstraBegin ==
    ASSUME CallInv, alg = "dijkstra", PhysicalIsLogical, ShortPaths,
           val' = [p \in Capacity |->
                     CASE p = source -> 0
                       [] p # source /\ p \in ToSet(get_adj_edges(source)) -> 1
                       [] OTHER -> INF],
           aux' = [p \in Capacity |-> IF p = source THEN 1 ELSE 0]
    PROVE  /\ Settled(val', aux')
           /\ IsFiniteSet(Final(aux')) /\ Cardinality(Final(aux')) = 1
  <1>0. alg \in BySource
    BY DEF BySource
  <1>1. /\ g \in Graphs /\ From \in L /\ L \subseteq Capacity
        /\ num_vertices \in Nat /\ INF \in Nat /\ 1 <= INF
    <2>1. /\ g \in Graphs /\ From \in L /\ L \subseteq Capacity
          /\ num_vertices \in Nat /\ INF \in Nat
      BY <1>0, FromFacts
    <2> QED
      BY <2>1, InfPositive
  <1>2. /\ From = source /\ ToSet(get_adj_edges(source)) = Out(From)
    BY <1>0, <1>1, IdsAgree DEF Out
  <1>3. /\ \A p \in Capacity : D[p] \in Nat /\ D[p] <= INF
        /\ \A p \in Capacity : D[p] <= 0 <=> p = From
        /\ \A p \in L : \A w \in Out(p) : D[p] # INF => D[w] <= D[p] + 1
        /\ \A p \in L : Out(p) \subseteq L
    BY <1>0, CapacityFacts
  <1>4. D[From] = 0 /\ D[From] # INF
    BY <1>1, <1>3
  <1>5. \A p \in Capacity :
          /\ p = From => val'[p] = 0
          /\ p # From /\ p \in Out(From) => val'[p] = 1
          /\ p # From /\ p \notin Out(From) => val'[p] = INF
    BY <1>2
  <1>6. val' \in [Capacity -> Nat]
    BY <1>1
  <1>7. aux' \in [Capacity -> {0, 1}] /\ Final(aux') = {From}
    BY <1>1, <1>2 DEF Final
  <1>8. ASSUME NEW p \in Capacity PROVE D[p] <= val'[p] /\ val'[p] <= INF
    <2>1. CASE p = From
      BY <1>1, <1>3, <1>4, <1>5, <2>1
    <2>2. CASE p # From /\ p \in Out(From)
      BY <1>1, <1>3, <1>4, <1>5, <2>2
    <2>3. CASE p # From /\ p \notin Out(From)
      BY <1>1, <1>3, <1>5, <2>3
    <2> QED
      BY <2>1, <2>2, <2>3
  <1>9. ASSUME NEW w \in Out(From) PROVE val'[w] <= D[From] + 1
    <2>1. w \in Capacity
      BY <1>1, <1>3
    <2>2. val'[w] = 0 \/ val'[w] = 1
      BY <1>5, <2>1
    <2> QED
      BY <1>4, <2>2
  <1>10. val'[From] = D[From]
    BY <1>1, <1>4, <1>5
  <1>11. Settled(val', aux')
    BY <1>1, <1>4, <1>6, <1>7, <1>8, <1>9, <1>10 DEF Settled
  <1> QED
    BY <1>7, <1>11, FS_Singleton

LEMMA DijkstraLoop ==
    ASSUME CallInv, DijkstraInv, alg = "dijkstra", PhysicalIsLogical, ShortPaths,
           dijkstra, pc = "loop"
    PROVE  \/ /\ pc' = "loop" /\ round' = round + 1 /\ Settled(val', aux')
              /\ IsFiniteSet(Final(aux')) /\ Cardinality(Final(aux')) = round + 2
           \/ /\ pc' = "done" /\ val' = val
              /\ \A p \in Capacity : val[p] = D[p]
              /\ result' = Total(val, {p \in Capacity : val[p] # INF})
  <1> DEFINE open == {p \in Capacity : aux[p] = 0 /\ val[p] < INF}
             near == {p \in open : \A q \in open : val[p] <= val[q]}
             next == CHOOSE p \in near : \A q \in near : p <= q
  <1>0. alg \in BySource
    BY DEF BySource
  <1>1. L \subseteq Capacity /\ num_vertices \in Nat /\ INF \in Nat /\ Capacity \subseteq Nat
    BY <1>0, FromFacts DEF Capacity
  <1>2. /\ round \in Nat /\ Settled(val, aux)
        /\ IsFiniteSet(Final(aux)) /\ Cardinality(Final(aux)) = round + 1
    BY DEF DijkstraInv
  <1>3. /\ val \in [Capacity -> Nat] /\ aux \in [Capacity -> {0, 1}]
        /\ \A p \in Capacity : D[p] <= val[p] /\ val[p] <= INF
    BY <1>2 DEF Settled
  <1>4. \A p \in Capacity : p \notin Final(aux) <=> aux[p] = 0
    BY <1>3 DEF Final
  <1>5. IF round + 1 <= num_vertices - 2 /\ open # {}
        THEN /\ aux' = [aux EXCEPT ![next] = 1]
             /\ val' = RelaxFrom(val, aux', next, get_adj_edges(next))
             /\ round' = round + 1 /\ Goto("loop")
        ELSE /\ Return(Total(val, {p \in Capacity : val[p] # INF}))
             /\ UNCHANGED <<val, aux, round>>
    BY DEF dijkstra, Begin
  <1>6. CASE round + 1 <= num_vertices - 2 /\ open # {}
    <2>1. near # {}
      <3> DEFINE W == {val[p] : p \in open}
      <3>1. W \subseteq Nat /\ W # {}
        BY <1>3, <1>6
      <3>2. PICK d \in W : \A c \in W : d <= c
        <4> HIDE DEF W
        <4> QED
          BY <3>1, LeastNumber
      <3>3. PICK p \in open : val[p] = d
        BY <3>2
      <3>4. \A q \in open : val[p] <= val[q]
        BY <3>2, <3>3
      <3> QED
        BY <3>3, <3>4
    <2>2. near \subseteq Nat
      BY <1>1
    <2>3. \E p \in near : \A q \in near : p <= q
      <3> HIDE DEF near
      <3> QED
        BY <2>1, <2>2, LeastNumber
    <2>4. next \in near
      <3> HIDE DEF near
      <3> QED
        BY <2>3
    <2> HIDE DEF next
    <2>5. /\ next \in Capacity /\ next \notin Final(aux) /\ val[next] < INF
          /\ \A p \in Capacity \ Final(aux) : val[next] <= val[p]
      <3>1. next \in open /\ \A q \in open : val[next] <= val[q]
        BY <2>4
      <3>2. next \in Capacity /\ next \notin Final(aux) /\ val[next] < INF
        BY <1>4, <3>1
      <3>3. ASSUME NEW p \in Capacity \ Final(aux) PROVE val[next] <= val[p]
        <4>1. CASE val[p] < INF
          BY <1>4, <3>1, <4>1
        <4>2. CASE ~(val[p] < INF)
          <5>1. val[p] \in Nat /\ val[next] \in Nat
            BY <1>3, <3>2
          <5> QED
            BY <1>1, <3>2, <4>2, <5>1
        <4> QED
          BY <4>1, <4>2
      <3> QED
        BY <3>2, <3>3
    <2>6. next \in L
      <3>1. D[next] \in Nat /\ D[next] <= val[next] /\ val[next] \in Nat
        BY <1>0, <1>3, <2>5, CapacityFacts
      <3>2. D[next] # INF
        BY <1>1, <2>5, <3>1
      <3> QED
        BY <1>0, <2>5, <3>2, CapacityFacts
    <2> DEFINE q == get_adj_edges(next)
    <2>7. q \in Seq(L) /\ ToSet(q) = Out(next)
      BY <1>0, <2>6, IdsAgree DEF Out
    <2> HIDE DEF q
    <2> DEFINE f == [aux EXCEPT ![next] = 1]
    <2>8. Settled(RelaxFrom(val, f, next, q), f) /\ Final(f) = Final(aux) \cup {next}
      BY <1>0, <1>2, <2>5, <2>7, SettleNext, ZenonT(60)
    <2>9. aux' = f /\ val' = RelaxFrom(val, f, next, q) /\ round' = round + 1 /\ pc' = "loop"
      <3>1. /\ aux' = [aux EXCEPT ![next] = 1]
            /\ val' = RelaxFrom(val, aux', next, get_adj_edges(next))
            /\ round' = round + 1 /\ Goto("loop")
        BY <1>5, <1>6 DEF next
      <3> QED
        BY <3>1 DEF q, Goto
    <2> HIDE DEF f
    <2>10. Settled(val', aux') /\ Final(aux') = Final(aux) \cup {next}
      BY <2>8, <2>9
    <2>11. /\ IsFiniteSet(Final(aux'))
           /\ Cardinality(Final(aux')) = Cardinality(Final(aux)) + 1
      BY <1>2, <2>5, <2>10, FS_AddElement
    <2> QED
      BY <1>2, <2>9, <2>10, <2>11
  <1>7. CASE ~(round + 1 <= num_vertices - 2 /\ open # {})
    <2>1. \/ \A p \in Capacity \ Final(aux) : ~(val[p] < INF)
          \/ \A p, q \in Capacity \ Final(aux) : p = q
      <3>1. CASE open = {}
        BY <1>4, <3>1
      <3>2. CASE ~(round + 1 <= num_vertices - 2)
        <4>1. Cardinality(Final(aux)) >= num_vertices - 1
          BY <1>1, <1>2, <3>2
        <4>2. Final(aux) \in SUBSET Capacity
          BY DEF Final
        <4> QED
          BY <1>1, <4>1, <4>2, LastOpen
      <3> QED
        BY <1>7, <3>1, <3>2
    <2>2. \A p \in Capacity : val[p] = D[p]
      BY <1>0, <1>2, <2>1, SettledExact
    <2>3. /\ pc' = "done" /\ val' = val
          /\ result' = Total(val, {p \in Capacity : val[p] # INF})
      BY <1>5, <1>7 DEF Return
    <2> QED
      BY <2>2, <2>3
  <1> QED
    BY <1>6, <1>7

LEMMA DijkstraStep ==
    ASSUME CallInv, DijkstraInv, ShortPaths, [Next]_vars
    PROVE  DijkstraInv'
  <1> SUFFICES ASSUME (alg = "dijkstra" /\ PhysicalIsLogical)' PROVE DijkstraInv'
    BY DEF DijkstraInv
  <1>1. UNCHANGED call
    BY DEF Next, Returned, vars
  <1>2. /\ alg' = alg /\ alg = "dijkstra" /\ PhysicalIsLogical
        /\ L' = L /\ From' = From /\ D' = D /\ g' = g
    BY <1>1 DEF call, PhysicalIsLogical, L, From, find_vertex, D, Distance, Reach
  <1>3. CASE UNCHANGED vars
    BY <1>2, <1>3 DEF vars, DijkstraInv, Settled, Final, Total, Out
  <1>4. CASE Run
    <2>1. dijkstra
      BY <1>2, <1>4, RunDijkstra
    <2>2. CASE pc = "loop"
      <3>1. \/ /\ pc' = "loop" /\ round' = round + 1 /\ Settled(val', aux')
               /\ IsFiniteSet(Final(aux')) /\ Cardinality(Final(aux')) = round + 2
            \/ /\ pc' = "done" /\ val' = val
               /\ \A p \in Capacity : val[p] = D[p]
               /\ result' = Total(val, {p \in Capacity : val[p] # INF})
        BY <1>2, <2>1, <2>2, DijkstraLoop
      <3>2. CASE pc' = "loop"
        <4>1. round \in Nat
          BY <1>2, <2>2 DEF DijkstraInv
        <4>2. /\ round' \in Nat /\ Settled(val', aux')
              /\ IsFiniteSet(Final(aux')) /\ Cardinality(Final(aux')) = round' + 1
          BY <3>1, <3>2, <4>1
        <4>3. /\ Settled(val, aux)' /\ IsFiniteSet(Final(aux))'
              /\ (Cardinality(Final(aux)) = round + 1)'
          <5>1. Settled(val, aux)' /\ IsFiniteSet(Final(aux))'
            BY <1>2, <4>2 DEF Settled, Final, Out
          <5>2. Final(aux)' = Final(aux')
            BY DEF Final
          <5> QED
            BY <4>2, <5>1, <5>2
        <4> QED
          BY <3>2, <4>2, <4>3 DEF DijkstraInv
      <3>3. CASE pc' = "done"
        BY <1>2, <3>1, <3>3 DEF DijkstraInv, Total
      <3> QED
        BY <3>1, <3>2, <3>3
    <2>3. CASE pc # "loop"
      <3>1. /\ pc = "call" /\ pc' = "loop" /\ round' = 0
            /\ val' = [p \in Capacity |->
                         CASE p = source -> 0
                           [] p # source /\ p \in ToSet(get_adj_edges(source)) -> 1
                           [] OTHER -> INF]
            /\ aux' = [p \in Capacity |-> IF p = source THEN 1 ELSE 0]
        BY <2>1, <2>3 DEF dijkstra, Begin
      <3>2. /\ Settled(val', aux')
            /\ IsFiniteSet(Final(aux')) /\ Cardinality(Final(aux')) = 1
        BY <1>2, <3>1, DijkstraBegin
      <3>3. /\ Settled(val, aux)' /\ IsFiniteSet(Final(aux))'
            /\ (Cardinality(Final(aux)) = round + 1)'
        <4>1. Settled(val, aux)' /\ IsFiniteSet(Final(aux))'
          BY <1>2, <3>2 DEF Settled, Final, Out
        <4>2. Final(aux)' = Final(aux')
          BY DEF Final
        <4>3. Cardinality(Final(aux))' = 1 /\ round' = 0
          BY <3>1, <3>2, <4>2
        <4> QED
          BY <4>1, <4>3
      <3> QED
        BY <3>1, <3>3 DEF DijkstraInv
    <2> QED
      BY <2>2, <2>3
  <1> QED
    BY <1>3, <1>4 DEF Next, Returned

-----------------------------------------------------------------------------
(* The theorems about searches.                                            *)

SearchInv == CallInv /\ BfsInv /\ BellmanFordInv /\ DijkstraInv

LEMMA PathsStay ==
    ASSUME [Next]_vars
    PROVE  ShortPaths' <=> ShortPaths
  <1>1. g' = g
    BY DEF Next, Returned, vars, call
  <1> QED
    BY <1>1 DEF ShortPaths, Component, Reach, L

\* Of every search from a source, on every graph whose paths are shorter than
\* INF: what each round has found.
\* Breadth first search has the vertices of its first levels and no others
\* (bfs.h:21-36), Bellman-Ford what is that many edges away and nothing too near
\* (bellman_ford.h:35-62), Dijkstra's algorithm what is final (dijkstra.h:34-71).
THEOREM SearchInvariant == Spec => [](ShortPaths => SearchInv)
  <1>1. Init => BfsInv /\ BellmanFordInv /\ DijkstraInv
    BY DEF Init, BfsInv, BellmanFordInv, DijkstraInv
  <1>2. CallInv /\ ShortPaths /\ BfsInv /\ [Next]_vars => BfsInv'
    BY BfsStep
  <1>3. CallInv /\ ShortPaths /\ BellmanFordInv /\ [Next]_vars => BellmanFordInv'
    BY BellmanFordStep
  <1>4. CallInv /\ ShortPaths /\ DijkstraInv /\ [Next]_vars => DijkstraInv'
    BY DijkstraStep
  <1>5. [Next]_vars => (ShortPaths' <=> ShortPaths)
    BY PathsStay
  <1> QED
    BY <1>1, <1>2, <1>3, <1>4, <1>5, CallInvariant, PTL DEF Spec, SearchInv

\* What the sum over the vertices found is.
LEMMA SumFound ==
    ASSUME CallInv, alg \in BySource, ShortPaths,
           NEW S, NEW f, S \cap Capacity = {v \in Capacity : D[v] # INF},
           \A v \in S \cap Capacity : f[v] = D[v]
    PROVE  Total(f, S) = Total(D, {v \in Capacity : D[v] # INF})
  <1> DEFINE T == {v \in Capacity : D[v] # INF}
  <1>1. \A v \in Capacity : D[v] \in Nat
    BY CapacityFacts
  <1>2. S \cap Capacity = T \cap Capacity /\ \A v \in S \cap Capacity : f[v] \in Nat
    BY <1>1
  <1>3. num_vertices \in Nat
    BY FromFacts
  <1> HIDE DEF T
  <1>4. Total(f, S) = Total(D, T)
    BY <1>2, <1>3, TotalSame
  <1> QED
    BY <1>4 DEF T

LEMMA SearchDone ==
    ASSUME SearchInv, alg \in BySource, ShortPaths, pc = "done",
           alg = "dijkstra" => PhysicalIsLogical
    PROVE  /\ result = Total(D, {v \in Capacity : D[v] # INF})
           /\ \A v \in L : val[v] = IF D[v] = INF /\ alg \in BfsForms THEN -1 ELSE D[v]
  <1> USE DEF SearchInv
  <1>1. /\ L \subseteq Capacity /\ INF \in Nat
        /\ \A v \in Capacity : D[v] \in Nat
        /\ \A v \in Capacity : v \notin L => D[v] = INF
    BY FromFacts, CapacityFacts
  <1>2. CASE alg \in BfsForms
    <2>1. /\ \A w \in L : val[w] = IF D[w] = INF THEN -1 ELSE D[w]
          /\ result = Total(val, {v \in L : val[v] # -1})
      BY <1>2 DEF BfsInv
    <2> DEFINE S == {v \in L : val[v] # -1}
    <2>2. S \cap Capacity = {v \in Capacity : D[v] # INF}
      <3>1. \A v \in L : val[v] # -1 <=> D[v] # INF
        BY <1>1, <2>1
      <3> QED
        BY <1>1, <3>1
    <2>3. \A v \in S \cap Capacity : val[v] = D[v]
      BY <2>1
    <2> HIDE DEF S
    <2>4. Total(val, S) = Total(D, {v \in Capacity : D[v] # INF})
      BY <2>2, <2>3, SumFound
    <2> QED
      BY <1>2, <2>1, <2>4 DEF S
  <1>3. CASE alg \in BellmanFordForms
    <2>1. alg \notin BfsForms
      BY <1>3 DEF BfsForms, BellmanFordForms
    <2>2. /\ \A w \in L : val[w] = D[w]
          /\ result = Total(val, {v \in L : val[v] # INF})
      BY <1>3 DEF BellmanFordInv, Exact, Reached
    <2> DEFINE S == {v \in L : val[v] # INF}
    <2>3. S \cap Capacity = {v \in Capacity : D[v] # INF}
      BY <1>1, <2>2
    <2>4. \A v \in S \cap Capacity : val[v] = D[v]
      BY <2>2
    <2> HIDE DEF S
    <2>5. Total(val, S) = Total(D, {v \in Capacity : D[v] # INF})
      BY <2>3, <2>4, SumFound
    <2> QED
      BY <2>1, <2>2, <2>5 DEF S
  <1>4. CASE alg = "dijkstra"
    <2>1. alg \notin BfsForms
      BY <1>4 DEF BfsForms
    <2>2. /\ \A p \in Capacity : val[p] = D[p]
          /\ result = Total(val, {p \in Capacity : val[p] # INF})
      BY <1>4 DEF DijkstraInv
    <2> DEFINE S == {p \in Capacity : val[p] # INF}
    <2>3. S \cap Capacity = {v \in Capacity : D[v] # INF}
      BY <2>2
    <2>4. \A v \in S \cap Capacity : val[v] = D[v]
      BY <2>2
    <2> HIDE DEF S
    <2>5. Total(val, S) = Total(D, {v \in Capacity : D[v] # INF})
      BY <2>3, <2>4, SumFound
    <2> QED
      BY <1>1, <2>1, <2>2, <2>5 DEF S
  <1>5. alg \in BfsForms \/ alg \in BellmanFordForms \/ alg = "dijkstra"
    BY DEF BySource, BfsForms, BellmanFordForms
  <1> QED
    BY <1>2, <1>3, <1>4, <1>5

\* On every graph, every form of breadth first search, of Bellman-Ford and, where
\* physical and logical ids agree, Dijkstra's algorithm return the sum of the
\* distances from their source and leave each vertex its distance
\* (bfs.h:6-190, bellman_ford.h:11-240, dijkstra.h:10-86).
LEMMA SearchesExact == Spec => [](ShortPaths => (alg \notin EdgeMaps => DistancesExact))
  <1>1. SearchInv /\ ShortPaths => (alg \notin EdgeMaps => DistancesExact)
    <2> SUFFICES ASSUME SearchInv, ShortPaths, alg \notin EdgeMaps, Ended(Searches),
                        alg = "dijkstra" => PhysicalIsLogical
                 PROVE  /\ result = Total(D, {v \in Capacity : D[v] # INF})
                        /\ \A v \in L : val[v] =
                             IF D[v] = INF /\ alg \in BfsForms THEN -1 ELSE D[v]
      BY DEF DistancesExact, D, From, BfsForms
    <2>1. pc = "done" /\ alg \in BySource
      BY DEF Ended, Searches
    <2> QED
      BY <2>1, SearchDone
  <1> QED
    BY <1>1, SearchInvariant, PTL

\* What has no outer loop over rounds counts none.
QuietInv == alg \notin BySource \union EdgeMaps \union Ranking => round = 0

LEMMA QuietStep ==
    ASSUME QuietInv, [Next]_vars
    PROVE  QuietInv'
  <1> SUFFICES ASSUME alg \notin BySource \union EdgeMaps \union Ranking
               PROVE  round' = 0
    <2>1. alg' = alg
      BY DEF Next, Returned, vars, call
    <2> QED
      BY <2>1 DEF QuietInv, BySource, EdgeMaps, Ranking
  <1>1. round = 0
    BY DEF QuietInv
  <1>2. CASE UNCHANGED vars
    BY <1>1, <1>2 DEF vars
  <1>3. ASSUME NEW q, Components(q) PROVE round' = 0
    BY <1>1, <1>3 DEF Components, Begin
  <1>4. CASE test_cc2 \/ test_cc_iterators
    BY <1>3, <1>4 DEF test_cc2, test_cc_iterators
  <1>5. CASE test_one_hop \/ test_two_hop \/ test_two_hop_l \/ avg_degree
    BY <1>1, <1>5 DEF test_one_hop, test_two_hop, test_two_hop_l, avg_degree, Count
  <1>6. CASE Run
    <2>1. /\ ~test_bfs /\ ~test_bfs2 /\ ~test_bfs_iterators
          /\ ~bellman_ford2 /\ ~bellman_ford_iterators /\ ~dijkstra
      BY DEF BySource, test_bfs, test_bfs2, test_bfs_iterators, bellman_ford2,
             bellman_ford_iterators, dijkstra
    <2>2. ~page_rank2 /\ ~page_rank_iterators
      BY DEF Ranking, page_rank2, page_rank_iterators
    <2>3. ~BFS_with_edge_map /\ ~CC_T /\ ~SSSP_BF
      BY DEF EdgeMaps, BFS_with_edge_map, CC_T, SSSP_BF
    <2> QED
      BY <1>4, <1>5, <1>6, <2>1, <2>2, <2>3 DEF Run
  <1> QED
    BY <1>2, <1>6 DEF Next, Returned

\* On every graph no search goes round more often than there are vertices: a
\* pass that finds something reaches a level no pass reached before
\* (bfs.h:21-36, bellman_ford.h:35-62).
LEMMA SearchesBounded == Spec => [](ShortPaths => (alg \notin EdgeMaps => RoundsBounded))
  <1>1. Init => QuietInv
    BY DEF Init, QuietInv
  <1>2. QuietInv /\ [Next]_vars => QuietInv'
    BY QuietStep
  <1>3. Spec => []QuietInv
    BY <1>1, <1>2, PTL DEF Spec
  <1>4. SearchInv /\ QuietInv => (alg \notin EdgeMaps => RoundsBounded)
    <2> SUFFICES ASSUME SearchInv, QuietInv, alg \notin EdgeMaps,
                        alg \notin Ranking \union {"dijkstra"}
                 PROVE  round <= g.n
      BY DEF RoundsBounded
    <2>1. g.n \in Nat /\ 1 <= g.n
      BY GraphFacts DEF SearchInv, CallInv
    <2>2. CASE alg \in BfsForms
      BY <2>1, <2>2 DEF SearchInv, BfsInv
    <2>3. CASE alg \in BellmanFordForms
      BY <2>1, <2>3 DEF SearchInv, BellmanFordInv
    <2>4. CASE alg \notin BySource
      BY <2>1, <2>4 DEF QuietInv
    <2> QED
      BY <2>2, <2>3, <2>4 DEF BySource, BfsForms, BellmanFordForms
  <1> QED
    BY <1>3, <1>4, SearchInvariant, PTL

-----------------------------------------------------------------------------
(* Page rank by edges and by vertices.                                     *)

Values == [L -> Nat]

\* What an edge brings to w, and the ranks after each edge of q.
Gift(p, e, w) == IF e[2] = w THEN p[e[1]] ELSE 0
Pushed(h, r, p, q) ==
    /\ h \in [0 .. Len(q) -> Values]
    /\ h[0] = r
    /\ \A i \in 1 .. Len(q) : \A w \in L : h[i][w] = h[i - 1][w] + Gift(p, q[i], w)

LEMMA PushRuns ==
    ASSUME NEW q \in Seq(L \X L), NEW r \in Values, NEW p \in Values
    PROVE  \E h : Pushed(h, r, p, q) /\ Push(r, p, q) = h[Len(q)]
  <1> DEFINE N == Len(q)
             S == Values
             do(t, e) == [t EXCEPT ![e[2]] = @ + p[e[1]]]
             step == [i \in 1 .. N |-> [t \in S |-> do(t, q[i])]]
             Eqn(f) == f = [i \in 0 .. N |->
                              IF i = 0 THEN r ELSE do(f[i - 1], q[i])]
             after == CHOOSE f : Eqn(f)
  <1>1. N \in Nat /\ \A i \in 1 .. N : q[i] \in L \X L
    OBVIOUS
  <1>2. ASSUME NEW i \in 1 .. N, NEW t \in S
        PROVE  /\ do(t, q[i]) \in S
               /\ \A w \in L : do(t, q[i])[w] = t[w] + Gift(p, q[i], w)
    <2> DEFINE u == q[i][1]
               v == q[i][2]
    <2>1. u \in L /\ v \in L
      BY <1>1
    <2>2. p[u] \in Nat /\ t \in [L -> Nat]
      BY <2>1 DEF Values
    <2> HIDE DEF u, v
    <2>3. [t EXCEPT ![v] = @ + p[u]] \in [L -> Nat]
      <3>1. t[v] + p[u] \in Nat
        BY <2>1, <2>2
      <3> QED
        BY <2>1, <2>2, <3>1
    <2>4. \A w \in L : [t EXCEPT ![v] = @ + p[u]][w] = t[w] + (IF v = w THEN p[u] ELSE 0)
      BY <2>1, <2>2
    <2> QED
      BY <2>3, <2>4 DEF Values, Gift, u, v
  <1>3. Steps(step, N, S)
    <2> HIDE DEF do
    <2> QED
      BY <1>2 DEF Steps
  <1>4. PICK h : Follows(h, step, r, N, S)
    <2> HIDE DEF step, N, S
    <2> QED
      BY <1>1, <1>3, Recursion DEF S
  <1>5. /\ h \in [0 .. N -> S] /\ h[0] = r
        /\ \A i \in 1 .. N : h[i] = do(h[i - 1], q[i])
    <2>1. /\ h \in [0 .. N -> S] /\ h[0] = r
          /\ \A i \in 1 .. N : h[i] = step[i][h[i - 1]]
      BY <1>4 DEF Follows
    <2>2. \A i \in 1 .. N : i - 1 \in 0 .. N
      BY <1>1
    <2> HIDE DEF S, do
    <2> QED
      BY <2>1, <2>2
  <1>6. Eqn(h)
    <2>1. ASSUME NEW i \in 0 .. N
          PROVE  h[i] = IF i = 0 THEN r ELSE do(h[i - 1], q[i])
      <3>1. i # 0 => i \in 1 .. N
        BY <1>1
      <3> HIDE DEF do
      <3> QED
        BY <1>5, <3>1
    <2> HIDE DEF do
    <2> QED
      BY <1>5, <2>1
  <1>7. Eqn(after)
    <2> HIDE DEF Eqn
    <2> QED
      BY <1>6
  <1>8. Push(r, p, q) = after[N]
    BY DEF Push, ForEach
  <1> HIDE DEF after
  <1>9. \A i \in 0 .. N : after[i] = IF i = 0 THEN r ELSE do(after[i - 1], q[i])
    <2> HIDE DEF do
    <2> QED
      BY <1>7, Zenon
  <1>10. after[0] = r /\ \A i \in 1 .. N : after[i] = do(after[i - 1], q[i])
    <2>1. 0 \in 0 .. N /\ \A i \in 1 .. N : i \in 0 .. N /\ i # 0
      BY <1>1
    <2> HIDE DEF do
    <2> QED
      BY <1>9, <2>1
  <1> DEFINE V == {i \in 0 .. N : after[i] \in S}
  <1>11. 0 .. N \subseteq V
    <2>1. 0 \in V
      <3>1. 0 \in 0 .. N
        BY <1>1
      <3> QED
        BY <1>10, <3>1
    <2>2. ASSUME NEW i \in 1 .. N, i - 1 \in V PROVE i \in V
      <3>1. after[i - 1] \in S /\ i \in 0 .. N
        BY <1>1, <2>2
      <3> HIDE DEF do, S
      <3> QED
        BY <1>2, <1>10, <3>1
    <2> HIDE DEF V, N
    <2> QED
      BY <1>1, <2>1, <2>2, Induction
  <1>12. after \in [0 .. N -> S]
    BY <1>7, <1>11
  <1>13. ASSUME NEW i \in 1 .. N, NEW w \in L
         PROVE  after[i][w] = after[i - 1][w] + Gift(p, q[i], w)
    <2>1. after[i - 1] \in S
      BY <1>1, <1>12
    <2> HIDE DEF do, S
    <2> QED
      BY <1>2, <1>10, <2>1
  <1> QED
    BY <1>8, <1>10, <1>12, <1>13 DEF Pushed

LEMMA PushedUnique ==
    ASSUME NEW q \in Seq(L \X L), NEW r \in Values, NEW p \in Values,
           NEW h, Pushed(h, r, p, q)
    PROVE  h[Len(q)] = Push(r, p, q) /\ Push(r, p, q) \in Values
  <1> DEFINE N == Len(q)
  <1>1. N \in Nat
    OBVIOUS
  <1>2. PICK k : Pushed(k, r, p, q) /\ Push(r, p, q) = k[N]
    BY PushRuns
  <1> DEFINE W == {i \in 0 .. N : h[i] = k[i]}
  <1>3. /\ h \in [0 .. N -> Values] /\ k \in [0 .. N -> Values]
        /\ h[0] = r /\ k[0] = r
        /\ \A i \in 1 .. N : \A w \in L : h[i][w] = h[i - 1][w] + Gift(p, q[i], w)
        /\ \A i \in 1 .. N : \A w \in L : k[i][w] = k[i - 1][w] + Gift(p, q[i], w)
    BY <1>2 DEF Pushed
  <1>4. 0 .. N \subseteq W
    <2>1. 0 \in W
      BY <1>1, <1>3
    <2>2. ASSUME NEW i \in 1 .. N, i - 1 \in W PROVE i \in W
      <3>0. i \in 0 .. N /\ h[i] \in Values /\ k[i] \in Values
        <4>1. i \in 0 .. N
          BY <1>1
        <4> HIDE DEF N
        <4> QED
          BY <1>3, <4>1
      <3>1. h[i] \in [L -> Nat] /\ k[i] \in [L -> Nat]
        BY <3>0 DEF Values
      <3>2. \A w \in L : h[i][w] = k[i][w]
        BY <1>3, <2>2
      <3>3. h[i] = k[i]
        BY <3>1, <3>2
      <3> QED
        BY <3>0, <3>3
    <2> HIDE DEF W, N
    <2> QED
      BY <1>1, <2>1, <2>2, Induction
  <1>5. N \in 0 .. N
    BY <1>1
  <1>6. h[N] = k[N] /\ k[N] \in Values
    BY <1>3, <1>4, <1>5
  <1> QED
    BY <1>2, <1>6

\* One list after the other.
LEMMA PushAppend ==
    ASSUME NEW s \in Seq(L \X L), NEW t \in Seq(L \X L),
           NEW r \in Values, NEW p \in Values
    PROVE  Push(r, p, s \o t) = Push(Push(r, p, s), p, t)
  <1> DEFINE st == s \o t
             M == Len(s)
             N == Len(t)
             x == Push(r, p, s)
  <1>1. /\ st \in Seq(L \X L) /\ Len(st) = M + N /\ M \in Nat /\ N \in Nat
        /\ \A i \in 1 .. M : st[i] = s[i]
        /\ \A i \in 1 .. N : st[M + i] = t[i]
    BY ConcatProperties
  <1>2. PICK a : Pushed(a, r, p, s) /\ x = a[M]
    BY PushRuns
  <1>3. x \in Values
    BY <1>1, <1>2 DEF Pushed
  <1> HIDE DEF x
  <1>4. PICK b : Pushed(b, x, p, t) /\ Push(x, p, t) = b[N]
    BY <1>3, PushRuns
  <1> HIDE DEF st, M, N
  <1> DEFINE c == [i \in 0 .. M + N |-> IF i <= M THEN a[i] ELSE b[i - M]]
  <1>11. \A i \in 0 .. M + N : c[i] = IF i <= M THEN a[i] ELSE b[i - M]
    OBVIOUS
  <1>5. /\ a \in [0 .. M -> Values] /\ a[0] = r
        /\ \A i \in 1 .. M : \A w \in L : a[i][w] = a[i - 1][w] + Gift(p, s[i], w)
    BY <1>2 DEF Pushed, M
  <1>6. /\ b \in [0 .. N -> Values] /\ b[0] = x
        /\ \A i \in 1 .. N : \A w \in L : b[i][w] = b[i - 1][w] + Gift(p, t[i], w)
    BY <1>4 DEF Pushed, N
  <1>7. c \in [0 .. M + N -> Values] /\ c[0] = r /\ c[M + N] = b[N]
    <2>1. ASSUME NEW i \in 0 .. M + N
          PROVE  (IF i <= M THEN a[i] ELSE b[i - M]) \in Values
      <3>1. CASE i <= M
        BY <1>1, <1>5, <3>1
      <3>2. CASE ~(i <= M)
        <4>1. i - M \in 0 .. N
          BY <1>1, <3>2
        <4> QED
          BY <1>6, <3>2, <4>1
      <3> QED
        BY <3>1, <3>2
    <2>2. c[0] = r
      BY <1>1, <1>5
    <2>3. c[M + N] = b[N]
      <3>1. CASE N = 0
        BY <1>1, <1>2, <1>6, <3>1
      <3>2. CASE N # 0
        <4> DEFINE j == M + N
        <4>1. j \in 0 .. M + N /\ ~(j <= M) /\ j - M = N
          BY <1>1, <3>2
        <4> HIDE DEF c, j
        <4>2. c[j] = b[N]
          BY <1>11, <4>1
        <4> QED
          BY <4>2 DEF j
      <3> QED
        BY <3>1, <3>2
    <2> QED
      BY <2>1, <2>2, <2>3
  <1>8. ASSUME NEW i \in 1 .. M + N, NEW w \in L
        PROVE  c[i][w] = c[i - 1][w] + Gift(p, st[i], w)
    <2>1. i \in 0 .. M + N /\ i - 1 \in 0 .. M + N
      BY <1>1
    <2>2. CASE i <= M
      <3>1. i \in 1 .. M /\ i - 1 <= M
        BY <1>1, <2>2
      <3>2. c[i] = a[i] /\ c[i - 1] = a[i - 1] /\ st[i] = s[i]
        BY <1>1, <2>1, <2>2, <3>1
      <3> HIDE DEF c
      <3> QED
        BY <1>5, <3>1, <3>2
    <2>3. CASE ~(i <= M)
      <3> DEFINE j == i - M
      <3>1. j \in 1 .. N /\ M + j = i /\ i - 1 - M = j - 1 /\ j - 1 \in 0 .. N
        BY <1>1, <2>3
      <3>2. c[i] = b[j] /\ st[i] = t[j]
        BY <1>1, <2>1, <2>3, <3>1
      <3>3. c[i - 1] = b[j - 1]
        <4>1. CASE i - 1 <= M
          <5>1. i - 1 = M /\ j - 1 = 0
            BY <1>1, <2>3, <4>1
          <5>2. c[i - 1] = a[M]
            BY <2>1, <4>1, <5>1
          <5> HIDE DEF c, j
          <5> QED
            BY <1>2, <1>6, <5>1, <5>2
        <4>2. CASE ~(i - 1 <= M)
          BY <2>1, <3>1, <4>2
        <4> QED
          BY <4>1, <4>2
      <3> HIDE DEF c, j
      <3> QED
        BY <1>6, <3>1, <3>2, <3>3
    <2> QED
      BY <2>2, <2>3
  <1> HIDE DEF c
  <1>9. Pushed(c, r, p, st)
    BY <1>1, <1>7, <1>8 DEF Pushed
  <1>10. Push(r, p, st) = c[M + N]
    BY <1>1, <1>9, PushedUnique
  <1> QED
    BY <1>4, <1>7, <1>10 DEF st, x

\* A list holds no target twice: a vertex gives each of them its share once.
LEMMA PushRow ==
    ASSUME g \in Graphs, NEW u \in L, NEW r \in Values, NEW p \in Values
    PROVE  /\ Push(r, p, Row(u)) \in Values
           /\ \A w \in L :
                Push(r, p, Row(u))[w] = r[w] + (IF w \in Out(u) THEN p[u] ELSE 0)
  <1> DEFINE q == g.adj[u]
             N == Len(q)
             Hit(i, w) == \E j \in 1 .. i : q[j] = w
  <1>1. q \in Seq(L) /\ N \in Nat /\ p[u] \in Nat
    BY GraphFacts DEF Values
  <1>2. IsInjective(q)
    <2>1. u \in Capacity
      BY GraphFacts
    <2> QED
      BY <2>1, GraphsAssumption
  <1>3. /\ Row(u) \in Seq(L \X L) /\ Len(Row(u)) = N
        /\ \A i \in 1 .. N : Row(u)[i] = <<u, q[i]>>
    BY <1>1, RowFacts DEF Row
  <1>4. PICK h : Pushed(h, r, p, Row(u)) /\ Push(r, p, Row(u)) = h[N]
    BY <1>3, PushRuns
  <1>5. /\ h \in [0 .. N -> Values] /\ h[0] = r
        /\ \A i \in 1 .. N : \A w \in L :
             h[i][w] = h[i - 1][w] + (IF q[i] = w THEN p[u] ELSE 0)
    BY <1>3, <1>4 DEF Pushed, Gift
  <1>6. \A i, j \in 1 .. N : q[i] = q[j] => i = j
    BY <1>1, <1>2 DEF IsInjective
  <1>7. Out(u) = {q[j] : j \in 1 .. N}
    BY <1>1 DEF Out, ToSet
  <1> HIDE DEF q, N
  <1> SUFFICES ASSUME NEW w \in L
               PROVE  h[N][w] = r[w] + (IF w \in Out(u) THEN p[u] ELSE 0)
    BY <1>1, <1>4, <1>5
  <1> DEFINE V == {i \in 0 .. N : h[i][w] = r[w] + (IF Hit(i, w) THEN p[u] ELSE 0)}
  <1>8. r[w] \in Nat
    BY DEF Values
  <1>9. 0 \in V
    <2>1. ~Hit(0, w) /\ 0 \in 0 .. N
      BY <1>1
    <2> HIDE DEF Hit
    <2> QED
      BY <1>5, <1>8, <2>1
  <1>10. ASSUME NEW i \in 1 .. N, i - 1 \in V PROVE i \in V
    <2>1. i \in 0 .. N /\ i - 1 \in 0 .. N
      BY <1>1
    <2>2. Hit(i, w) <=> Hit(i - 1, w) \/ q[i] = w
      <3>1. 1 .. i = (1 .. i - 1) \cup {i}
        BY <1>1
      <3> QED
        BY <3>1
    <2>3. q[i] = w => ~Hit(i - 1, w)
      <3>1. \A j \in 1 .. i - 1 : j \in 1 .. N /\ j # i
        BY <1>1
      <3> QED
        BY <1>6, <3>1
    <2>4. h[i - 1][w] = r[w] + (IF Hit(i - 1, w) THEN p[u] ELSE 0)
      BY <1>10
    <2> HIDE DEF Hit
    <2>5. h[i][w] = h[i - 1][w] + (IF q[i] = w THEN p[u] ELSE 0)
      BY <1>5
    <2>6. h[i][w] = r[w] + (IF Hit(i, w) THEN p[u] ELSE 0)
      BY <1>1, <1>8, <2>2, <2>3, <2>4, <2>5
    <2> QED
      BY <2>1, <2>6
  <1>11. N \in V
    <2>1. 0 .. N \subseteq V
      <3> HIDE DEF V
      <3> QED
        BY <1>1, <1>9, <1>10, Induction
    <2> HIDE DEF V
    <2> QED
      BY <1>1, <2>1
  <1>12. Hit(N, w) <=> w \in Out(u)
    BY <1>7
  <1> HIDE DEF Hit
  <1> QED
    BY <1>11, <1>12

Zeros == [v \in L |-> 0]

\* What comes along the edges is what comes into the vertices.
LEMMA PushPulls ==
    ASSUME g \in Graphs, NEW p \in Values
    PROVE  /\ Push(Zeros, p, ArrayEdges) \in Values
           /\ \A w \in L : /\ Push(Zeros, p, ArrayEdges)[w] = Total(p, Into(w))
                           /\ Total(p, Into(w)) \in Nat
  <1> DEFINE us == {u \in L : g.degree[u] # 0}
             n == g.n
             pushed(q) == Push(Zeros, p, q)
  <1>1. /\ num_vertices \in Nat /\ n \in Nat \ {0} /\ n <= num_vertices
        /\ L = 0 .. n - 1 /\ L \subseteq Capacity
    BY GraphFacts DEF L
  <1>2. Zeros \in Values
    BY DEF Zeros, Values
  <1>3. PICK upTo : Rows(upTo, us) /\ ArrayEdges = upTo[n]
    BY RowsRun DEF ArrayEdges
  <1>4. /\ \A i \in 0 .. n : upTo[i] \in Seq(L \X L)
        /\ upTo[0] = <<>>
        /\ \A i \in 1 .. n : upTo[i] = upTo[i - 1] \o (IF i - 1 \in us THEN Row(i - 1) ELSE <<>>)
    BY <1>3 DEF Rows
  <1>5. \A q \in Seq(L \X L) : pushed(q) \in Values
    BY <1>2, PushRuns, PushedUnique
  <1>6. ASSUME NEW u \in L, u \notin us PROVE Out(u) = {}
    <2>1. /\ g.adj[u] \in Seq(L) /\ g.degree[u] = 0
          /\ g.degree[u] >= Len(g.adj[u])
      BY <1>6, GraphFacts
    <2>2. Len(g.adj[u]) = 0
      BY <2>1
    <2> QED
      BY <2>1, <2>2 DEF Out, ToSet
  <1>9. \A s \in Seq(L \X L) : \A t \in Seq(L \X L) :
          pushed(s \o t) = Push(pushed(s), p, t)
    <2> SUFFICES ASSUME NEW s \in Seq(L \X L), NEW t \in Seq(L \X L)
                 PROVE  Push(Zeros, p, s \o t) = Push(Push(Zeros, p, s), p, t)
      BY Zenon
    <2> HIDE DEF us, n, pushed
    <2> QED
      BY <1>2, PushAppend, ZenonT(60)
  <1> HIDE DEF us, n, pushed
  <1>7. ASSUME NEW w \in L
        PROVE  pushed(upTo[n])[w] = Total(p, Into(w)) /\ Total(p, Into(w)) \in Nat
    <2> DEFINE S == Into(w)
    <2>1. \A i \in S \cap Capacity : p[i] \in Nat
      BY DEF Into, Values
    <2>2. \A u \in L : u \in S <=> w \in Out(u)
      BY DEF Into, Out
    <2>3. S \subseteq L
      BY DEF Into
    <2> HIDE DEF S
    <2>4. PICK sum \in [0 .. num_vertices -> Nat] :
             /\ sum[0] = 0
             /\ \A i \in 1 .. num_vertices :
                  sum[i] = sum[i - 1] + (IF i - 1 \in S THEN p[i - 1] ELSE 0)
             /\ Total(p, S) = sum[num_vertices]
      BY <1>1, <2>1, TotalRuns
    <2> DEFINE V == {i \in 0 .. n : pushed(upTo[i])[w] = sum[i]}
    <2>5. 0 \in V
      <3>0. <<>> \in Seq(L \X L)
        OBVIOUS
      <3>1. PICK h : Pushed(h, Zeros, p, <<>>) /\ Push(Zeros, p, <<>>) = h[Len(<<>>)]
        BY <1>2, <3>0, PushRuns, Zenon
      <3>2. Len(<<>>) = 0 /\ h[0] = Zeros
        BY <3>1 DEF Pushed
      <3>3. pushed(<<>>)[w] = 0
        BY <3>1, <3>2 DEF Zeros, pushed
      <3> QED
        BY <1>1, <1>4, <2>4, <3>3
    <2>6. ASSUME NEW i \in 1 .. n, i - 1 \in V PROVE i \in V
      <3> DEFINE u == i - 1
      <3>1. /\ i \in 0 .. n /\ u \in 0 .. n /\ u \in L /\ i \in 1 .. num_vertices
            /\ pushed(upTo[u])[w] = sum[u]
        BY <1>1, <2>6
      <3>2. sum[i] = sum[u] + (IF u \in S THEN p[u] ELSE 0) /\ sum[u] \in Nat
        BY <1>1, <2>4, <3>1
      <3>3. upTo[u] \in Seq(L \X L) /\ pushed(upTo[u]) \in Values
        BY <1>4, <1>5, <3>1
      <3>4. upTo[i] = upTo[u] \o (IF u \in us THEN Row(u) ELSE <<>>)
        BY <1>4
      <3> HIDE DEF u
      <3>5. CASE u \in us
        <4>1. Row(u) \in Seq(L \X L) /\ upTo[i] = upTo[u] \o Row(u)
          BY <3>1, <3>4, <3>5, RowFacts
        <4>2. pushed(upTo[i]) = Push(pushed(upTo[u]), p, Row(u))
          <5>1. pushed(upTo[u] \o Row(u)) = Push(pushed(upTo[u]), p, Row(u))
            BY <1>9, <3>3, <4>1, Zenon
          <5> QED
            BY <4>1, <5>1, Zenon
        <4>3. pushed(upTo[i])[w] =
                pushed(upTo[u])[w] + (IF w \in Out(u) THEN p[u] ELSE 0)
          BY <3>1, <3>3, <4>2, PushRow
        <4> QED
          BY <2>2, <3>1, <3>2, <4>3
      <3>6. CASE u \notin us
        <4>1. upTo[i] = upTo[u]
          BY <3>3, <3>4, <3>6
        <4>2. u \notin S
          BY <1>6, <2>2, <3>1, <3>6
        <4> QED
          BY <3>1, <3>2, <4>1, <4>2
      <3> QED
        BY <3>5, <3>6
    <2>7. n \in V
      <3>1. 0 .. n \subseteq V
        <4> HIDE DEF V
        <4> QED
          BY <1>1, <2>5, <2>6, Induction
      <3> HIDE DEF V
      <3> QED
        BY <1>1, <3>1
    <2> DEFINE W == {i \in 0 .. num_vertices : n <= i => sum[i] = sum[n]}
    <2>8. 0 \in W
      BY <1>1
    <2>9. ASSUME NEW i \in 1 .. num_vertices, i - 1 \in W PROVE i \in W
      <3>1. CASE n <= i - 1
        <4>1. i - 1 \notin S
          BY <1>1, <2>3, <3>1
        <4> QED
          BY <1>1, <2>4, <2>9, <3>1, <4>1
      <3>2. CASE ~(n <= i - 1)
        <4>1. n <= i => n = i
          BY <1>1, <3>2
        <4> QED
          BY <1>1, <4>1
      <3> QED
        BY <3>1, <3>2
    <2>10. num_vertices \in W
      <3>1. 0 .. num_vertices \subseteq W
        <4> HIDE DEF W
        <4> QED
          BY <1>1, <2>8, <2>9, Induction
      <3> HIDE DEF W
      <3> QED
        BY <1>1, <3>1
    <2> QED
      BY <1>1, <2>4, <2>7, <2>10 DEF S
  <1>8. upTo[n] \in Seq(L \X L) /\ pushed(upTo[n]) \in Values
    BY <1>1, <1>4, <1>5
  <1> QED
    BY <1>3, <1>7, <1>8 DEF pushed

\* The shares of the first iteration and of the next one.
FirstShare == [v \in L |-> IF g.degree[v] > 0 THEN (3 * UNIT) \div 20 ELSE 0]
NextShare(p) == [v \in L |-> IF g.degree[v] = 0 THEN 0
                             ELSE Damped(Total(p, Into(v))) \div g.degree[v]]

LEMMA QuotientNat == ASSUME NEW x \in Nat, NEW d \in Nat \ {0} PROVE x \div d \in Nat
  OBVIOUS

LEMMA ShareTypes ==
    ASSUME g \in Graphs, NEW p \in Values
    PROVE  FirstShare \in Values /\ NextShare(p) \in Values
  <1>1. UNIT \in Nat
    BY RanksAssumption
  <1>2. FirstShare \in Values
    <2>1. (3 * UNIT) \div 20 \in Nat
      BY <1>1
    <2> QED
      BY <2>1 DEF FirstShare, Values
  <1>3. ASSUME NEW v \in L, g.degree[v] # 0
        PROVE  Damped(Total(p, Into(v))) \div g.degree[v] \in Nat
    <2>1. g.degree[v] \in Nat \ {0} /\ Total(p, Into(v)) \in Nat
      BY <1>3, GraphFacts, PushPulls
    <2>2. Damped(Total(p, Into(v))) \in Nat
      BY <1>1, <2>1 DEF Damped
    <2> QED
      BY <2>1, <2>2, QuotientNat
  <1>4. NextShare(p) \in Values
    BY <1>3 DEF NextShare, Values
  <1> QED
    BY <1>2, <1>4

LEMMA SharesFacts ==
    ASSUME g \in Graphs
    PROVE  /\ Shares \in [0 .. iteration_count - 1 -> Values]
           /\ Shares[0] = FirstShare
           /\ \A k \in 1 .. iteration_count - 1 : Shares[k] = NextShare(Shares[k - 1])
  <1> DEFINE N == iteration_count - 1
             S == Values
             step == [k \in 1 .. N |-> [p \in S |-> NextShare(p)]]
             Eqn(f) == f = [k \in 0 .. N |->
                              IF k = 0 THEN [v \in L |-> IF g.degree[v] > 0
                                                         THEN (3 * UNIT) \div 20 ELSE 0]
                              ELSE [v \in L |->
                                      IF g.degree[v] = 0 THEN 0
                                      ELSE Damped(Total(f[k - 1], Into(v))) \div g.degree[v]]]
             share == CHOOSE f : Eqn(f)
  <1>1. N \in Nat /\ FirstShare \in S
    <2>1. Zeros \in Values
      BY DEF Zeros, Values
    <2> QED
      BY <2>1, RanksAssumption, ShareTypes
  <1>2. \A p \in S : NextShare(p) \in S
    BY ShareTypes
  <1>3. Steps(step, N, S)
    <2> HIDE DEF S
    <2> QED
      BY <1>2 DEF Steps
  <1>4. PICK h : Follows(h, step, FirstShare, N, S)
    <2> HIDE DEF step, N, S
    <2> QED
      BY <1>1, <1>3, Recursion
  <1>5. /\ h \in [0 .. N -> S] /\ h[0] = FirstShare
        /\ \A k \in 1 .. N : h[k] = NextShare(h[k - 1])
    <2>1. /\ h \in [0 .. N -> S] /\ h[0] = FirstShare
          /\ \A k \in 1 .. N : h[k] = step[k][h[k - 1]]
      BY <1>4 DEF Follows
    <2>2. \A k \in 1 .. N : k - 1 \in 0 .. N
      BY <1>1
    <2> HIDE DEF S, N
    <2> QED
      BY <2>1, <2>2
  <1>6. Eqn(h)
    <2>1. ASSUME NEW k \in 0 .. N
          PROVE  h[k] = IF k = 0 THEN FirstShare ELSE NextShare(h[k - 1])
      <3>1. k # 0 => k \in 1 .. N
        BY <1>1
      <3> HIDE DEF N
      <3> QED
        BY <1>5, <3>1
    <2>2. h = [k \in 0 .. N |-> IF k = 0 THEN FirstShare ELSE NextShare(h[k - 1])]
      <3> HIDE DEF N, S
      <3> QED
        BY <1>5, <2>1
    <2> QED
      BY <2>2, Zenon DEF FirstShare, NextShare
  <1>7. Eqn(share)
    <2> HIDE DEF Eqn
    <2> QED
      BY <1>6
  <1>8. Shares = share
    BY DEF Shares
  <1> HIDE DEF share
  <1>9. \A k \in 0 .. N : share[k] = IF k = 0 THEN FirstShare ELSE NextShare(share[k - 1])
    BY <1>7, Zenon DEF FirstShare, NextShare
  <1>10. share[0] = FirstShare /\ \A k \in 1 .. N : share[k] = NextShare(share[k - 1])
    <2>1. 0 \in 0 .. N /\ \A k \in 1 .. N : k \in 0 .. N /\ k # 0
      BY <1>1
    <2> HIDE DEF N
    <2> QED
      BY <1>9, <2>1
  <1> DEFINE V == {k \in 0 .. N : share[k] \in S}
  <1>11. 0 .. N \subseteq V
    <2>1. 0 \in V
      BY <1>1, <1>10
    <2>2. \A k \in 1 .. N : k - 1 \in V => k \in V
      <3> HIDE DEF S
      <3> QED
        BY <1>1, <1>2, <1>10
    <2> HIDE DEF V, N
    <2> QED
      BY <1>1, <2>1, <2>2, Induction
  <1>12. share \in [0 .. N -> S]
    <2>1. share = [k \in 0 .. N |-> share[k]]
      BY <1>7, Zenon
    <2> HIDE DEF N, S
    <2> QED
      BY <1>11, <2>1 
  <1> QED
    BY <1>8, <1>10, <1>12

\* The forms of page rank are one algorithm.
LEMMA RunPageRank ==
    ASSUME Run, alg \in Ranking
    PROVE  PageRank
  <1>1. alg \notin BySource
    BY DEF Ranking, BySource
  <1>2. /\ ~test_bfs /\ ~test_bfs2 /\ ~test_bfs_iterators
        /\ ~bellman_ford2 /\ ~bellman_ford_iterators /\ ~dijkstra
    BY <1>1 DEF BySource, test_bfs, test_bfs2, test_bfs_iterators, bellman_ford2,
           bellman_ford_iterators, dijkstra
  <1>3. ~test_cc2 /\ ~test_cc_iterators
    BY DEF Ranking, test_cc2, test_cc_iterators
  <1>4. ~test_one_hop /\ ~test_two_hop /\ ~test_two_hop_l /\ ~avg_degree
    BY DEF Ranking, test_one_hop, test_two_hop, test_two_hop_l, avg_degree
  <1>5. ~BFS_with_edge_map /\ ~CC_T /\ ~SSSP_BF
    BY DEF Ranking, BFS_with_edge_map, CC_T, SSSP_BF
  <1> QED
    BY <1>2, <1>3, <1>4, <1>5 DEF Run, page_rank2, page_rank_iterators

\* What page rank has done: the head of each iteration has the shares of that
\* iteration in one array and nothing in the other.
RankInv ==
    alg \in Ranking =>
        /\ pc \in {"call", "loop", "done"}
        /\ pc = "loop" => /\ round \in 0 .. iteration_count - 1
                          /\ val = Shares[round] /\ aux = Zeros
        /\ pc = "done" => val = Ranks

LEMMA RankStep ==
    ASSUME CallInv, RankInv, [Next]_vars
    PROVE  RankInv'
  <1>1. alg' = alg /\ g' = g
    BY DEF Next, Returned, vars, call
  <1>2. Shares' = Shares /\ Ranks' = Ranks /\ Zeros' = Zeros
    BY <1>1 DEF Shares, Ranks, Zeros, Into, L
  <1> SUFFICES ASSUME alg \in Ranking
               PROVE  /\ pc' \in {"call", "loop", "done"}
                      /\ pc' = "loop" => /\ round' \in 0 .. iteration_count - 1
                                         /\ val' = Shares[round'] /\ aux' = Zeros
                      /\ pc' = "done" => val' = Ranks
    BY <1>1, <1>2 DEF RankInv, Ranking
  <1>3. /\ pc \in {"call", "loop", "done"}
        /\ pc = "loop" => /\ round \in 0 .. iteration_count - 1
                          /\ val = Shares[round] /\ aux = Zeros
        /\ pc = "done" => val = Ranks
    BY DEF RankInv
  <1>4. CASE UNCHANGED vars
    BY <1>3, <1>4 DEF vars
  <1>5. CASE Run
    <2>1. g \in Graphs
      BY DEF CallInv
    <2>2. /\ Shares \in [0 .. iteration_count - 1 -> Values]
          /\ Shares[0] = FirstShare
          /\ \A k \in 1 .. iteration_count - 1 : Shares[k] = NextShare(Shares[k - 1])
      BY <2>1, SharesFacts
    <2>3. iteration_count \in Nat \ {0}
      BY RanksAssumption
    <2>4. PageRank
      BY <1>5, RunPageRank
    <2>5. CASE pc = "call"
      <3>1. pc' = "loop" /\ round' = 0 /\ val' = FirstShare /\ aux' = Zeros
        BY <2>4, <2>5 DEF PageRank, Begin, FirstShare, Zeros
      <3> QED
        BY <2>2, <2>3, <3>1
    <2>6. CASE pc # "call"
      <3> DEFINE p == Shares[round]
                 rank == Push(Zeros, p, ArrayEdges)
                 last == round = iteration_count - 1
      <3>1. /\ pc = "loop" /\ round' = round + 1 /\ aux' = Zeros
            /\ val' = [v \in L |-> CASE last -> Damped(rank[v])
                                     [] ~last /\ g.degree[v] = 0 -> 0
                                     [] OTHER -> Damped(rank[v]) \div g.degree[v]]
            /\ pc' = IF round' < iteration_count THEN "loop" ELSE "done"
        <4>1. pc = "loop"
          BY <2>4, <2>6 DEF PageRank, Begin
        <4>2. val = p /\ aux = Zeros
          BY <1>3, <4>1
        <4> QED
          BY <2>4, <2>6, <4>1, <4>2 DEF PageRank, Begin, Goto, Return, Zeros
      <3>2. round \in 0 .. iteration_count - 1 /\ p \in Values
        BY <1>3, <2>2, <3>1
      <3> HIDE DEF p
      <3>3. \A w \in L : rank[w] = Total(p, Into(w))
        BY <2>1, <3>2, PushPulls
      <3> HIDE DEF rank
      <3>4. CASE last
        <4>1. pc' = "done"
          BY <2>3, <3>1, <3>4
        <4>2. val' = [v \in L |-> Damped(rank[v])]
          BY <3>1, <3>4
        <4>3. val' = Ranks
          BY <3>3, <3>4, <4>2 DEF Ranks, p
        <4> QED
          BY <4>1, <4>3
      <3>5. CASE ~last
        <4>1. /\ pc' = "loop" /\ round' \in 1 .. iteration_count - 1
              /\ round' - 1 = round /\ round' \in 0 .. iteration_count - 1
          BY <2>3, <3>1, <3>2, <3>5
        <4>2. val' = [v \in L |-> IF g.degree[v] = 0 THEN 0
                                  ELSE Damped(rank[v]) \div g.degree[v]]
          BY <3>1, <3>5
        <4>3. val' = NextShare(p)
          BY <3>3, <4>2 DEF NextShare
        <4>4. val' = Shares[round']
          BY <2>2, <4>1, <4>3 DEF p
        <4> QED
          BY <3>1, <4>1, <4>4
      <3> QED
        BY <3>4, <3>5
    <2> QED
      BY <2>5, <2>6
  <1> QED
    BY <1>4, <1>5 DEF Next, Returned

\* On every graph, every form of page rank leaves each vertex the rank that the
\* definition by incoming edges gives it: no edge is left out or counted twice,
\* and each iteration starts with an empty array (page_rank.h:5-226).
THEOREM RanksExactHolds == Spec => []RanksExact
  <1>1. Init => RankInv
    BY DEF Init, RankInv
  <1>2. CallInv /\ RankInv /\ [Next]_vars => RankInv'
    BY RankStep
  <1>3. RankInv => RanksExact
    BY DEF RankInv, RanksExact, Ended
  <1> QED
    BY <1>1, <1>2, <1>3, CallInvariant, PTL DEF Spec

-----------------------------------------------------------------------------
(* Connected components: labels that go up to the root of their tree.      *)

\* Labels never exceed their vertex; a set is closed if it has whole trees.
Forests == {c \in [L -> L] : \A x \in L : c[x] <= x}
Closed(c, X) == \A x \in L : x \in X <=> c[x] \in X

High(p) == IF p[1] > p[2] THEN p[1] ELSE p[2]
Low(p) == p[1] + (p[2] - High(p))
HookEnds(c) == {p \in L \X L : p[1] = p[2] \/ c[High(p)] \in {Low(p), High(p)}}
HookEnd(c, p) == IF p[1] = p[2] \/ c[High(p)] = Low(p) THEN c
                 ELSE [c EXCEPT ![High(p)] = Low(p)]
HookNext(c, p) == <<c[c[High(p)]], c[Low(p)]>>

LEMMA HighLow ==
    ASSUME NEW p \in L \X L
    PROVE  /\ High(p) \in L /\ Low(p) \in L /\ L \subseteq Int
           /\ Low(p) <= High(p) /\ (p[1] # p[2] => Low(p) < High(p))
           /\ \/ (High(p) = p[1] /\ Low(p) = p[2])
              \/ (High(p) = p[2] /\ Low(p) = p[1])
  <1>1. p[1] \in L /\ p[2] \in L
    OBVIOUS
  <1>2. L \subseteq Int
    BY DEF L
  <1> DEFINE a == p[1]
             b == p[2]
  <1>3. a \in Int /\ b \in Int
    BY <1>1, <1>2
  <1>4. High(p) = (IF a > b THEN a ELSE b) /\ Low(p) = a + (b - High(p))
    BY DEF High, Low
  <1> HIDE DEF a, b
  <1>5. CASE a > b
    <2>1. High(p) = a /\ Low(p) = b
      BY <1>3, <1>4, <1>5
    <2> QED
      BY <1>1, <1>2, <1>3, <1>5, <2>1 DEF a, b
  <1>6. CASE ~(a > b)
    <2>1. High(p) = b /\ Low(p) = a
      BY <1>3, <1>4, <1>6
    <2>2. a <= b /\ (a # b => a < b)
      BY <1>3, <1>6
    <2> QED
      BY <1>1, <1>2, <2>1, <2>2 DEF a, b
  <1> QED
    BY <1>5, <1>6

\* A hook where the loop ends,
LEMMA HookEndFacts ==
    ASSUME NEW c \in Forests, NEW p \in HookEnds(c)
    PROVE  /\ HookEnd(c, p) \in Forests
           /\ \A X : Closed(HookEnd(c, p), X)
                       <=> Closed(c, X) /\ (p[1] \in X <=> p[2] \in X)
  <1> DEFINE h == High(p)
             l == Low(p)
  <1>1. p \in L \X L /\ (p[1] = p[2] \/ c[h] = l \/ c[h] = h)
    BY DEF HookEnds
  <1>2. /\ h \in L /\ l \in L /\ L \subseteq Int /\ l <= h
        /\ (h = p[1] /\ l = p[2]) \/ (h = p[2] /\ l = p[1])
    <2>1. p \in L \X L
      BY <1>1
    <2>2. h \in L /\ l \in L /\ L \subseteq Int /\ l <= h
      BY <2>1, HighLow
    <2>3. (h = p[1] /\ l = p[2]) \/ (h = p[2] /\ l = p[1])
      BY <2>1, HighLow
    <2> QED
      BY <2>2, <2>3
  <1>3. c \in [L -> L] /\ \A x \in L : c[x] <= x
    BY DEF Forests
  <1>4. HookEnd(c, p) = IF p[1] = p[2] \/ c[h] = l THEN c ELSE [c EXCEPT ![h] = l]
    BY DEF HookEnd
  <1>5. \A X : (p[1] \in X <=> p[2] \in X) <=> (h \in X <=> l \in X)
    BY <1>2
  <1> HIDE DEF h, l
  <1>6. CASE p[1] = p[2] \/ c[h] = l
    <2>1. HookEnd(c, p) = c
      BY <1>4, <1>6
    <2>2. \A X : Closed(c, X) => (h \in X <=> l \in X)
      <3>1. CASE p[1] = p[2]
        BY <1>2, <3>1
      <3>2. CASE c[h] = l
        BY <1>2, <3>2 DEF Closed
      <3> QED
        BY <1>6, <3>1, <3>2
    <2> QED
      BY <1>5, <2>1, <2>2
  <1>7. CASE ~(p[1] = p[2] \/ c[h] = l)
    <2> DEFINE d == [c EXCEPT ![h] = l]
    <2>1. HookEnd(c, p) = d /\ c[h] = h
      BY <1>1, <1>4, <1>7
    <2>2. d \in [L -> L] /\ d[h] = l /\ \A x \in L : x # h => d[x] = c[x]
      BY <1>2, <1>3
    <2> HIDE DEF d
    <2>3. d \in Forests
      <3>1. \A x \in L : d[x] <= x
        BY <1>2, <1>3, <2>2
      <3> QED
        BY <2>2, <3>1 DEF Forests
    <2>4. \A X : Closed(d, X) <=> Closed(c, X) /\ (h \in X <=> l \in X)
      BY <1>2, <2>1, <2>2 DEF Closed
    <2> QED
      BY <1>5, <2>1, <2>3, <2>4
  <1> QED
    BY <1>6, <1>7

\* and one where it goes on with lower labels of the same trees.
LEMMA HookNextFacts ==
    ASSUME NEW c \in Forests, NEW p \in L \X L, p \notin HookEnds(c)
    PROVE  /\ HookNext(c, p) \in L \X L
           /\ High(HookNext(c, p)) < High(p)
           /\ \A X : Closed(c, X) =>
                ((HookNext(c, p)[1] \in X <=> HookNext(c, p)[2] \in X)
                   <=> (p[1] \in X <=> p[2] \in X))
  <1> DEFINE h == High(p)
             l == Low(p)
             a == c[c[h]]
             b == c[l]
             q == HookNext(c, p)
  <1>1. p[1] # p[2] /\ c[h] # h
    BY DEF HookEnds
  <1>2. /\ h \in L /\ l \in L /\ L \subseteq Int /\ l < h
        /\ (h = p[1] /\ l = p[2]) \/ (h = p[2] /\ l = p[1])
    <2>1. h \in L /\ l \in L /\ L \subseteq Int
      BY HighLow
    <2>2. l < h
      BY <1>1, HighLow
    <2>3. (h = p[1] /\ l = p[2]) \/ (h = p[2] /\ l = p[1])
      BY HighLow
    <2> QED
      BY <2>1, <2>2, <2>3
  <1>3. c \in [L -> L] /\ \A x \in L : c[x] <= x
    BY DEF Forests
  <1>4. q[1] = a /\ q[2] = b /\ q = <<a, b>>
    BY DEF HookNext
  <1> HIDE DEF h, l, q
  <1>5. c[h] \in L /\ a \in L /\ b \in L
    BY <1>2, <1>3
  <1>6. a < h /\ b < h
    <2>1. a <= c[h] /\ c[h] <= h /\ b <= l
      BY <1>2, <1>3, <1>5
    <2>2. a \in Int /\ b \in Int /\ c[h] \in Int /\ h \in Int /\ l \in Int
      BY <1>2, <1>5
    <2> HIDE DEF a, b
    <2> QED
      BY <1>1, <1>2, <2>1, <2>2
  <1>7. \A X : Closed(c, X) => (a \in X <=> h \in X) /\ (b \in X <=> l \in X)
    BY <1>2, <1>5 DEF Closed
  <1> HIDE DEF a, b
  <1>8. q \in L \X L /\ High(q) < h
    <2>1. q \in L \X L
      BY <1>4, <1>5
    <2>2. High(q) \in {a, b}
      BY <1>4 DEF High
    <2> QED
      BY <1>6, <2>1, <2>2
  <1>9. \A X : Closed(c, X) =>
          ((q[1] \in X <=> q[2] \in X) <=> (p[1] \in X <=> p[2] \in X))
    BY <1>2, <1>4, <1>7
  <1> QED
    BY <1>8, <1>9 DEF q, h

\* The loop of a hook, from each pair of labels.
LEMMA HookRuns ==
    ASSUME g \in Graphs, NEW c \in Forests
    PROVE  \E after : /\ \A p1 \in L : \A p2 \in L : Hook(c, p1, p2) = after[<<p1, p2>>]
                      /\ \A p \in HookEnds(c) : after[p] = HookEnd(c, p)
                      /\ \A p \in (L \X L) \ HookEnds(c) : after[p] = after[HookNext(c, p)]
  <1> DEFINE Pairs == L \X L
             S == Forests
             stop == HookEnds(c)
             base == [p \in Pairs |-> IF p \in stop THEN HookEnd(c, p) ELSE c]
             next == [p \in Pairs |-> IF p \in stop THEN p ELSE HookNext(c, p)]
             rank == [p \in Pairs |-> High(p)]
             body(f, p) ==
               LET high == IF p[1] > p[2] THEN p[1] ELSE p[2]
                   low == p[1] + (p[2] - high)
                   p_high == c[high]
               IN  CASE p[1] = p[2] \/ p_high = low -> c
                     [] p[1] # p[2] /\ p_high = high -> [c EXCEPT ![high] = low]
                     [] OTHER -> f[<<c[p_high], c[low]>>]
             Eqn(f) == f = [p \in Pairs |-> body(f, p)]
             after == CHOOSE f : Eqn(f)
  <1>1. g.n \in Nat /\ L = 0 .. g.n - 1
    BY GraphFacts DEF L
  <1>2. base \in [Pairs -> S]
    <2>1. \A p \in Pairs : (IF p \in stop THEN HookEnd(c, p) ELSE c) \in S
      BY HookEndFacts
    <2> HIDE DEF Pairs, S, stop
    <2> QED
      BY <2>1
  <1>3. Descends(next, stop, rank, Pairs, g.n)
    <2>1. next \in [Pairs -> Pairs]
      <3>1. \A p \in Pairs : (IF p \in stop THEN p ELSE HookNext(c, p)) \in Pairs
        BY HookNextFacts
      <3> HIDE DEF Pairs, stop
      <3> QED
        BY <3>1
    <2>2. rank \in [Pairs -> 0 .. g.n]
      <3>1. \A p \in Pairs : High(p) \in 0 .. g.n
        <4> SUFFICES ASSUME NEW p \in Pairs PROVE High(p) \in 0 .. g.n
          OBVIOUS
        <4>1. High(p) \in L
          BY HighLow
        <4> QED
          BY <1>1, <4>1
      <3> HIDE DEF Pairs
      <3> QED
        BY <3>1
    <2>3. ASSUME NEW p \in Pairs, p \notin stop PROVE rank[next[p]] < rank[p]
      <3>1. HookNext(c, p) \in Pairs /\ High(HookNext(c, p)) < High(p)
        BY <2>3, HookNextFacts
      <3> HIDE DEF Pairs, stop
      <3> QED
        BY <2>3, <3>1
    <2> HIDE DEF Pairs, stop, next, rank
    <2> QED
      BY <2>1, <2>2, <2>3 DEF Descends
  <1>4. PICK f : Unfolds(f, base, next, stop, Pairs, S)
    <2> HIDE DEF Pairs, S, stop, base, next, rank
    <2> QED
      BY <1>1, <1>2, <1>3, TailRecursion
  <1>5. \A h : \A p \in Pairs :
          body(h, p) = IF p \in stop THEN HookEnd(c, p) ELSE h[HookNext(c, p)]
    <2> SUFFICES ASSUME NEW h, NEW p \in Pairs
                 PROVE  body(h, p) = IF p \in stop THEN HookEnd(c, p) ELSE h[HookNext(c, p)]
      BY Zenon
    <2> DEFINE same == p[1] = p[2] \/ c[High(p)] = Low(p)
               top == p[1] # p[2] /\ c[High(p)] = High(p)
               hooked == [c EXCEPT ![High(p)] = Low(p)]
               rest == h[HookNext(c, p)]
    <2>1. body(h, p) = CASE same -> c [] top -> hooked [] OTHER -> rest
      BY Zenon DEF High, Low, HookNext
    <2>2. ~(same /\ top)
      <3> SUFFICES ASSUME same, top PROVE FALSE
        OBVIOUS
      <3>1. Low(p) < High(p) /\ Low(p) = High(p)
        BY HighLow
      <3>2. High(p) \in Int
        BY HighLow
      <3> QED
        BY <3>1, <3>2
    <2>3. p \in stop <=> same \/ top
      BY DEF HookEnds
    <2>4. HookEnd(c, p) = IF same THEN c ELSE hooked
      BY DEF HookEnd
    <2> HIDE DEF body, same, top, hooked, rest, stop
    <2>5. body(h, p) = IF same \/ top THEN (IF same THEN c ELSE hooked) ELSE rest
      BY <2>1, <2>2
    <2> QED
      BY <2>3, <2>4, <2>5 DEF rest
  <1> HIDE DEF body
  <1>6. Eqn(f)
    <2>1. /\ f \in [Pairs -> S]
          /\ \A p \in Pairs : f[p] = IF p \in stop THEN base[p] ELSE f[next[p]]
      BY <1>4 DEF Unfolds
    <2>2. ASSUME NEW p \in Pairs PROVE f[p] = body(f, p)
      <3>1. base[p] = (IF p \in stop THEN HookEnd(c, p) ELSE c)
            /\ next[p] = (IF p \in stop THEN p ELSE HookNext(c, p))
        BY Zenon
      <3> HIDE DEF Pairs, S, stop, base, next
      <3> QED
        BY <1>5, <2>1, <3>1
    <2> HIDE DEF Pairs, S, stop, base, next
    <2> QED
      BY <2>1, <2>2
  <1>7. Eqn(after)
    <2> HIDE DEF Eqn
    <2> QED
      BY <1>6
  <1>8. \A p1 \in L : \A p2 \in L : Hook(c, p1, p2) = after[<<p1, p2>>]
    BY Zenon DEF Hook, body
  <1> HIDE DEF after
  <1>9. \A p \in Pairs : after[p] = body(after, p)
    <2> HIDE DEF Pairs
    <2> QED
      BY <1>7, Zenon
  <1>10. \A p \in Pairs : after[p] = IF p \in stop THEN HookEnd(c, p) ELSE after[HookNext(c, p)]
    <2> HIDE DEF Pairs, stop
    <2> QED
      BY <1>5, <1>9, Zenon
  <1>11. stop \subseteq Pairs
    BY DEF HookEnds
  <1>12. /\ \A p \in stop : after[p] = HookEnd(c, p)
         /\ \A p \in Pairs \ stop : after[p] = after[HookNext(c, p)]
    <2> HIDE DEF Pairs, stop
    <2> QED
      BY <1>10, <1>11
  <1> QED
    BY <1>8, <1>12

\* A hook joins the trees of two labels and no others.
LEMMA HookFacts ==
    ASSUME g \in Graphs, NEW c \in Forests, NEW p1 \in L, NEW p2 \in L
    PROVE  /\ Hook(c, p1, p2) \in Forests
           /\ \A X : Closed(Hook(c, p1, p2), X) <=> Closed(c, X) /\ (p1 \in X <=> p2 \in X)
  <1> DEFINE Pairs == L \X L
             Joins(d, p) == /\ d \in Forests
                            /\ \A X : Closed(d, X) <=> Closed(c, X) /\ (p[1] \in X <=> p[2] \in X)
             N == g.n
  <1>1. N \in Nat /\ L = 0 .. N - 1
    BY GraphFacts DEF L
  <1>2. PICK after : /\ \A a \in L : \A b \in L : Hook(c, a, b) = after[<<a, b>>]
                     /\ \A p \in HookEnds(c) : after[p] = HookEnd(c, p)
                     /\ \A p \in Pairs \ HookEnds(c) : after[p] = after[HookNext(c, p)]
    BY HookRuns
  <1>3. ASSUME NEW p \in HookEnds(c) PROVE Joins(after[p], p)
    BY <1>2, HookEndFacts
  <1>4. ASSUME NEW p \in Pairs, p \notin HookEnds(c), Joins(after[HookNext(c, p)], HookNext(c, p))
        PROVE  Joins(after[p], p)
    <2>1. after[p] = after[HookNext(c, p)]
      BY <1>2, <1>4
    <2>2. \A X : Closed(c, X) =>
                ((HookNext(c, p)[1] \in X <=> HookNext(c, p)[2] \in X)
                   <=> (p[1] \in X <=> p[2] \in X))
      BY <1>4, HookNextFacts
    <2> QED
      BY <1>4, <2>1, <2>2
  <1> HIDE DEF Joins, N
  <1> DEFINE V == {k \in 0 .. N : \A p \in Pairs : High(p) <= k => Joins(after[p], p)}
  <1>5. \A p \in Pairs : High(p) \in 0 .. N
    <2> SUFFICES ASSUME NEW p \in Pairs PROVE High(p) \in 0 .. N
      OBVIOUS
    <2>1. High(p) \in L
      BY HighLow
    <2> QED
      BY <1>1, <2>1
  <1>6. \A p \in Pairs : p \notin HookEnds(c) =>
          HookNext(c, p) \in Pairs /\ High(HookNext(c, p)) < High(p)
    BY HookNextFacts
  <1> HIDE DEF Pairs
  <1>7. 0 \in V
    <2>1. ASSUME NEW p \in Pairs, High(p) <= 0 PROVE Joins(after[p], p)
      <3>1. p \in HookEnds(c)
        BY <1>1, <1>5, <1>6, <2>1
      <3> QED
        BY <1>3, <3>1
    <2> QED
      BY <1>1, <2>1
  <1>8. ASSUME NEW k \in 1 .. N, k - 1 \in V PROVE k \in V
    <2>1. ASSUME NEW p \in Pairs, High(p) <= k PROVE Joins(after[p], p)
      <3>1. CASE p \in HookEnds(c)
        BY <1>3, <3>1
      <3>2. CASE p \notin HookEnds(c)
        <4>1. HookNext(c, p) \in Pairs /\ High(HookNext(c, p)) <= k - 1
          BY <1>1, <1>5, <1>6, <2>1, <3>2
        <4>2. Joins(after[HookNext(c, p)], HookNext(c, p))
          BY <1>8, <4>1
        <4> QED
          BY <1>4, <3>2, <4>2
      <3> QED
        BY <3>1, <3>2
    <2>2. k \in 0 .. N
      BY <1>1
    <2> QED
      BY <2>1, <2>2
  <1>9. 0 .. N \subseteq V
    <2> HIDE DEF V
    <2> QED
      BY <1>1, <1>7, <1>8, Induction
  <1> DEFINE p0 == <<p1, p2>>
  <1>10. p0 \in Pairs /\ p0[1] = p1 /\ p0[2] = p2
    BY DEF Pairs
  <1> HIDE DEF p0
  <1>11. Joins(after[p0], p0)
    <2>1. High(p0) \in V
      BY <1>5, <1>9, <1>10
    <2>2. High(p0) <= High(p0)
      BY <1>5, <1>10
    <2> QED
      BY <1>10, <2>1, <2>2
  <1>12. Hook(c, p1, p2) = after[p0]
    BY <1>2 DEF p0
  <1> QED
    BY <1>10, <1>11, <1>12 DEF Joins

\* The way up from a vertex ends at the root of its tree.
Upward(c, p, r) ==
    /\ r \in L /\ r <= p /\ c[r] = r
    /\ \A X : (\A x \in L : x <= p => (x \in X <=> c[x] \in X)) => (p \in X <=> r \in X)

LEMMA RootRuns ==
    ASSUME g \in Graphs, NEW c \in Forests
    PROVE  \E root : /\ \A j \in L : Compress(c, j) = [c EXCEPT ![j] = root[c[j]]]
                     /\ \A p \in L : root[p] = IF c[p] = p THEN p ELSE root[c[p]]
  <1> DEFINE stop == {p \in L : c[p] = p}
             base == [p \in L |-> p]
             rank == [p \in L |-> p]
             Eqn(f) == f = [p \in L |-> IF c[p] = p THEN p ELSE f[c[p]]]
             root == CHOOSE f : Eqn(f)
  <1>1. g.n \in Nat /\ L = 0 .. g.n - 1
    BY GraphFacts DEF L
  <1>2. c \in [L -> L] /\ \A x \in L : c[x] <= x
    BY DEF Forests
  <1>3. Descends(c, stop, rank, L, g.n)
    <2>1. rank \in [L -> 0 .. g.n]
      BY <1>1
    <2>2. ASSUME NEW p \in L, p \notin stop PROVE rank[c[p]] < rank[p]
      <3>1. c[p] # p /\ c[p] <= p /\ c[p] \in L
        BY <1>2, <2>2
      <3>2. c[p] < p
        BY <1>1, <3>1
      <3> QED
        BY <3>1, <3>2
    <2> HIDE DEF rank, stop
    <2> QED
      BY <1>2, <2>1, <2>2 DEF Descends
  <1>4. base \in [L -> L]
    OBVIOUS
  <1>5. PICK f : Unfolds(f, base, c, stop, L, L)
    <2> HIDE DEF base, stop, rank
    <2> QED
      BY <1>1, <1>3, <1>4, TailRecursion
  <1>6. Eqn(f)
    <2>1. /\ f \in [L -> L]
          /\ \A p \in L : f[p] = IF p \in stop THEN base[p] ELSE f[c[p]]
      BY <1>5 DEF Unfolds
    <2>2. \A p \in L : f[p] = IF c[p] = p THEN p ELSE f[c[p]]
      BY <2>1
    <2> HIDE DEF base, stop
    <2> QED
      BY <2>1, <2>2
  <1>7. Eqn(root)
    <2> HIDE DEF Eqn
    <2> QED
      BY <1>6
  <1>8. \A j \in L : Compress(c, j) = [c EXCEPT ![j] = root[c[j]]]
    BY Zenon DEF Compress
  <1> HIDE DEF root
  <1>9. \A p \in L : root[p] = IF c[p] = p THEN p ELSE root[c[p]]
    BY <1>7, Zenon
  <1> QED
    BY <1>8, <1>9

LEMMA RootFacts ==
    ASSUME g \in Graphs, NEW c \in Forests, NEW j \in L
    PROVE  \E r : Upward(c, c[j], r) /\ Compress(c, j) = [c EXCEPT ![j] = r]
  <1>1. g.n \in Nat /\ L = 0 .. g.n - 1
    BY GraphFacts DEF L
  <1>2. c \in [L -> L] /\ \A x \in L : c[x] <= x
    BY DEF Forests
  <1>3. PICK root : /\ \A i \in L : Compress(c, i) = [c EXCEPT ![i] = root[c[i]]]
                    /\ \A p \in L : root[p] = IF c[p] = p THEN p ELSE root[c[p]]
    BY RootRuns
  <1> DEFINE N == g.n
             V == {k \in 0 .. N : \A p \in L : p <= k => Upward(c, p, root[p])}
  <1>4. ASSUME NEW p \in L, c[p] = p PROVE Upward(c, p, root[p])
    <2>1. root[p] = p /\ p <= p
      BY <1>1, <1>3, <1>4
    <2> QED
      BY <1>4, <2>1 DEF Upward
  <1>5. ASSUME NEW p \in L, c[p] # p, Upward(c, c[p], root[c[p]])
        PROVE  Upward(c, p, root[p])
    <2> DEFINE r == root[p]
    <2>1. r = root[c[p]] /\ c[p] \in L /\ c[p] <= p
      BY <1>2, <1>3, <1>5
    <2> HIDE DEF r
    <2>2. /\ r \in L /\ r <= c[p] /\ c[r] = r
          /\ \A X : (\A x \in L : x <= c[p] => (x \in X <=> c[x] \in X)) =>
                      (c[p] \in X <=> r \in X)
      BY <1>5, <2>1 DEF Upward
    <2>3. r <= p
      BY <1>1, <2>1, <2>2
    <2>4. ASSUME NEW X, \A x \in L : x <= p => (x \in X <=> c[x] \in X)
          PROVE  p \in X <=> r \in X
      <3>1. \A x \in L : x <= c[p] => x <= p
        BY <1>1, <2>1
      <3>2. c[p] \in X <=> r \in X
        BY <2>2, <2>4, <3>1
      <3>3. p <= p
        BY <1>1
      <3> QED
        BY <2>4, <3>2, <3>3
    <2> QED
      BY <2>2, <2>3, <2>4 DEF Upward, r
  <1>6. 0 \in V
    <2>1. ASSUME NEW p \in L, p <= 0 PROVE Upward(c, p, root[p])
      <3>1. c[p] = p
        BY <1>1, <1>2, <2>1
      <3> QED
        BY <1>4, <3>1
    <2> QED
      BY <1>1, <2>1
  <1>7. ASSUME NEW k \in 1 .. N, k - 1 \in V PROVE k \in V
    <2>1. ASSUME NEW p \in L, p <= k PROVE Upward(c, p, root[p])
      <3>1. CASE c[p] = p
        BY <1>4, <3>1
      <3>2. CASE c[p] # p
        <4>1. c[p] \in L /\ c[p] <= k - 1
          BY <1>1, <1>2, <2>1, <3>2
        <4>2. Upward(c, c[p], root[c[p]])
          BY <1>7, <4>1
        <4> QED
          BY <1>5, <3>2, <4>2
      <3> QED
        BY <3>1, <3>2
    <2>2. k \in 0 .. N
      BY <1>1
    <2> QED
      BY <2>1, <2>2
  <1>8. 0 .. N \subseteq V
    <2> HIDE DEF V
    <2> QED
      BY <1>1, <1>6, <1>7, Induction
  <1>9. Upward(c, c[j], root[c[j]])
    <2>1. c[j] \in L
      BY <1>2
    <2>2. c[j] \in V /\ c[j] <= c[j]
      BY <1>1, <1>8, <2>1
    <2> QED
      BY <2>1, <2>2
  <1> QED
    BY <1>3, <1>9

\* Compressing one vertex leaves the trees, and the other labels.
LEMMA CompressFacts ==
    ASSUME g \in Graphs, NEW c \in Forests, NEW j \in L
    PROVE  /\ Compress(c, j) \in Forests
           /\ \A X : Closed(Compress(c, j), X) <=> Closed(c, X)
           /\ \A x \in L : x # j => Compress(c, j)[x] = c[x]
           /\ c[Compress(c, j)[j]] = Compress(c, j)[j]
  <1> DEFINE d == Compress(c, j)
  <1>1. g.n \in Nat /\ L = 0 .. g.n - 1
    BY GraphFacts DEF L
  <1>2. c \in [L -> L] /\ (\A x \in L : c[x] <= x) /\ c[j] \in L
    BY DEF Forests
  <1>3. PICK r : Upward(c, c[j], r) /\ d = [c EXCEPT ![j] = r]
    BY RootFacts
  <1>4. /\ r \in L /\ r <= c[j] /\ c[r] = r
        /\ \A X : (\A x \in L : x <= c[j] => (x \in X <=> c[x] \in X)) =>
                    (c[j] \in X <=> r \in X)
    BY <1>3 DEF Upward
  <1> HIDE DEF d
  <1>5. d \in [L -> L] /\ d[j] = r /\ \A x \in L : x # j => d[x] = c[x]
    BY <1>2, <1>3, <1>4
  <1>6. d \in Forests
    <2>1. r <= j
      BY <1>1, <1>2, <1>4
    <2>2. \A x \in L : d[x] <= x
      BY <1>2, <1>5, <2>1
    <2> QED
      BY <1>5, <2>2 DEF Forests
  <1>7. ASSUME NEW X, Closed(c, X) PROVE Closed(d, X)
    <2>1. \A x \in L : x \in X <=> c[x] \in X
      BY <1>7 DEF Closed
    <2>2. j \in X <=> r \in X
      BY <1>2, <1>4, <2>1
    <2> QED
      BY <1>5, <2>1, <2>2 DEF Closed
  <1>8. ASSUME NEW X, Closed(d, X) PROVE Closed(c, X)
    <2>1. \A x \in L : x \in X <=> d[x] \in X
      BY <1>8 DEF Closed
    <2>2. j \in X <=> c[j] \in X
      <3>1. CASE c[j] = j
        BY <3>1
      <3>2. CASE c[j] # j
        <4>1. \A x \in L : x <= c[j] => x # j
          BY <1>1, <1>2, <3>2
        <4>2. \A x \in L : x <= c[j] => (x \in X <=> c[x] \in X)
          BY <1>5, <2>1, <4>1
        <4>3. c[j] \in X <=> r \in X
          BY <1>4, <4>2
        <4> QED
          BY <1>5, <2>1, <4>3
      <3> QED
        BY <3>1, <3>2
    <2> QED
      BY <1>5, <2>1, <2>2 DEF Closed
  <1>9. c[d[j]] = d[j]
    BY <1>4, <1>5
  <1> QED
    BY <1>5, <1>6, <1>7, <1>8, <1>9 DEF d

\* The pass over the edges joins the trees of their ends and no others.
LEMMA HookAllFacts ==
    ASSUME g \in Graphs, NEW q \in Seq(L \X L), NEW c \in Forests
    PROVE  /\ HookAll(c, q) \in Forests
           /\ \A X : Closed(HookAll(c, q), X) <=>
                       Closed(c, X) /\ \A e \in ToSet(q) : e[1] \in X <=> e[2] \in X
  <1> DEFINE N == Len(q)
             S == Forests
             do(d, e) == Hook(d, d[e[1]], d[e[2]])
             step == [i \in 1 .. N |-> [d \in S |-> do(d, q[i])]]
             Eqn(f) == f = [i \in 0 .. N |->
                              IF i = 0 THEN c ELSE do(f[i - 1], q[i])]
             after == CHOOSE f : Eqn(f)
             Ways(i, X) == \A k \in 1 .. i : q[k][1] \in X <=> q[k][2] \in X
  <1>1. N \in Nat /\ \A i \in 1 .. N : q[i] \in L \X L /\ q[i][1] \in L /\ q[i][2] \in L
    OBVIOUS
  <1>2. ASSUME NEW i \in 1 .. N, NEW d \in S
        PROVE  /\ do(d, q[i]) \in S
               /\ \A X : Closed(do(d, q[i]), X)
                           <=> Closed(d, X) /\ (q[i][1] \in X <=> q[i][2] \in X)
    <2> DEFINE u == q[i][1]
               v == q[i][2]
    <2>1. u \in L /\ v \in L
      BY <1>1
    <2> HIDE DEF u, v
    <2>2. d[u] \in L /\ d[v] \in L
      BY <2>1 DEF Forests
    <2>3. /\ Hook(d, d[u], d[v]) \in Forests
          /\ \A X : Closed(Hook(d, d[u], d[v]), X)
                      <=> Closed(d, X) /\ (d[u] \in X <=> d[v] \in X)
      BY <2>2, HookFacts
    <2>4. \A X : Closed(d, X) => (d[u] \in X <=> u \in X) /\ (d[v] \in X <=> v \in X)
      BY <2>1 DEF Closed
    <2>5. \A X : Closed(Hook(d, d[u], d[v]), X) <=> Closed(d, X) /\ (u \in X <=> v \in X)
      BY <2>3, <2>4
    <2> QED
      BY <2>3, <2>5 DEF u, v
  <1>3. Steps(step, N, S)
    <2> HIDE DEF do, S
    <2> QED
      BY <1>2 DEF Steps
  <1>4. PICK h : Follows(h, step, c, N, S)
    <2> HIDE DEF step, N
    <2> QED
      BY <1>1, <1>3, Recursion
  <1> HIDE DEF S, do
  <1>5. /\ h \in [0 .. N -> S] /\ h[0] = c
        /\ \A i \in 1 .. N : h[i] = do(h[i - 1], q[i])
    <2>1. /\ h \in [0 .. N -> S] /\ h[0] = c
          /\ \A i \in 1 .. N : h[i] = step[i][h[i - 1]]
      BY <1>4 DEF Follows
    <2>2. \A i \in 1 .. N : i - 1 \in 0 .. N
      BY <1>1
    <2> QED
      BY <2>1, <2>2
  <1>6. Eqn(h)
    <2>1. ASSUME NEW i \in 0 .. N
          PROVE  h[i] = IF i = 0 THEN c ELSE do(h[i - 1], q[i])
      <3>1. i # 0 => i \in 1 .. N
        BY <1>1
      <3> QED
        BY <1>5, <3>1
    <2> QED
      BY <1>5, <2>1
  <1>7. Eqn(after)
    <2> HIDE DEF Eqn
    <2> QED
      BY <1>6
  <1>8. HookAll(c, q) = after[N]
    BY DEF HookAll, ForEach, do
  <1> HIDE DEF after
  <1>9. \A i \in 0 .. N : after[i] = IF i = 0 THEN c ELSE do(after[i - 1], q[i])
    BY <1>7, Zenon
  <1>10. after[0] = c /\ \A i \in 1 .. N : after[i] = do(after[i - 1], q[i])
    <2>1. 0 \in 0 .. N /\ \A i \in 1 .. N : i \in 0 .. N /\ i # 0
      BY <1>1
    <2> QED
      BY <1>9, <2>1
  <1> DEFINE V == {i \in 0 .. N : /\ after[i] \in S
                                  /\ \A X : Closed(after[i], X) <=> Closed(c, X) /\ Ways(i, X)}
  <1>11. 0 \in V
    <2>1. \A X : Ways(0, X)
      OBVIOUS
    <2>2. 0 \in 0 .. N /\ c \in S
      BY <1>1 DEF S
    <2> HIDE DEF Ways, N
    <2> QED
      BY <1>10, <2>1, <2>2
  <1>12. ASSUME NEW i \in 1 .. N, i - 1 \in V PROVE i \in V
    <2>1. /\ after[i - 1] \in S /\ i \in 0 .. N
          /\ \A X : Closed(after[i - 1], X) <=> Closed(c, X) /\ Ways(i - 1, X)
      BY <1>1, <1>12
    <2>2. \A X : Ways(i, X) <=> Ways(i - 1, X) /\ (q[i][1] \in X <=> q[i][2] \in X)
      <3>1. 1 .. i = (1 .. i - 1) \cup {i}
        BY <1>1
      <3> QED
        BY <3>1
    <2> HIDE DEF Ways, N
    <2>3. /\ after[i] \in S
          /\ \A X : Closed(after[i], X)
                      <=> Closed(after[i - 1], X) /\ (q[i][1] \in X <=> q[i][2] \in X)
      BY <1>2, <1>10, <2>1
    <2>4. \A X : Closed(after[i], X) <=> Closed(c, X) /\ Ways(i, X)
      BY <2>1, <2>2, <2>3
    <2> QED
      BY <2>1, <2>3, <2>4
  <1>13. N \in V
    <2>1. 0 .. N \subseteq V
      <3> HIDE DEF V, N
      <3> QED
        BY <1>1, <1>11, <1>12, Induction
    <2> HIDE DEF V
    <2> QED
      BY <1>1, <2>1
  <1>14. \A X : Ways(N, X) <=> \A e \in ToSet(q) : e[1] \in X <=> e[2] \in X
    <2>1. ToSet(q) = {q[k] : k \in 1 .. N}
      BY <1>1 DEF ToSet
    <2> QED
      BY <2>1
  <1> HIDE DEF Ways, N
  <1> QED
    BY <1>8, <1>13, <1>14 DEF S

\* The second loop leaves the trees, with every label at its root.
LEMMA CompressAllFacts ==
    ASSUME g \in Graphs, NEW c \in Forests
    PROVE  /\ CompressAll(c) \in Forests
           /\ \A X : Closed(CompressAll(c), X) <=> Closed(c, X)
           /\ \A x \in L : CompressAll(c)[CompressAll(c)[x]] = CompressAll(c)[x]
  <1> DEFINE N == g.n
             S == Forests
             q == [i \in 1 .. N |-> i - 1]
             step == [i \in 1 .. N |-> [d \in S |-> Compress(d, i - 1)]]
             Eqn(f) == f = [i \in 0 .. Len(q) |->
                              IF i = 0 THEN c ELSE Compress(f[i - 1], q[i])]
             after == CHOOSE f : Eqn(f)
  <1>1. N \in Nat /\ L = 0 .. N - 1 /\ \A i \in 1 .. N : i - 1 \in L /\ i - 1 \in 0 .. N
    BY GraphFacts DEF L
  <1>2. Len(q) = N /\ \A i \in 1 .. N : q[i] = i - 1
    BY <1>1
  <1>3. Steps(step, N, S)
    <2>1. \A i \in 1 .. N : \A d \in S : Compress(d, i - 1) \in S
      BY <1>1, CompressFacts
    <2> HIDE DEF S, N
    <2> QED
      BY <2>1 DEF Steps
  <1>4. PICK h : Follows(h, step, c, N, S)
    <2> HIDE DEF step, N
    <2> QED
      BY <1>1, <1>3, Recursion
  <1> HIDE DEF S, N, q
  <1>5. /\ h \in [0 .. N -> S] /\ h[0] = c
        /\ \A i \in 1 .. N : h[i] = Compress(h[i - 1], i - 1)
    <2>1. /\ h \in [0 .. N -> S] /\ h[0] = c
          /\ \A i \in 1 .. N : h[i] = step[i][h[i - 1]]
      BY <1>4 DEF Follows
    <2> QED
      BY <1>1, <2>1
  <1>6. Eqn(h)
    <2>1. ASSUME NEW i \in 0 .. N
          PROVE  h[i] = IF i = 0 THEN c ELSE Compress(h[i - 1], q[i])
      <3>1. i # 0 => i \in 1 .. N
        BY <1>1
      <3> QED
        BY <1>2, <1>5, <3>1
    <2> QED
      BY <1>2, <1>5, <2>1
  <1>7. Eqn(after)
    <2> HIDE DEF Eqn
    <2> QED
      BY <1>6
  <1>8. CompressAll(c) = after[N]
    <2>1. CompressAll(c) = after[Len(q)]
      BY DEF CompressAll, ForEach, q, N
    <2> QED
      BY <1>2, <2>1
  <1> HIDE DEF after
  <1>9. \A i \in 0 .. N : after[i] = IF i = 0 THEN c ELSE Compress(after[i - 1], q[i])
    BY <1>2, <1>7, Zenon
  <1>10. after[0] = c /\ \A i \in 1 .. N : after[i] = Compress(after[i - 1], i - 1)
    <2>1. 0 \in 0 .. N /\ \A i \in 1 .. N : i \in 0 .. N /\ i # 0
      BY <1>1
    <2> QED
      BY <1>2, <1>9, <2>1
  <1> DEFINE Flat(d, i) == \A x \in L : x < i => d[d[x]] = d[x]
             V == {i \in 0 .. N : /\ after[i] \in S
                                  /\ \A X : Closed(after[i], X) <=> Closed(c, X)
                                  /\ Flat(after[i], i)}
  <1>11. 0 \in V
    <2>1. 0 \in 0 .. N /\ c \in S /\ \A x \in L : ~(x < 0)
      BY <1>1 DEF S
    <2> QED
      BY <1>10, <2>1
  <1>12. ASSUME NEW i \in 1 .. N, i - 1 \in V PROVE i \in V
    <2> DEFINE b == after[i - 1]
               d == after[i]
               j == i - 1
    <2>1. /\ b \in Forests /\ i \in 0 .. N /\ j \in L /\ Flat(b, j)
          /\ (\A X : Closed(b, X) <=> Closed(c, X))
          /\ d = Compress(b, j)
      BY <1>1, <1>10, <1>12 DEF S
    <2>2. \A x \in L : x < i <=> x < j \/ x = j
      BY <1>1
    <2> HIDE DEF b, d, j
    <2>3. /\ d \in Forests /\ (\A X : Closed(d, X) <=> Closed(b, X))
          /\ (\A x \in L : x # j => d[x] = b[x]) /\ b[d[j]] = d[j]
      BY <2>1, CompressFacts
    <2>4. /\ d \in [L -> L] /\ b \in [L -> L]
          /\ \A x \in L : d[x] <= x /\ b[x] <= x
      BY <2>1, <2>3 DEF Forests
    <2>5. ASSUME NEW x \in L, x < j PROVE d[d[x]] = d[x]
      <3>1. x # j /\ d[x] = b[x] /\ b[x] \in L /\ b[x] # j
        <4>1. b[x] \in L /\ b[x] <= x
          BY <2>4
        <4>2. x \in Nat /\ j \in Nat /\ b[x] \in Nat
          BY <1>1, <2>1, <4>1
        <4>3. x # j /\ b[x] # j
          BY <2>5, <4>1, <4>2
        <4> QED
          BY <2>3, <4>1, <4>3
      <3>2. d[b[x]] = b[b[x]] /\ b[b[x]] = b[x]
        BY <2>1, <2>3, <2>5, <3>1
      <3> QED
        BY <3>1, <3>2
    <2>6. d[d[j]] = d[j]
      <3>1. d[j] \in L
        BY <2>1, <2>4
      <3>2. CASE d[j] = j
        BY <3>2
      <3>3. CASE d[j] # j
        BY <2>3, <3>1, <3>3
      <3> QED
        BY <3>2, <3>3
    <2>7. Flat(d, i)
      BY <2>2, <2>5, <2>6
    <2>8. i \in 0 .. N /\ d \in S /\ \A X : Closed(d, X) <=> Closed(c, X)
      BY <2>1, <2>3 DEF S
    <2> HIDE DEF Flat
    <2> QED
      BY <2>7, <2>8 DEF d
  <1>13. N \in V
    <2>1. 0 .. N \subseteq V
      <3> HIDE DEF V
      <3> QED
        BY <1>1, <1>11, <1>12, Induction
    <2> HIDE DEF V
    <2> QED
      BY <1>1, <2>1
  <1>14. \A x \in L : x < N
    BY <1>1
  <1> QED
    BY <1>8, <1>13, <1>14 DEF S

\* A component is closed, and is in every set that edges do not leave.
LEMMA ComponentClosed ==
    ASSUME g \in Graphs, NEW v \in L
    PROVE  /\ v \in Component(v) /\ Component(v) \subseteq L
           /\ \A u \in Component(v) : Out(u) \subseteq Component(v)
  <1> DEFINE B == Reach(v)
             n == g.n
             N == num_vertices
  <1>1. N \in Nat /\ n \in Nat \ {0} /\ n <= N
    BY GraphFacts
  <1>2. PICK i \in 1 .. n : B[i] = B[i - 1]
    <2>1. n \in 0 .. N /\ ~(n < n)
      BY <1>1
    <2> QED
      BY <2>1, ReachSize
  <1>3. /\ i - 1 \in 0 .. N /\ i \in 1 .. N /\ i - 1 <= N
        /\ N \in 0 .. N /\ 0 \in 0 .. N /\ 0 <= N
    BY <1>1
  <1>4. Grow(B[i - 1]) = B[i - 1]
    BY <1>2, <1>3, ReachFacts
  <1>5. B[N] = B[i - 1]
    BY <1>3, <1>4, ReachStable
  <1>6. v \in B[N] /\ B[N] \subseteq L
    <2>1. B[0] = {v} /\ B[0] \subseteq B[N] /\ B[N] \in SUBSET L
      BY <1>3, ReachFacts, ReachGrows
    <2> QED
      BY <2>1
  <1>7. Component(v) = B[N]
    BY DEF Component
  <1> QED
    BY <1>4, <1>5, <1>6, <1>7 DEF Grow

LEMMA ComponentLeast ==
    ASSUME g \in Graphs, NEW v \in L, NEW X, v \in X,
           \A u \in L : u \in X => Out(u) \subseteq X
    PROVE  Component(v) \subseteq X
  <1> DEFINE B == Reach(v)
             N == num_vertices
             V == {i \in 0 .. N : B[i] \subseteq X}
  <1>1. N \in Nat
    BY GraphFacts
  <1>2. /\ B \in [0 .. N -> SUBSET L] /\ B[0] = {v}
        /\ \A i \in 1 .. N : B[i] = Grow(B[i - 1])
    BY ReachFacts
  <1> HIDE DEF B
  <1>3. 0 \in V
    BY <1>1, <1>2
  <1>4. ASSUME NEW i \in 1 .. N, i - 1 \in V PROVE i \in V
    <2>1. i \in 0 .. N /\ i - 1 \in 0 .. N
      BY <1>1
    <2>2. B[i - 1] \subseteq X /\ B[i - 1] \subseteq L
      BY <1>2, <1>4, <2>1
    <2>3. Grow(B[i - 1]) \subseteq X
      BY <2>2 DEF Grow
    <2> QED
      BY <1>2, <2>1, <2>3
  <1>5. N \in V
    <2>1. 0 .. N \subseteq V
      <3> HIDE DEF V, N
      <3> QED
        BY <1>1, <1>3, <1>4, Induction
    <2> HIDE DEF V
    <2> QED
      BY <1>1, <2>1
  <1>6. Component(v) = B[N]
    BY DEF Component, B
  <1> QED
    BY <1>5, <1>6

\* The trees are those that the edges join.
Joined(c) ==
    /\ c \in Forests
    /\ \A X \in SUBSET L : Closed(c, X) <=> \A e \in Arcs(L) : e[1] \in X <=> e[2] \in X
Labelled(c) == \A u, v \in L : c[u] = c[v] <=> v \in Component(u)

\* With every label at its root, the trees are the components,
LEMMA JoinedLabels ==
    ASSUME g \in Graphs, Undirected, NEW c, Joined(c), \A x \in L : c[c[x]] = c[x]
    PROVE  Labelled(c)
  <1>1. c \in [L -> L]
    BY DEF Joined, Forests
  <1>2. \A X \in SUBSET L : Closed(c, X) <=> \A e \in Arcs(L) : e[1] \in X <=> e[2] \in X
    BY DEF Joined
  <1>3. ASSUME NEW u \in L, NEW v \in L, c[u] = c[v] PROVE v \in Component(u)
    <2> DEFINE X == Component(u)
    <2>1. u \in X /\ X \in SUBSET L /\ \A w \in X : Out(w) \subseteq X
      BY ComponentClosed
    <2> HIDE DEF X
    <2>2. ASSUME NEW e \in Arcs(L) PROVE e[1] \in X <=> e[2] \in X
      <3>1. e[1] \in L /\ e[2] \in L /\ e[2] \in Out(e[1])
        BY DEF Arcs
      <3>2. e[1] \in Out(e[2])
        BY <3>1 DEF Undirected, Out
      <3> QED
        BY <2>1, <3>1, <3>2
    <2>3. \A x \in L : x \in X <=> c[x] \in X
      BY <1>2, <2>1, <2>2 DEF Closed
    <2> QED
      BY <1>3, <2>1, <2>3 DEF X
  <1>4. ASSUME NEW u \in L, NEW v \in Component(u), v \in L PROVE c[u] = c[v]
    <2> DEFINE X == {x \in L : c[x] = c[u]}
    <2>1. X \in SUBSET L /\ u \in X
      OBVIOUS
    <2>2. \A x \in L : x \in X <=> c[x] \in X
      BY <1>1
    <2> HIDE DEF X
    <2>3. \A e \in Arcs(L) : e[1] \in X <=> e[2] \in X
      BY <1>2, <2>1, <2>2 DEF Closed
    <2>4. ASSUME NEW w \in L, w \in X PROVE Out(w) \subseteq X
      <3>1. Out(w) \subseteq L
        BY GraphFacts
      <3>2. ASSUME NEW t \in Out(w) PROVE t \in X
        <4>1. <<w, t>> \in Arcs(L)
          BY <3>1 DEF Arcs
        <4> QED
          BY <2>3, <2>4, <4>1
      <3> QED
        BY <3>2
    <2>5. Component(u) \subseteq X
      BY <2>1, <2>4, ComponentLeast
    <2> QED
      BY <2>5 DEF X
  <1> QED
    BY <1>3, <1>4 DEF Labelled

\* and there are as many labels as components.
LEMMA LabelsCount ==
    ASSUME g \in Graphs, NEW c \in [L -> L], Labelled(c), \A x \in L : c[c[x]] = c[x]
    PROVE  Cardinality(Range(c)) = Cardinality({Component(v) : v \in L})
  <1> DEFINE R == Range(c)
             T == {Component(v) : v \in L}
             f == [r \in R |-> Component(r)]
  <1>1. R = {c[x] : x \in L} /\ R \subseteq L /\ \A r \in R : c[r] = r
    BY DEF Range
  <1>2. \A u, v \in L : c[u] = c[v] <=> v \in Component(u)
    BY DEF Labelled
  <1>3. \A v \in L : Component(v) \subseteq L /\ v \in Component(v)
    BY ComponentClosed
  <1> HIDE DEF R
  <1>4. f \in [R -> T]
    BY <1>1
  <1>5. ASSUME NEW r \in R, NEW s \in R, f[r] = f[s] PROVE r = s
    <2>1. r \in L /\ s \in L /\ Component(r) = Component(s)
      BY <1>1, <1>5
    <2>2. s \in Component(r)
      BY <1>3, <2>1
    <2> QED
      BY <1>1, <1>2, <2>1, <2>2
  <1>6. ASSUME NEW t \in T PROVE \E r \in R : f[r] = t
    <2>1. PICK v \in L : t = Component(v)
      OBVIOUS
    <2>2. c[v] \in R /\ c[v] \in L /\ c[c[v]] = c[v]
      BY <1>1, <2>1
    <2>3. \A w \in L : w \in Component(v) <=> w \in Component(c[v])
      BY <1>2, <2>1, <2>2
    <2>4. Component(v) = Component(c[v])
      BY <1>3, <2>1, <2>2, <2>3
    <2> QED
      BY <2>1, <2>2, <2>4
  <1> HIDE DEF f, T
  <1>7. f \in Surjection(R, T) /\ f \in Injection(R, T)
    <2>1. f \in Surjection(R, T)
      BY <1>4, <1>6, Fun_IsSurj
    <2>2. f \in Injection(R, T)
      BY <1>4, <1>5, Fun_IsInj
    <2> QED
      BY <2>1, <2>2
  <1>8. IsFiniteSet(R)
    BY <1>1, GraphFacts, FS_Subset
  <1>9. Cardinality(T) = Cardinality(R)
    BY <1>7, <1>8, FS_Surjection
  <1> QED
    BY <1>9 DEF R, T

ComponentForms == {"test_cc2", "test_cc3", "test_cc5"}

LEMMA RunComponents ==
    ASSUME Run, alg \in ComponentForms
    PROVE  Components(Edges) \/ Components(ArrayEdges)
  <1>1. /\ ~test_bfs /\ ~test_bfs2 /\ ~test_bfs_iterators
        /\ ~bellman_ford2 /\ ~bellman_ford_iterators /\ ~dijkstra
    BY DEF ComponentForms, test_bfs, test_bfs2, test_bfs_iterators, bellman_ford2,
           bellman_ford_iterators, dijkstra
  <1>2. ~page_rank2 /\ ~page_rank_iterators
    BY DEF ComponentForms, page_rank2, page_rank_iterators
  <1>3. ~test_one_hop /\ ~test_two_hop /\ ~test_two_hop_l /\ ~avg_degree
    BY DEF ComponentForms, test_one_hop, test_two_hop, test_two_hop_l, avg_degree
  <1>4. ~BFS_with_edge_map /\ ~CC_T /\ ~SSSP_BF
    BY DEF ComponentForms, BFS_with_edge_map, CC_T, SSSP_BF
  <1> QED
    BY <1>1, <1>2, <1>3, <1>4 DEF Run, test_cc2, test_cc_iterators

\* What connected components has done: the trees are first the single vertices,
\* then those the edges join, and at last their labels are the components.
ComponentInv ==
    alg \in ComponentForms =>
        /\ pc \in {"call", "loop", "check", "done"}
        /\ pc = "loop" => val = [v \in L |-> v]
        /\ pc = "check" => Joined(val)
        /\ pc = "done" =>
             /\ Labelled(val)
             /\ result = Cardinality({Component(v) : v \in L}) + Missing

LEMMA ComponentStep ==
    ASSUME CallInv, ComponentInv, [Next]_vars
    PROVE  ComponentInv'
  <1>1. alg' = alg /\ g' = g
    BY DEF Next, Returned, vars, call
  <1>2. /\ L' = L /\ (\A v : Component(v)' = Component(v)) /\ Missing' = Missing
        /\ Joined(val)' = Joined(val') /\ Labelled(val)' = Labelled(val')
    BY <1>1 DEF L, Component, Reach, Missing, Joined, Labelled, Forests, Closed, Arcs, Out
  <1> SUFFICES ASSUME alg \in ComponentForms
               PROVE  /\ pc' \in {"call", "loop", "check", "done"}
                      /\ pc' = "loop" => val' = [v \in L |-> v]
                      /\ pc' = "check" => Joined(val')
                      /\ pc' = "done" =>
                           /\ Labelled(val')
                           /\ result' = Cardinality({Component(v) : v \in L}) + Missing
    BY <1>1, <1>2 DEF ComponentInv, ComponentForms
  <1>3. /\ pc \in {"call", "loop", "check", "done"}
        /\ pc = "loop" => val = [v \in L |-> v]
        /\ pc = "check" => Joined(val)
        /\ pc = "done" =>
             /\ Labelled(val)
             /\ result = Cardinality({Component(v) : v \in L}) + Missing
    BY DEF ComponentInv
  <1>4. CASE UNCHANGED vars
    BY <1>3, <1>4 DEF vars
  <1>5. CASE Run
    <2>1. g \in Graphs /\ Undirected
      BY DEF CallInv, ComponentForms, Connectivity
    <2>2. PICK q \in Seq(L \X L) : ToSet(q) = Arcs(L) /\ Components(q)
      <3>1. CASE Components(Edges)
        BY <2>1, <3>1, EdgesFacts
      <3>2. CASE Components(ArrayEdges)
        BY <2>1, <3>2, EdgesFacts
      <3> QED
        BY <1>5, <3>1, <3>2, RunComponents
    <2>3. CASE pc = "call"
      <3>1. pc' = "loop" /\ val' = [v \in L |-> v]
        BY <2>2, <2>3 DEF Components, Begin
      <3> QED
        BY <3>1
    <2>4. CASE pc = "loop"
      <3> DEFINE c == [v \in L |-> v]
      <3>1. pc' = "check" /\ val' = HookAll(c, q)
        BY <1>3, <2>2, <2>4 DEF Components, Begin, Goto
      <3>2. c \in Forests /\ \A X : Closed(c, X)
        <4>1. \A x \in L : x <= x
          BY DEF L
        <4> QED
          BY <4>1 DEF Forests, Closed
      <3> HIDE DEF c
      <3>3. Joined(val')
        BY <2>1, <2>2, <3>1, <3>2, HookAllFacts DEF Joined
      <3> QED
        BY <3>1, <3>3
    <2>5. CASE pc = "check"
      <3>1. pc' = "done" /\ val' = CompressAll(val)
            /\ result' = Cardinality(Range(val')) + Missing
        BY <2>2, <2>5 DEF Components, Begin, Return
      <3>2. val \in Forests /\ Joined(val)
        BY <1>3, <2>5 DEF Joined
      <3>3. /\ val' \in Forests /\ (\A X : Closed(val', X) <=> Closed(val, X))
            /\ \A x \in L : val'[val'[x]] = val'[x]
        BY <2>1, <3>1, <3>2, CompressAllFacts
      <3>4. Joined(val') /\ val' \in [L -> L]
        BY <3>2, <3>3 DEF Joined, Forests
      <3>5. Labelled(val')
        BY <2>1, <3>3, <3>4, JoinedLabels
      <3>6. Cardinality(Range(val')) = Cardinality({Component(v) : v \in L})
        BY <2>1, <3>3, <3>4, <3>5, LabelsCount
      <3> QED
        BY <3>1, <3>5, <3>6
    <2>6. pc # "done"
      BY <2>2 DEF Components, Begin
    <2> QED
      BY <1>3, <2>3, <2>4, <2>5, <2>6
  <1> QED
    BY <1>4, <1>5 DEF Next, Returned

\* On every undirected graph the loops over the edges give two vertices one label
\* if and only if a path joins them, and count the components; the order of the
\* edges and the labels that are hooked to do not matter (cc.h:11-196).
LEMMA HookedExact == Spec => [](alg \notin EdgeMaps => ComponentsExact)
  <1>1. Init => ComponentInv
    BY DEF Init, ComponentInv
  <1>2. CallInv /\ ComponentInv /\ [Next]_vars => ComponentInv'
    BY ComponentStep
  <1>3. ComponentInv => (alg \notin EdgeMaps => ComponentsExact)
    BY DEF ComponentInv, ComponentsExact, Ended, ComponentForms, Connectivity, EdgeMaps,
           Labelled
  <1> QED
    BY <1>1, <1>2, <1>3, CallInvariant, PTL DEF Spec

-----------------------------------------------------------------------------
(* The queries count each path once.                                       *)

LEMMA ImageCount ==
    ASSUME NEW A, IsFiniteSet(A), NEW T, NEW F \in [A -> T],
           \A a, b \in A : F[a] = F[b] => a = b,
           \A t \in T : \E a \in A : F[a] = t
    PROVE  IsFiniteSet(T) /\ Cardinality(T) = Cardinality(A)
  <1>1. F \in Surjection(A, T)
    BY Fun_IsSurj
  <1>2. F \in Injection(A, T)
    BY Fun_IsInj
  <1> QED
    BY <1>1, <1>2, FS_Surjection

LEMMA OutCount ==
    ASSUME g \in Graphs, NEW u \in L
    PROVE  IsFiniteSet(Out(u)) /\ Cardinality(Out(u)) = Len(g.adj[u])
  <1> DEFINE q == g.adj[u]
             n == Len(q)
  <1>1. q \in Seq(L) /\ n \in Nat
    BY GraphFacts
  <1>2. IsInjective(q)
    <2>1. u \in Capacity
      BY GraphFacts
    <2> QED
      BY <2>1, GraphsAssumption
  <1>3. Out(u) = {q[j] : j \in 1 .. n} /\ DOMAIN q = 1 .. n
    BY <1>1 DEF Out, ToSet
  <1>4. q \in [1 .. n -> Out(u)]
    BY <1>1, <1>3
  <1>5. \A a, b \in 1 .. n : q[a] = q[b] => a = b
    BY <1>2, <1>3 DEF IsInjective
  <1>6. \A t \in Out(u) : \E a \in 1 .. n : q[a] = t
    BY <1>3
  <1>7. IsFiniteSet(1 .. n) /\ Cardinality(1 .. n) = n
    BY <1>1, FS_Interval
  <1> HIDE DEF q, n
  <1>8. IsFiniteSet(Out(u)) /\ Cardinality(Out(u)) = Cardinality(1 .. n)
    BY <1>4, <1>5, <1>6, <1>7, ImageCount
  <1> QED
    BY <1>7, <1>8 DEF n, q

LEMMA DisjointCount ==
    ASSUME NEW A, NEW B, NEW C, IsFiniteSet(A), IsFiniteSet(B),
           C = A \cup B, \A x \in A : x \notin B
    PROVE  Cardinality(C) = Cardinality(A) + Cardinality(B)
  <1>1. A \cap B = {} /\ Cardinality(A \cap B) = 0
    BY FS_EmptySet
  <1>2. Cardinality(A \cup B) = Cardinality(A) + Cardinality(B) - Cardinality(A \cap B)
    BY FS_Union
  <1>3. Cardinality(A) \in Nat /\ Cardinality(B) \in Nat
    BY FS_CardinalityType
  <1> QED
    BY <1>1, <1>2, <1>3

\* Paths are counted by the vertex they start from.
Starting(R, f, S) ==
    /\ \A p \in R : p[1] \in S
    /\ \A u \in S : f[u] \in Nat /\ Cardinality({p \in R : p[1] = u}) = f[u]

LEMMA CountBySource ==
    ASSUME num_vertices \in Nat, NEW S \in SUBSET Capacity, NEW f,
           NEW R, IsFiniteSet(R), Starting(R, f, S)
    PROVE  Cardinality(R) = Total(f, S)
  <1> DEFINE N == num_vertices
             Below(i) == {p \in R : p[1] < i}
             At(i) == {p \in R : p[1] = i}
  <1>1. PICK sum \in [0 .. N -> Nat] :
          /\ sum[0] = 0
          /\ \A i \in 1 .. N : sum[i] = sum[i - 1] + (IF i - 1 \in S THEN f[i - 1] ELSE 0)
          /\ Total(f, S) = sum[N]
    <2>1. \A i \in S \cap Capacity : f[i] \in Nat
      BY DEF Starting
    <2> QED
      BY <2>1, TotalRuns
  <1>2. \A p \in R : p[1] \in 0 .. N - 1
    BY DEF Capacity, Starting
  <1>3. \A i \in 0 .. N : IsFiniteSet(Below(i)) /\ IsFiniteSet(At(i))
    BY FS_Subset
  <1> DEFINE V == {i \in 0 .. N : Cardinality(Below(i)) = sum[i]}
  <1>4. 0 \in V
    <2>1. Below(0) = {} /\ 0 \in 0 .. N
      BY <1>2
    <2> HIDE DEF Below, At
    <2> QED
      BY <1>1, <2>1, FS_EmptySet
  <1>5. ASSUME NEW i \in 1 .. N, i - 1 \in V PROVE i \in V
    <2>1. i \in 0 .. N /\ i - 1 \in 0 .. N /\ Cardinality(Below(i - 1)) = sum[i - 1]
      <3> HIDE DEF Below, At
      <3> QED
        BY <1>5
    <2>2. /\ Below(i) = Below(i - 1) \cup At(i - 1)
          /\ \A x \in Below(i - 1) : x \notin At(i - 1)
      <3>1. \A p \in R : p[1] < i <=> p[1] < i - 1 \/ p[1] = i - 1
        BY <1>2
      <3>2. \A p \in R : ~(p[1] < i - 1 /\ p[1] = i - 1)
        BY <1>2
      <3> QED
        BY <3>1, <3>2
    <2>3. Cardinality(At(i - 1)) = IF i - 1 \in S THEN f[i - 1] ELSE 0
      <3>1. CASE i - 1 \in S
        BY <3>1 DEF Starting
      <3>2. CASE i - 1 \notin S
        <4>1. At(i - 1) = {}
          BY <3>2 DEF Starting
        <4> QED
          BY <3>2, <4>1, FS_EmptySet
      <3> QED
        BY <3>1, <3>2
    <2> HIDE DEF Below, At
    <2>4. Cardinality(Below(i)) = Cardinality(Below(i - 1)) + Cardinality(At(i - 1))
      BY <1>3, <2>1, <2>2, DisjointCount
    <2> QED
      BY <1>1, <2>1, <2>3, <2>4
  <1>6. N \in V
    <2>1. 0 .. N \subseteq V
      <3> HIDE DEF V, N
      <3> QED
        BY <1>4, <1>5, Induction DEF N
    <2> HIDE DEF V
    <2> QED
      BY <2>1
  <1>7. Below(N) = R
    BY <1>2
  <1> HIDE DEF Below
  <1> QED
    BY <1>1, <1>6, <1>7

\* What the loop over the targets counts, by targets.
LEMMA HopsRuns ==
    ASSUME NEW A, NEW lists, NEW vs \in Seq(A), \A a \in A : Len(lists[a]) \in Nat
    PROVE  \E sum : /\ sum \in [0 .. Len(vs) -> Nat] /\ sum[0] = 0
                    /\ \A i \in 1 .. Len(vs) : sum[i] = sum[i - 1] + Len(lists[vs[i]])
                    /\ Hops(lists, vs) = sum[Len(vs)]
  <1> DEFINE N == Len(vs)
             part(i) == Len(lists[vs[i]])
             step == [i \in 1 .. N |-> [a \in Nat |-> a + part(i)]]
             Eqn(f) == f = [i \in 0 .. N |-> IF i = 0 THEN 0 ELSE f[i - 1] + part(i)]
             after == CHOOSE f : Eqn(f)
  <1>1. N \in Nat /\ \A i \in 1 .. N : part(i) \in Nat
    OBVIOUS
  <1>2. Hops(lists, vs) = after[N]
    BY DEF Hops, ForEach
  <1> HIDE DEF part, N
  <1>3. Steps(step, N, Nat)
    BY <1>1 DEF Steps
  <1>4. PICK h : Follows(h, step, 0, N, Nat)
    <2> HIDE DEF step
    <2> QED
      BY <1>1, <1>3, Recursion
  <1>5. /\ h \in [0 .. N -> Nat] /\ h[0] = 0
        /\ \A i \in 1 .. N : h[i] = h[i - 1] + part(i)
    <2>1. /\ h \in [0 .. N -> Nat] /\ h[0] = 0
          /\ \A i \in 1 .. N : h[i] = step[i][h[i - 1]]
      BY <1>4 DEF Follows
    <2>2. \A i \in 1 .. N : i - 1 \in 0 .. N
      BY <1>1
    <2> QED
      BY <2>1, <2>2
  <1>6. Eqn(h)
    <2>1. ASSUME NEW i \in 0 .. N
          PROVE  h[i] = IF i = 0 THEN 0 ELSE h[i - 1] + part(i)
      <3>1. i # 0 => i \in 1 .. N
        BY <1>1
      <3> QED
        BY <1>5, <3>1
    <2> QED
      BY <1>5, <2>1
  <1>7. Eqn(after)
    <2> HIDE DEF Eqn
    <2> QED
      BY <1>6
  <1> HIDE DEF after
  <1>8. \A i \in 0 .. N : after[i] = IF i = 0 THEN 0 ELSE after[i - 1] + part(i)
    BY <1>7, Zenon
  <1>9. after[0] = 0 /\ \A i \in 1 .. N : after[i] = after[i - 1] + part(i)
    <2>1. 0 \in 0 .. N /\ \A i \in 1 .. N : i \in 0 .. N /\ i # 0
      BY <1>1
    <2> QED
      BY <1>8, <2>1
  <1> DEFINE V == {i \in 0 .. N : after[i] \in Nat}
  <1>10. 0 .. N \subseteq V
    <2>1. 0 \in V
      BY <1>1, <1>9
    <2>2. ASSUME NEW i \in 1 .. N, i - 1 \in V PROVE i \in V
      BY <1>1, <1>9, <2>2
    <2> HIDE DEF V
    <2> QED
      BY <1>1, <2>1, <2>2, Induction
  <1>11. after \in [0 .. N -> Nat]
    BY <1>7, <1>10
  <1> QED
    BY <1>2, <1>9, <1>11 DEF N, part

LEMMA TriplesFinite == ASSUME g \in Graphs PROVE IsFiniteSet(L \X L \X L)
  <1> DEFINE A == (L \X L) \X L
             F == [p \in A |-> <<p[1][1], p[1][2], p[2]>>]
  <1>1. IsFiniteSet(A)
    BY GraphFacts, FS_Product
  <1>2. F \in [A -> L \X L \X L]
    OBVIOUS
  <1>3. ASSUME NEW t \in L \X L \X L PROVE \E a \in A : F[a] = t
    <2>1. <<<<t[1], t[2]>>, t[3]>> \in A
      OBVIOUS
    <2>2. F[<<<<t[1], t[2]>>, t[3]>>] = t
      BY <2>1
    <2> QED
      BY <2>1, <2>2
  <1> HIDE DEF A, F
  <1>4. F \in Surjection(A, L \X L \X L)
    BY <1>2, <1>3, Fun_IsSurj
  <1> QED
    BY <1>1, <1>4, FS_Surjection

Paths1(Q) == {p \in Q \X L : p[2] \in Out(p[1])}
Paths2(Q) == {p \in Q \X L \X L : p[2] \in Out(p[1]) /\ p[3] \in Out(p[2])}

LEMMA OneHopCount ==
    ASSUME g \in Graphs, NEW Q \in SUBSET L
    PROVE  Cardinality(Paths1(Q)) = Total([v \in L |-> Len(g.adj[v])], Q)
  <1> DEFINE R == Paths1(Q)
             f == [v \in L |-> Len(g.adj[v])]
  <1>1. num_vertices \in Nat /\ Q \in SUBSET Capacity
    BY GraphFacts
  <1>2. IsFiniteSet(R) /\ \A p \in R : p[1] \in Q
    <2>1. IsFiniteSet(L \X L)
      BY GraphFacts, FS_Product
    <2>2. R \subseteq L \X L /\ \A p \in R : p[1] \in Q
      BY DEF Paths1
    <2> QED
      BY <2>1, <2>2, FS_Subset
  <1>3. ASSUME NEW u \in Q
        PROVE  f[u] \in Nat /\ Cardinality({p \in R : p[1] = u}) = f[u]
    <2> DEFINE T == {p \in R : p[1] = u}
               F == [w \in Out(u) |-> <<u, w>>]
    <2>1. IsFiniteSet(Out(u)) /\ Cardinality(Out(u)) = f[u] /\ f[u] \in Nat
      <3>1. IsFiniteSet(Out(u)) /\ Cardinality(Out(u)) = Len(g.adj[u])
        BY OutCount
      <3>2. Len(g.adj[u]) \in Nat
        BY <3>1, FS_CardinalityType
      <3> QED
        BY <3>1, <3>2
    <2>2. Out(u) \subseteq L
      BY GraphFacts
    <2>3. F \in [Out(u) -> T]
      BY <2>2 DEF Paths1
    <2>4. \A a, b \in Out(u) : F[a] = F[b] => a = b
      OBVIOUS
    <2>5. ASSUME NEW t \in T PROVE \E a \in Out(u) : F[a] = t
      <3>1. t \in Q \X L /\ t[2] \in Out(u) /\ t[1] = u
        BY DEF Paths1
      <3>2. F[t[2]] = t
        BY <3>1
      <3> QED
        BY <3>1, <3>2
    <2> HIDE DEF T, F, f
    <2>6. Cardinality(T) = Cardinality(Out(u))
      BY <2>1, <2>3, <2>4, <2>5, ImageCount
    <2> QED
      BY <2>1, <2>6 DEF T
  <1> HIDE DEF R, f
  <1>4. Cardinality(R) = Total(f, Q)
    BY <1>1, <1>2, <1>3, CountBySource DEF Starting
  <1> QED
    BY <1>4 DEF R, f

\* The paths from one vertex, target by target.
LEMMA TwoHopSlice ==
    ASSUME g \in Graphs, NEW Q \in SUBSET L, NEW u \in Q,
           NEW lists, \A v \in L : lists[v] = g.adj[v]
    PROVE  /\ Hops(lists, lists[u]) \in Nat
           /\ Cardinality({p \in Paths2(Q) : p[1] = u}) = Hops(lists, lists[u])
  <1> DEFINE q == g.adj[u]
             N == Len(q)
             R == {p \in Paths2(Q) : p[1] = u}
             At(v) == {p \in R : p[2] = v}
             First(i) == {p \in R : \E j \in 1 .. i : q[j] = p[2]}
  <1>1. q \in Seq(L) /\ N \in Nat /\ u \in L /\ lists[u] = q
    BY GraphFacts
  <1>2. \A i, j \in 1 .. N : q[i] = q[j] => i = j
    <2>1. u \in Capacity
      BY GraphFacts
    <2>2. IsInjective(q)
      BY <2>1, GraphsAssumption
    <2> QED
      BY <1>1, <2>2 DEF IsInjective
  <1>3. Out(u) = {q[j] : j \in 1 .. N} /\ \A j \in 1 .. N : q[j] \in L
    BY <1>1 DEF Out, ToSet
  <1>4. IsFiniteSet(R)
    <2>1. R \subseteq L \X L \X L
      BY DEF Paths2
    <2> QED
      BY <2>1, TriplesFinite, FS_Subset
  <1>5. ASSUME NEW v \in Out(u) PROVE Cardinality(At(v)) = Len(g.adj[v])
    <2> DEFINE T == At(v)
               F == [w \in Out(v) |-> <<u, v, w>>]
    <2>1. v \in L /\ Out(v) \subseteq L
      BY <1>1, GraphFacts
    <2>2. IsFiniteSet(Out(v)) /\ Cardinality(Out(v)) = Len(g.adj[v])
      BY <2>1, OutCount
    <2>3. F \in [Out(v) -> T]
      BY <2>1 DEF Paths2
    <2>4. \A a, b \in Out(v) : F[a] = F[b] => a = b
      OBVIOUS
    <2>5. ASSUME NEW t \in T PROVE \E a \in Out(v) : F[a] = t
      <3>1. t \in Q \X L \X L /\ t[3] \in Out(v) /\ t[1] = u /\ t[2] = v
        BY DEF Paths2
      <3>2. F[t[3]] = t
        BY <3>1
      <3> QED
        BY <3>1, <3>2
    <2> HIDE DEF T, F
    <2>6. Cardinality(T) = Cardinality(Out(v))
      BY <2>2, <2>3, <2>4, <2>5, ImageCount
    <2> QED
      BY <2>2, <2>6 DEF T
  <1>6. \A v \in L : Len(lists[v]) = Len(g.adj[v]) /\ Len(lists[v]) \in Nat
    BY GraphFacts
  <1> HIDE DEF q, R
  <1> HIDE DEF N, At, First
  <1>7. PICK sum :
          /\ sum \in [0 .. Len(q) -> Nat] /\ sum[0] = 0
          /\ \A i \in 1 .. Len(q) : sum[i] = sum[i - 1] + Len(lists[q[i]])
          /\ Hops(lists, q) = sum[Len(q)]
    <2>1. q \in Seq(L) /\ \A a \in L : Len(lists[a]) \in Nat
      BY <1>1, <1>6
    <2> QED
      BY <2>1, HopsRuns
  <1>8. /\ sum \in [0 .. N -> Nat] /\ sum[0] = 0 /\ Hops(lists, lists[u]) = sum[N]
        /\ \A i \in 1 .. N : sum[i] = sum[i - 1] + Len(g.adj[q[i]])
    BY <1>1, <1>3, <1>6, <1>7 DEF N
  <1> USE DEF At, First
  <1> DEFINE V == {i \in 0 .. N : Cardinality(First(i)) = sum[i]}
  <1>9. 0 \in V
    <2>1. First(0) = {} /\ 0 \in 0 .. N
      BY <1>1
    <2> HIDE DEF First
    <2> QED
      BY <1>8, <2>1, FS_EmptySet
  <1>10. ASSUME NEW i \in 1 .. N, i - 1 \in V PROVE i \in V
    <2>1. i \in 0 .. N /\ Cardinality(First(i - 1)) = sum[i - 1] /\ q[i] \in Out(u)
      BY <1>1, <1>3, <1>10
    <2>2. First(i) = First(i - 1) \cup At(q[i])
      <3>1. 1 .. i = (1 .. i - 1) \cup {i}
        BY <1>1
      <3> QED
        BY <3>1
    <2>3. \A x \in First(i - 1) : x \notin At(q[i])
      <3>1. \A j \in 1 .. i - 1 : j \in 1 .. N /\ j # i
        BY <1>1
      <3> QED
        BY <1>2, <3>1
    <2>4. IsFiniteSet(First(i - 1)) /\ IsFiniteSet(At(q[i]))
      BY <1>4, FS_Subset
    <2>5. Cardinality(At(q[i])) = Len(g.adj[q[i]])
      BY <1>5, <2>1
    <2> HIDE DEF First, At
    <2>6. Cardinality(First(i)) = Cardinality(First(i - 1)) + Cardinality(At(q[i]))
      BY <2>2, <2>3, <2>4, DisjointCount
    <2>7. sum[i] = sum[i - 1] + Len(g.adj[q[i]])
      BY <1>8
    <2> QED
      BY <2>1, <2>5, <2>6, <2>7
  <1>11. N \in V
    <2>1. 0 .. N \subseteq V
      <3> HIDE DEF V
      <3> QED
        BY <1>1, <1>9, <1>10, Induction
    <2> HIDE DEF V
    <2> QED
      BY <1>1, <2>1
  <1>12. First(N) = R
    <2>1. \A p \in R : p[2] \in Out(u)
      BY DEF R, Paths2
    <2> QED
      BY <1>3, <2>1
  <1>13. sum[N] \in Nat /\ Cardinality(R) = sum[N]
    <2> HIDE DEF First
    <2> QED
      BY <1>1, <1>8, <1>11, <1>12
  <1> QED
    BY <1>8, <1>13 DEF R

LEMMA TwoHopCount ==
    ASSUME g \in Graphs, NEW Q \in SUBSET L,
           NEW lists, \A v \in L : lists[v] = g.adj[v],
           NEW f, \A u \in Q : f[u] = Hops(lists, lists[u])
    PROVE  Cardinality(Paths2(Q)) = Total(f, Q)
  <1> DEFINE R == Paths2(Q)
  <1>1. num_vertices \in Nat /\ Q \in SUBSET Capacity
    BY GraphFacts
  <1>2. IsFiniteSet(R) /\ \A p \in R : p[1] \in Q
    <2>1. R \subseteq L \X L \X L /\ \A p \in R : p[1] \in Q
      BY DEF Paths2
    <2> QED
      BY <2>1, TriplesFinite, FS_Subset
  <1>3. ASSUME NEW u \in Q
        PROVE  f[u] \in Nat /\ Cardinality({p \in R : p[1] = u}) = f[u]
    BY TwoHopSlice
  <1> HIDE DEF R
  <1>4. Cardinality(R) = Total(f, Q)
    BY <1>1, <1>2, <1>3, CountBySource DEF Starting
  <1> QED
    BY <1>4 DEF R

\* The forms of the queries are three.
LEMMA RunQueries ==
    ASSUME Run, alg \in Queries
    PROVE  test_one_hop \/ test_two_hop \/ test_two_hop_l
  <1>1. /\ ~test_bfs /\ ~test_bfs2 /\ ~test_bfs_iterators
        /\ ~bellman_ford2 /\ ~bellman_ford_iterators /\ ~dijkstra
    BY DEF Queries, test_bfs, test_bfs2, test_bfs_iterators, bellman_ford2,
           bellman_ford_iterators, dijkstra
  <1>2. ~test_cc2 /\ ~test_cc_iterators /\ ~page_rank2 /\ ~page_rank_iterators
    BY DEF Queries, test_cc2, test_cc_iterators, page_rank2, page_rank_iterators
  <1>3. ~avg_degree /\ ~BFS_with_edge_map /\ ~CC_T /\ ~SSSP_BF
    BY DEF Queries, avg_degree, BFS_with_edge_map, CC_T, SSSP_BF
  <1> QED
    BY <1>1, <1>2, <1>3 DEF Run

\* A query has not been answered yet, or all its paths are counted.
CountInv ==
    alg \in Queries =>
        /\ query \in SUBSET L
        /\ pc \in {"call", "done"}
        /\ pc = "done" /\ (alg = "test_two_hop" => PhysicalIsLogical) =>
             result = Cardinality(IF alg = "test_one_hop" THEN Paths1(query)
                                  ELSE Paths2(query))

LEMMA CountStep ==
    ASSUME CallInv, CountInv, [Next]_vars
    PROVE  CountInv'
  <1>1. alg' = alg /\ g' = g /\ query' = query
    BY DEF Next, Returned, vars, call
  <1>2. /\ L' = L /\ PhysicalIsLogical' = PhysicalIsLogical
        /\ Paths1(query)' = Paths1(query) /\ Paths2(query)' = Paths2(query)
    BY <1>1 DEF L, PhysicalIsLogical, Paths1, Paths2, Out
  <1> SUFFICES ASSUME alg \in Queries
               PROVE  /\ query \in SUBSET L
                      /\ pc' \in {"call", "done"}
                      /\ pc' = "done" /\ (alg = "test_two_hop" => PhysicalIsLogical) =>
                           result' = Cardinality(IF alg = "test_one_hop"
                                                 THEN Paths1(query) ELSE Paths2(query))
    BY <1>1, <1>2 DEF CountInv, Queries
  <1>3. /\ query \in SUBSET L
        /\ pc \in {"call", "done"}
        /\ pc = "done" /\ (alg = "test_two_hop" => PhysicalIsLogical) =>
             result = Cardinality(IF alg = "test_one_hop" THEN Paths1(query)
                                  ELSE Paths2(query))
    BY DEF CountInv
  <1>4. CASE UNCHANGED vars
    BY <1>3, <1>4 DEF vars
  <1>5. CASE Run
    <2>1. g \in Graphs /\ query \in SUBSET L
      BY <1>3 DEF CallInv
    <2>2. CASE test_one_hop
      <3>1. /\ alg = "test_one_hop" /\ pc' = "done"
            /\ result' = Total([v \in L |-> Len(g.adj[v])], query)
        BY <2>2 DEF test_one_hop, Count, Return
      <3>2. Cardinality(Paths1(query)) = Total([v \in L |-> Len(g.adj[v])], query)
        BY <2>1, OneHopCount
      <3> QED
        BY <2>1, <3>1, <3>2
    <2>3. CASE test_two_hop
      <3> DEFINE lists == [p \in Capacity |-> get_adj_edges(p)]
                 f == [p \in Capacity |-> Hops(lists, lists[p])]
                 asked == query \union UNION {ToSet(lists[p]) : p \in query}
      <3>1. /\ alg = "test_two_hop" /\ pc' = "done"
            /\ asked \subseteq Range(g.phys) => result' = Total(f, query)
        BY <2>3 DEF test_two_hop, Count, Return
      <3>2. L \subseteq Capacity
        BY <2>1, GraphFacts
      <3>3. \A u \in query : f[u] = Hops(lists, lists[u])
        BY <2>1, <3>2
      <3>4. ASSUME PhysicalIsLogical PROVE \A v \in L : lists[v] = g.adj[v]
        BY <2>1, <3>2, <3>4, ListsAgree
      <3> HIDE DEF f, lists
      <3>5. PhysicalIsLogical => Cardinality(Paths2(query)) = Total(f, query)
        BY <2>1, <3>3, <3>4, TwoHopCount
      <3>6. ASSUME PhysicalIsLogical PROVE asked \subseteq Range(g.phys)
        <4>1. \A p \in query : ToSet(lists[p]) \subseteq L
          BY <2>1, <3>4, <3>6, GraphFacts DEF Out
        <4>2. asked \subseteq L
          BY <2>1, <4>1
        <4> HIDE DEF asked
        <4>3. DOMAIN g.phys = L /\ \A v \in L : g.phys[v] = v
          BY <2>1, <3>6, GraphsAssumption DEF PhysicalIsLogical, L
        <4> QED
          BY <4>2, <4>3 DEF Range
      <3> HIDE DEF asked
      <3> QED
        BY <2>1, <3>1, <3>5, <3>6
    <2>4. CASE test_two_hop_l
      <3> DEFINE f == [v \in L |-> Hops(g.adj, g.adj[v])]
      <3>1. /\ alg # "test_one_hop" /\ pc' = "done" /\ result' = Total(f, query)
        BY <2>4 DEF test_two_hop_l, Count, Return
      <3>2. \A u \in query : f[u] = Hops(g.adj, g.adj[u])
        BY <2>1
      <3> HIDE DEF f
      <3>3. Cardinality(Paths2(query)) = Total(f, query)
        BY <2>1, <3>2, TwoHopCount
      <3> QED
        BY <2>1, <3>1, <3>3
    <2> QED
      BY <1>5, <2>2, <2>3, <2>4, RunQueries
  <1> QED
    BY <1>4, <1>5 DEF Next, Returned

-----------------------------------------------------------------------------
(* The table of degrees counts each vertex in one bucket.                  *)

One(s) == CHOOSE x \in s : TRUE
SumEqn(f, sum) ==
    sum = [s \in SUBSET DOMAIN f |-> IF s = {} THEN 0 ELSE f[One(s)] + sum[s \ {One(s)}]]

LEMMA SumRuns ==
    ASSUME NEW f
    PROVE  FoldFunction(+, 0, f) = (CHOOSE sum : SumEqn(f, sum))[DOMAIN f]
  BY DEF FoldFunction, FoldFunctionOnSet, MapThenFoldSet, SumEqn, One

\* The keys of S, and how many elements have each of them.
Keys(S, key) == {key[p] : p \in S}
With(S, key, s) == {p \in S : key[p] \in s}
IsTable(f, S, key) ==
    /\ DOMAIN f = Keys(S, key) /\ f = [b \in DOMAIN f |-> f[b]]
    /\ \A b \in Keys(S, key) : f[b] = Cardinality(With(S, key, {b}))

LEMMA TableCount ==
    ASSUME NEW S, IsFiniteSet(S), NEW key, NEW f, IsTable(f, S, key)
    PROVE  FoldFunction(+, 0, f) = Cardinality(S)
  <1> DEFINE B == Keys(S, key)
             Size(s) == Cardinality(With(S, key, s))
             known == [s \in SUBSET B |-> Size(s)]
             sum == CHOOSE h : SumEqn(f, h)
             N == Cardinality(S)
  <1>1. /\ DOMAIN f = B /\ \A b \in B : f[b] = Size({b})
    BY DEF IsTable
  <1>2. \A s : IsFiniteSet(With(S, key, s)) /\ Size(s) \in Nat /\ Size(s) <= N
    <2>1. \A s : With(S, key, s) \subseteq S
      BY DEF With
    <2> QED
      BY <2>1, FS_Subset, FS_CardinalityType
  <1>3. N \in Nat
    BY FS_CardinalityType
  <1>4. Size({}) = 0
    <2>1. With(S, key, {}) = {}
      BY DEF With
    <2> QED
      BY <2>1, FS_EmptySet
  <1>5. ASSUME NEW s \in SUBSET B, s # {}
        PROVE  /\ One(s) \in s /\ One(s) \in B /\ s \ {One(s)} \in SUBSET B
               /\ Size(s) = f[One(s)] + Size(s \ {One(s)})
               /\ Size(s \ {One(s)}) < Size(s)
    <2> DEFINE x == One(s)
               t == s \ {x}
    <2>1. x \in s
      BY <1>5 DEF One
    <2>2. x \in B /\ t \in SUBSET B
      BY <2>1
    <2>3. /\ With(S, key, s) = With(S, key, {x}) \cup With(S, key, t)
          /\ \A p \in With(S, key, {x}) : p \notin With(S, key, t)
      BY <2>1 DEF With
    <2>4. Size(s) = Size({x}) + Size(t)
      <3> HIDE DEF x, t
      <3>1. IsFiniteSet(With(S, key, {x})) /\ IsFiniteSet(With(S, key, t))
        BY <1>2
      <3> QED
        BY <2>3, <3>1, DisjointCount
    <2>5. Size({x}) # 0
      <3>1. With(S, key, {x}) # {}
        BY <2>2 DEF With, Keys
      <3> QED
        BY <1>2, <3>1, FS_EmptySet
    <2>6. f[x] = Size({x})
      BY <1>1, <2>2
    <2> HIDE DEF x, t, Size
    <2>7. Size({x}) \in Nat /\ Size(t) \in Nat
      BY <1>2
    <2>8. Size(s) = f[x] + Size(t) /\ Size(t) < Size(s)
      BY <2>4, <2>5, <2>6, <2>7
    <2> QED
      BY <2>1, <2>2, <2>8 DEF x, t
  <1> HIDE DEF Size, B
  <1>6. SumEqn(f, known)
    <2>1. ASSUME NEW s \in SUBSET B
          PROVE  known[s] = IF s = {} THEN 0 ELSE f[One(s)] + known[s \ {One(s)}]
      <3>1. CASE s = {}
        BY <1>4, <3>1
      <3>2. CASE s # {}
        BY <1>5, <3>2
      <3> QED
        BY <3>1, <3>2
    <2>2. known = [s \in SUBSET B |-> known[s]]
      OBVIOUS
    <2> HIDE DEF known
    <2> QED
      BY <1>1, <2>1, <2>2 DEF SumEqn
  <1>7. SumEqn(f, sum)
    <2> HIDE DEF known
    <2> QED
      BY <1>6
  <1> HIDE DEF sum
  <1>8. \A s \in SUBSET B :
          sum[s] = IF s = {} THEN 0 ELSE f[One(s)] + sum[s \ {One(s)}]
    <2>1. sum = [s \in SUBSET B |->
                   IF s = {} THEN 0 ELSE f[One(s)] + sum[s \ {One(s)}]]
      BY <1>1, <1>7 DEF SumEqn
    <2> QED
      BY <2>1, Zenon
  <1> DEFINE V == {n \in 0 .. N : \A s \in SUBSET B : Size(s) <= n => sum[s] = Size(s)}
  <1>9. 0 \in V
    <2>1. ASSUME NEW s \in SUBSET B, Size(s) <= 0 PROVE sum[s] = Size(s)
      <3>1. s = {}
        <4> SUFFICES ASSUME s # {} PROVE FALSE
          OBVIOUS
        <4>1. Size(s \ {One(s)}) < Size(s) /\ Size(s \ {One(s)}) \in Nat /\ Size(s) \in Nat
          BY <1>2, <1>5
        <4> QED
          BY <2>1, <4>1
      <3> QED
        BY <1>4, <1>8, <3>1
    <2> QED
      BY <1>3, <2>1
  <1>10. ASSUME NEW n \in 1 .. N, n - 1 \in V PROVE n \in V
    <2>1. ASSUME NEW s \in SUBSET B, Size(s) <= n PROVE sum[s] = Size(s)
      <3>1. CASE s = {}
        BY <1>4, <1>8, <3>1
      <3>2. CASE s # {}
        <4> DEFINE t == s \ {One(s)}
        <4>1. t \in SUBSET B /\ Size(s) = f[One(s)] + Size(t) /\ Size(t) < Size(s)
          BY <1>5, <3>2
        <4>2. Size(s) \in Nat /\ Size(t) \in Nat
          BY <1>2
        <4>3. sum[s] = f[One(s)] + sum[t]
          BY <1>8, <3>2
        <4> HIDE DEF t
        <4>4. Size(t) <= n - 1
          BY <2>1, <4>1, <4>2
        <4>5. sum[t] = Size(t)
          BY <1>10, <4>1, <4>4
        <4> QED
          BY <4>1, <4>3, <4>5
      <3> QED
        BY <3>1, <3>2
    <2> QED
      BY <1>3, <2>1
  <1>11. N \in V
    <2>1. 0 .. N \subseteq V /\ N \in 0 .. N
      <3> HIDE DEF V, N
      <3>1. 0 .. N \subseteq V
        BY <1>3, <1>9, <1>10, Induction
      <3> QED
        BY <1>3, <3>1
    <2> HIDE DEF V, N
    <2> QED
      BY <2>1
  <1>12. sum[B] = Size(B)
    BY <1>2, <1>11
  <1>13. With(S, key, B) = S
    BY DEF With, B, Keys
  <1>14. FoldFunction(+, 0, f) = sum[B]
    BY <1>1, SumRuns DEF sum
  <1> QED
    BY <1>12, <1>13, <1>14 DEF Size

\* The answer of avg_degree: no vertex is left out of the table, which is there if
\* and only if there is an edge.
Summed(f) == FoldFunction(+, 0, f)
DegreesKnown(r) ==
    IF \A v \in L : g.degree[v] = 0 THEN r = "fault"
    ELSE r.num_empty + Summed(r.table) = num_vertices

LEMMA DegreesCount ==
    ASSUME g \in Graphs, avg_degree
    PROVE  pc' = "done" /\ DegreesKnown(result')
  <1> DEFINE degrees == [p \in Capacity |->
                           IF find_vertex(p) = -1 THEN 0 ELSE g.degree[find_vertex(p)]]
             full == {p \in Capacity : degrees[p] > 0}
             bucket(p) == (degrees[p] - 1) \div GAP
             key == [p \in full |-> bucket(p)]
             table == [b \in {bucket(p) : p \in full} |->
                         Cardinality({p \in full : bucket(p) = b})]
             average == Total(degrees, full) \div Cardinality(full)
             r == [num_empty |-> Cardinality(Capacity \ full), average |-> average,
                   table |-> table]
  <1>1. pc' = "done" /\ result' = IF full = {} THEN "fault" ELSE r
    BY DEF avg_degree, Count, Return
  <1>2. num_vertices \in Nat /\ L \subseteq Capacity /\ \A v \in L : g.degree[v] \in Nat
    BY GraphFacts
  <1>3. full = {} <=> \A v \in L : g.degree[v] = 0
    <2>1. DOMAIN g.phys = L /\ g.phys \in [L -> Capacity] /\ IsInjective(g.phys)
      BY GraphsAssumption DEF L
    <2>2. ASSUME NEW v \in L PROVE g.phys[v] \in Capacity /\ find_vertex(g.phys[v]) = v
      <3> DEFINE p == g.phys[v]
      <3>1. p \in Capacity /\ p \in Range(g.phys)
        BY <2>1 DEF Range
      <3> HIDE DEF p
      <3>2. find_vertex(p) \in L /\ g.phys[find_vertex(p)] = p
        BY <3>1, FindVertex
      <3>3. find_vertex(p) = v
        BY <2>1, <3>2 DEF IsInjective, p
      <3> QED
        BY <3>1, <3>3 DEF p
    <2>3. \A p \in Capacity : find_vertex(p) = -1 \/ find_vertex(p) \in L
      <3> SUFFICES ASSUME NEW p \in Capacity, find_vertex(p) # -1 PROVE find_vertex(p) \in L
        OBVIOUS
      <3>1. p \in Range(g.phys)
        BY DEF find_vertex
      <3> QED
        BY <3>1, FindVertex
    <2>4. \A v \in L : v # -1
      BY DEF L
    <2>5. ASSUME NEW v \in L, g.degree[v] # 0 PROVE g.phys[v] \in full
      <3> DEFINE p == g.phys[v]
      <3>1. p \in Capacity /\ find_vertex(p) = v /\ v # -1
        BY <2>2, <2>4
      <3> HIDE DEF p
      <3>2. degrees[p] = g.degree[v] /\ g.degree[v] > 0
        BY <1>2, <2>5, <3>1
      <3> HIDE DEF degrees
      <3>3. p \in full
        BY <3>1, <3>2
      <3> QED
        BY <3>3 DEF p
    <2>6. ASSUME NEW p \in full PROVE \E v \in L : g.degree[v] # 0
      <3>1. p \in Capacity /\ degrees[p] > 0
        OBVIOUS
      <3>2. find_vertex(p) # -1
        BY <3>1
      <3>3. find_vertex(p) \in L /\ degrees[p] = g.degree[find_vertex(p)]
        BY <2>3, <3>1, <3>2
      <3> QED
        BY <3>1, <3>3
    <2> HIDE DEF full
    <2> QED
      BY <2>5, <2>6
  <1> HIDE DEF degrees
  <1>4. /\ IsFiniteSet(full) /\ Cardinality(Capacity \ full) + Cardinality(full) = num_vertices
    <2>1. IsFiniteSet(Capacity) /\ Cardinality(Capacity) = num_vertices
      <3> DEFINE m == num_vertices - 1
      <3>1. 0 \in Int /\ m \in Int /\ Capacity = 0 .. m
        BY <1>2 DEF Capacity
      <3> HIDE DEF m
      <3>2. IsFiniteSet(0 .. m) /\ Cardinality(0 .. m) = IF 0 > m THEN 0 ELSE m - 0 + 1
        BY <3>1, FS_Interval
      <3> QED
        BY <1>2, <3>1, <3>2 DEF m
    <2>2. full \subseteq Capacity
      OBVIOUS
    <2> HIDE DEF full
    <2>3. IsFiniteSet(full) /\ IsFiniteSet(Capacity \ full)
      BY <2>1, <2>2, FS_Subset
    <2>4. Capacity = (Capacity \ full) \cup full /\ \A x \in Capacity \ full : x \notin full
      BY <2>2
    <2>5. Cardinality(Capacity) = Cardinality(Capacity \ full) + Cardinality(full)
      BY <2>3, <2>4, DisjointCount
    <2> QED
      BY <2>1, <2>3, <2>5
  <1> HIDE DEF full
  <1>5. IsTable(table, full, key)
    <2>1. Keys(full, key) = {bucket(p) : p \in full}
      BY DEF Keys
    <2>2. \A b : With(full, key, {b}) = {p \in full : bucket(p) = b}
      BY DEF With
    <2> QED
      BY <2>1, <2>2 DEF IsTable
  <1> HIDE DEF key, table
  <1>6. FoldFunction(+, 0, table) = Cardinality(full)
    BY <1>4, <1>5, TableCount
  <1>7. r.num_empty = Cardinality(Capacity \ full) /\ r.table = table
    OBVIOUS
  <1> HIDE DEF r
  <1> QED
    BY <1>1, <1>3, <1>4, <1>6, <1>7 DEF DegreesKnown, Summed
LEMMA RunDegrees ==
    ASSUME Run, alg = "avg_degree"
    PROVE  avg_degree
  <1>1. /\ ~test_bfs /\ ~test_bfs2 /\ ~test_bfs_iterators
        /\ ~bellman_ford2 /\ ~bellman_ford_iterators /\ ~dijkstra
    BY DEF test_bfs, test_bfs2, test_bfs_iterators, bellman_ford2, bellman_ford_iterators,
           dijkstra
  <1>2. ~test_cc2 /\ ~test_cc_iterators /\ ~page_rank2 /\ ~page_rank_iterators
    BY DEF test_cc2, test_cc_iterators, page_rank2, page_rank_iterators
  <1>3. ~test_one_hop /\ ~test_two_hop /\ ~test_two_hop_l
    BY DEF test_one_hop, test_two_hop, test_two_hop_l
  <1>4. ~BFS_with_edge_map /\ ~CC_T /\ ~SSSP_BF
    BY DEF BFS_with_edge_map, CC_T, SSSP_BF
  <1> QED
    BY <1>1, <1>2, <1>3, <1>4 DEF Run

\* The average has not been asked for yet, or the table is complete.
DegreesInv ==
    alg = "avg_degree" =>
        pc \in {"call", "done"} /\ (pc = "done" => DegreesKnown(result))

LEMMA DegreesStep ==
    ASSUME CallInv, DegreesInv, [Next]_vars
    PROVE  DegreesInv'
  <1>1. alg' = alg /\ g' = g
    BY DEF Next, Returned, vars, call
  <1>2. DegreesKnown(result') <=> DegreesKnown(result)'
    BY <1>1 DEF DegreesKnown, L
  <1> SUFFICES ASSUME alg = "avg_degree"
               PROVE  pc' \in {"call", "done"} /\ (pc' = "done" => DegreesKnown(result'))
    BY <1>1, <1>2 DEF DegreesInv
  <1>3. pc \in {"call", "done"} /\ (pc = "done" => DegreesKnown(result))
    BY DEF DegreesInv
  <1>4. CASE UNCHANGED vars
    BY <1>3, <1>4 DEF vars
  <1>5. CASE Run
    <2>1. g \in Graphs
      BY DEF CallInv
    <2> QED
      BY <1>5, <2>1, RunDegrees, DegreesCount
  <1> QED
    BY <1>4, <1>5 DEF Next, Returned

\* On every graph and for every set of vertices each query counts every path of
\* one or two edges from them once, the first form of the second query where
\* physical and logical ids agree, and the table of degrees leaves no vertex out
\* (one_hop.h:5-31, two_hop.h:6-84, degree.h:6-60).
THEOREM CountsExactHolds == Spec => []CountsExact
  <1>1. Init => CountInv /\ DegreesInv
    BY DEF Init, CountInv, DegreesInv
  <1>2. CallInv /\ CountInv /\ [Next]_vars => CountInv'
    BY CountStep
  <1>3. CallInv /\ DegreesInv /\ [Next]_vars => DegreesInv'
    BY DegreesStep
  <1>4. CountInv /\ DegreesInv => CountsExact
    <2> SUFFICES ASSUME CountInv, DegreesInv PROVE CountsExact
      OBVIOUS
    <2>1. Ended({"avg_degree"}) => DegreesKnown(result)
      BY DEF Ended, DegreesInv
    <2>2. Ended(Queries) => pc = "done" /\ alg \in Queries
      BY DEF Ended
    <2>3. /\ Paths1(query) = {p \in query \X L : p[2] \in ToSet(g.adj[p[1]])}
          /\ Paths2(query) = {p \in query \X L \X L :
                p[2] \in ToSet(g.adj[p[1]]) /\ p[3] \in ToSet(g.adj[p[2]])}
      BY DEF Paths1, Paths2, Out
    <2>4. /\ Ended(Queries) /\ (alg = "test_two_hop" => PhysicalIsLogical) =>
             result = Cardinality(IF alg = "test_one_hop" THEN Paths1(query)
                                  ELSE Paths2(query))
      BY <2>2 DEF CountInv
    <2>5. Ended({"avg_degree"}) =>
             IF \A v \in L : g.degree[v] = 0 THEN result = "fault"
             ELSE result.num_empty + FoldFunction(+, 0, result.table) = num_vertices
      BY <2>1 DEF DegreesKnown, Summed
    <2> QED
      BY <2>3, <2>4, <2>5 DEF CountsExact
  <1> QED
    BY <1>1, <1>2, <1>3, <1>4, CallInvariant, PTL DEF Spec

-----------------------------------------------------------------------------
(* What an edge map does is a walk: the functor follows the edges of the   *)
(* frontier one by one, in some order.                                     *)

Functors == {"BFS_F", "CC_F", "BF_F"}
Pairs == Capacity \X Capacity
Subsets == [all : BOOLEAN, is_sparse : BOOLEAN, max_el : {num_vertices},
            queue : Seq(Capacity), ba : SUBSET Capacity]
Maps == [val : [Capacity -> Int], aux : [Capacity -> Int], out : Subsets]

LEMMA FollowType ==
    ASSUME NEW F \in Functors, NEW a \in Maps, NEW s \in Capacity, NEW d \in Capacity
    PROVE  Follow(F, a, s, d) \in Maps
  <1>1. /\ a.val \in [Capacity -> Int] /\ a.aux \in [Capacity -> Int] /\ a.out \in Subsets
    BY DEF Maps
  <1>2. insert(a.out, d) \in Subsets
    <2>1. Append(a.out.queue, d) \in Seq(Capacity) /\ a.out.ba \cup {d} \in SUBSET Capacity
      BY <1>1 DEF Subsets
    <2> QED
      BY <1>1, <2>1 DEF Subsets, insert
  <1>3. ASSUME NEW r, r.val \in [Capacity -> Int], r.aux \in [Capacity -> Int]
        PROVE  Updated(a, r, d) \in Maps
    BY <1>1, <1>2, <1>3 DEF Updated, Maps
  <1> DEFINE r == Update(F, a, s, d)
  <1>4. r.val \in [Capacity -> Int] /\ r.aux \in [Capacity -> Int]
    <2>1. a.val[s] \in Int /\ s \in Int /\ a.val[s] + 1 \in Int
      <3>1. Capacity \subseteq Int
        BY GraphsAssumption DEF Capacity
      <3> QED
        BY <1>1, <3>1
    <2>2. CASE F = "BFS_F"
      BY <1>1, <2>1, <2>2 DEF Update, BFS_update
    <2>3. CASE F = "CC_F"
      BY <1>1, <2>1, <2>3 DEF Update, CC_update
    <2>4. CASE F = "BF_F"
      BY <1>1, <2>1, <2>4 DEF Update, BF_update
    <2> QED
      BY <2>2, <2>3, <2>4 DEF Functors
  <1> HIDE DEF r
  <1>5. Updated(a, r, d) \in Maps
    BY <1>3, <1>4
  <1> QED
    BY <1>5 DEF Follow, r

\* From a to b along the edges E: b is in all that a is in and steps do not leave.
Walk(F, a, b, E) ==
    \A P \in SUBSET (Maps \X SUBSET Pairs) :
      /\ <<a, {}>> \in P
      /\ \A x \in P : \A e \in E :
           <<Follow(F, x[1], e[1], e[2]), x[2] \cup {e}>> \in P
      => <<b, E>> \in P

LEMMA WalkType ==
    ASSUME NEW F \in Functors, NEW a \in Maps, NEW E \in SUBSET Pairs, NEW b,
           Walk(F, a, b, E)
    PROVE  b \in Maps
  <1> DEFINE P == Maps \X SUBSET Pairs
  <1>1. <<a, {}>> \in P
    OBVIOUS
  <1>2. ASSUME NEW x \in P, NEW e \in E
        PROVE  <<Follow(F, x[1], e[1], e[2]), x[2] \cup {e}>> \in P
    <2>1. e \in Pairs /\ e[1] \in Capacity /\ e[2] \in Capacity /\ x[1] \in Maps
      BY DEF Pairs
    <2>2. Follow(F, x[1], e[1], e[2]) \in Maps
      BY <2>1, FollowType
    <2>3. x[2] \cup {e} \in SUBSET Pairs
      BY <2>1
    <2> QED
      BY <2>2, <2>3
  <1>3. <<b, E>> \in P
    <2>1. P \in SUBSET (Maps \X SUBSET Pairs)
      OBVIOUS
    <2> HIDE DEF P
    <2> QED
      BY <1>1, <1>2, <2>1 DEF Walk
  <1> QED
    BY <1>3

LEMMA WalkNone ==
    ASSUME NEW F, NEW a
    PROVE  Walk(F, a, a, {})
  BY DEF Walk

LEMMA WalkOne ==
    ASSUME NEW F \in Functors, NEW a \in Maps, NEW s \in Capacity, NEW d \in Capacity
    PROVE  Walk(F, a, Follow(F, a, s, d), {<<s, d>>})
  <1> SUFFICES ASSUME NEW P \in SUBSET (Maps \X SUBSET Pairs), <<a, {}>> \in P,
                      \A x \in P : \A e \in {<<s, d>>} :
                        <<Follow(F, x[1], e[1], e[2]), x[2] \cup {e}>> \in P
               PROVE  <<Follow(F, a, s, d), {<<s, d>>}>> \in P
    BY DEF Walk
  <1> DEFINE x == <<a, {}>>
             e == <<s, d>>
  <1>1. <<Follow(F, x[1], e[1], e[2]), x[2] \cup {e}>> \in P
    OBVIOUS
  <1>2. x[1] = a /\ e[1] = s /\ e[2] = d /\ x[2] \cup {e} = {<<s, d>>}
    OBVIOUS
  <1> HIDE DEF x, e
  <1> QED
    BY <1>1, <1>2

LEMMA WalkThen ==
    ASSUME NEW F \in Functors, NEW a \in Maps, NEW b, NEW c,
           NEW E1 \in SUBSET Pairs, NEW E2 \in SUBSET Pairs,
           Walk(F, a, b, E1), Walk(F, b, c, E2)
    PROVE  Walk(F, a, c, E1 \cup E2)
  <1> SUFFICES ASSUME NEW P \in SUBSET (Maps \X SUBSET Pairs), <<a, {}>> \in P,
                      \A x \in P : \A e \in E1 \cup E2 :
                        <<Follow(F, x[1], e[1], e[2]), x[2] \cup {e}>> \in P
               PROVE  <<c, E1 \cup E2>> \in P
    BY DEF Walk
  <1> DEFINE Q == {x \in Maps \X SUBSET Pairs : <<x[1], E1 \cup x[2]>> \in P}
  <1>1. <<b, E1>> \in P /\ b \in Maps
    BY WalkType DEF Walk
  <1>2. <<b, {}>> \in Q
    <2>1. E1 \cup {} = E1
      OBVIOUS
    <2> QED
      BY <1>1, <2>1
  <1>3. ASSUME NEW x \in Q, NEW e \in E2
        PROVE  <<Follow(F, x[1], e[1], e[2]), x[2] \cup {e}>> \in Q
    <2> DEFINE y == <<x[1], E1 \cup x[2]>>
               f == Follow(F, x[1], e[1], e[2])
    <2>1. y \in P /\ x[1] \in Maps /\ x[2] \in SUBSET Pairs
      OBVIOUS
    <2>2. e \in Pairs /\ e[1] \in Capacity /\ e[2] \in Capacity
      BY DEF Pairs
    <2>3. f \in Maps
      BY <2>1, <2>2, FollowType
    <2>4. <<Follow(F, y[1], e[1], e[2]), y[2] \cup {e}>> \in P
      BY <2>1
    <2>5. y[1] = x[1] /\ y[2] \cup {e} = E1 \cup (x[2] \cup {e})
      OBVIOUS
    <2>6. <<f, E1 \cup (x[2] \cup {e})>> \in P
      <3> HIDE DEF y
      <3> QED
        BY <2>4, <2>5
    <2>7. x[2] \cup {e} \in SUBSET Pairs
      BY <2>1, <2>2
    <2> HIDE DEF f
    <2> QED
      BY <2>3, <2>6, <2>7 DEF f
  <1>4. <<c, E2>> \in Q
    <2>1. Q \in SUBSET (Maps \X SUBSET Pairs)
      OBVIOUS
    <2> HIDE DEF Q
    <2> QED
      BY <1>2, <1>3, <2>1 DEF Walk
  <1> QED
    BY <1>4

\* One walk after the other.
LEMMA WalkAlong ==
    ASSUME NEW F \in Functors, NEW n \in Nat, NEW h, h[0] \in Maps,
           NEW K \in [1 .. n -> SUBSET Pairs],
           \A j \in 1 .. n : Walk(F, h[j - 1], h[j], K[j]),
           NEW E, \A e : e \in E <=> \E j \in 1 .. n : e \in K[j]
    PROVE  Walk(F, h[0], h[n], E)
  <1> DEFINE Upto(i) == UNION {K[j] : j \in 1 .. i}
             V == {i \in 0 .. n : Walk(F, h[0], h[i], Upto(i))}
  <1>1. 0 \in V
    <2>1. Upto(0) = {} /\ 0 \in 0 .. n
      OBVIOUS
    <2> HIDE DEF Upto
    <2> QED
      BY <2>1, WalkNone
  <1>2. ASSUME NEW i \in 1 .. n, i - 1 \in V PROVE i \in V
    <2>1. Upto(i) = Upto(i - 1) \cup K[i]
      <3>1. 1 .. i = (1 .. i - 1) \cup {i}
        OBVIOUS
      <3> QED
        BY <3>1
    <2>2. Upto(i - 1) \in SUBSET Pairs /\ K[i] \in SUBSET Pairs
      <3>1. \A j \in 1 .. i - 1 : j \in 1 .. n
        OBVIOUS
      <3> QED
        BY <3>1
    <2>3. Walk(F, h[0], h[i - 1], Upto(i - 1)) /\ i \in 0 .. n
      BY <1>2
    <2> HIDE DEF Upto
    <2>4. Walk(F, h[0], h[i], Upto(i - 1) \cup K[i])
      BY <2>2, <2>3, WalkThen
    <2> QED
      BY <2>1, <2>3, <2>4
  <1>3. 0 .. n \subseteq V
    <2> HIDE DEF V
    <2> QED
      BY <1>1, <1>2, Induction
  <1>4. n \in V
    <2>1. n \in 0 .. n
      OBVIOUS
    <2> HIDE DEF V
    <2> QED
      BY <1>3, <2>1
  <1>5. Upto(n) = E
    OBVIOUS
  <1> QED
    BY <1>4, <1>5
-----------------------------------------------------------------------------
(* Vertex subsets.                                                         *)

Members(vs) ==
    CASE vs.all -> Capacity
      [] ~vs.all /\ vs.is_sparse -> ToSet(vs.queue)
      [] OTHER -> vs.ba
Once(vs) == vs \in Subsets /\ IsInjective(vs.queue)

LEMMA AppendOnce ==
    ASSUME NEW S, NEW q \in Seq(S), NEW x \in S
    PROVE  /\ Append(q, x) \in Seq(S) /\ ToSet(Append(q, x)) = ToSet(q) \cup {x}
           /\ IsInjective(q) /\ x \notin ToSet(q) => IsInjective(Append(q, x))
  <1> DEFINE t == Append(q, x)
             n == Len(q)
  <1>1. /\ n \in Nat /\ DOMAIN q = 1 .. n /\ t \in Seq(S)
        /\ DOMAIN t = 1 .. n + 1 /\ t[n + 1] = x /\ \A i \in 1 .. n : t[i] = q[i]
    OBVIOUS
  <1>2. 1 .. n + 1 = (1 .. n) \cup {n + 1} /\ n + 1 \notin 1 .. n
    BY <1>1
  <1> HIDE DEF t, n
  <1>3. ToSet(t) = ToSet(q) \cup {x}
    BY <1>1, <1>2 DEF ToSet
  <1>4. ASSUME IsInjective(q), x \notin ToSet(q) PROVE IsInjective(t)
    <2>1. \A i \in 1 .. n : q[i] # x
      BY <1>1, <1>4 DEF ToSet
    <2>2. \A i, j \in 1 .. n : q[i] = q[j] => i = j
      BY <1>1, <1>4 DEF IsInjective
    <2>3. ASSUME NEW i \in 1 .. n + 1, NEW j \in 1 .. n + 1, t[i] = t[j] PROVE i = j
      BY <1>1, <1>2, <2>1, <2>2, <2>3
    <2> QED
      BY <1>1, <2>3 DEF IsInjective
  <1> QED
    BY <1>1, <1>3, <1>4 DEF t

LEMMA AscendingFacts ==
    ASSUME num_vertices \in Nat, NEW S \in SUBSET Capacity
    PROVE  /\ Ascending(S, num_vertices) \in Seq(Capacity)
           /\ ToSet(Ascending(S, num_vertices)) = S
           /\ IsInjective(Ascending(S, num_vertices))
  <1> DEFINE N == num_vertices
             T == Seq(Capacity)
             op(b, i) == IF i - 1 \in S THEN Append(b, i - 1) ELSE b
             step == [i \in 1 .. N |-> [b \in T |-> op(b, i)]]
             Eqn(f) == f = [i \in 0 .. N |-> IF i = 0 THEN <<>> ELSE op(f[i - 1], i)]
             upTo == CHOOSE f : Eqn(f)
  <1>1. <<>> \in T /\ \A i \in 1 .. N : \A b \in T : op(b, i) \in T
    OBVIOUS
  <1>2. Ascending(S, N) = upTo[N]
    BY DEF Ascending
  <1> HIDE DEF op, T
  <1>3. Steps(step, N, T)
    BY <1>1 DEF Steps
  <1>4. \A i \in 1 .. N : \A b \in T : step[i][b] = op(b, i)
    OBVIOUS
  <1> HIDE DEF step
  <1>5. PICK h : Follows(h, step, <<>>, N, T)
    BY <1>1, <1>3, Recursion
  <1>6. Eqn(h)
    <2>1. h \in [0 .. N -> T] /\ h[0] = <<>> /\ \A i \in 1 .. N : h[i] = step[i][h[i - 1]]
      BY <1>5 DEF Follows
    <2>2. \A i \in 1 .. N : i - 1 \in 0 .. N
      OBVIOUS
    <2>3. ASSUME NEW i \in 0 .. N
          PROVE  h[i] = IF i = 0 THEN <<>> ELSE op(h[i - 1], i)
      <3>1. i # 0 => i \in 1 .. N
        OBVIOUS
      <3> QED
        BY <1>4, <2>1, <2>2, <3>1
    <2> QED
      BY <2>1, <2>3
  <1>7. Eqn(upTo)
    <2> HIDE DEF Eqn
    <2> QED
      BY <1>6
  <1> HIDE DEF upTo
  <1>8. \A i \in 0 .. N : upTo[i] = IF i = 0 THEN <<>> ELSE op(upTo[i - 1], i)
    BY <1>7, Zenon
  <1>9. upTo[0] = <<>> /\ \A i \in 1 .. N : upTo[i] = op(upTo[i - 1], i)
    <2>1. 0 \in 0 .. N /\ \A i \in 1 .. N : i \in 0 .. N /\ i # 0
      OBVIOUS
    <2> QED
      BY <1>8, <2>1
  <1> DEFINE V == {i \in 0 .. N : /\ upTo[i] \in T /\ IsInjective(upTo[i])
                                  /\ ToSet(upTo[i]) = {v \in S : v < i}}
  <1>10. 0 \in V
    <2>1. \A v \in S : v \in 0 .. N - 1
      BY DEF Capacity
    <2>2. {v \in S : v < 0} = {}
      BY <2>1
    <2>3. IsInjective(<<>>) /\ ToSet(<<>>) = {}
      BY DEF IsInjective, ToSet
    <2>4. 0 \in 0 .. N
      OBVIOUS
    <2> QED
      BY <1>1, <1>9, <2>2, <2>3, <2>4
  <1>11. ASSUME NEW i \in 1 .. N, i - 1 \in V PROVE i \in V
    <2> DEFINE b == upTo[i - 1]
               Below(k) == {v \in S : v < k}
    <2>1. b \in T /\ IsInjective(b) /\ ToSet(b) = Below(i - 1) /\ i \in 0 .. N
      BY <1>11
    <2>2. \A v \in S : v \in 0 .. N - 1 /\ (v < i <=> v < i - 1 \/ v = i - 1)
      BY DEF Capacity
    <2>3. CASE i - 1 \in S
      <3>1. upTo[i] = Append(b, i - 1)
        BY <1>9, <2>3 DEF op
      <3>2. i - 1 \notin ToSet(b) /\ i - 1 \in Capacity
        BY <2>1, <2>3
      <3>3. Below(i) = Below(i - 1) \cup {i - 1}
        BY <2>2, <2>3
      <3> HIDE DEF b, Below
      <3>4. /\ upTo[i] \in T /\ IsInjective(upTo[i])
            /\ ToSet(upTo[i]) = ToSet(b) \cup {i - 1}
        BY <2>1, <3>1, <3>2, AppendOnce DEF T
      <3> QED
        BY <2>1, <3>3, <3>4 DEF Below
    <2>4. CASE i - 1 \notin S
      <3>1. upTo[i] = b
        BY <1>9, <2>4 DEF op
      <3>2. Below(i) = Below(i - 1)
        BY <2>2, <2>4
      <3> HIDE DEF b
      <3> QED
        BY <2>1, <3>1, <3>2
    <2> QED
      BY <2>3, <2>4
  <1>12. N \in V
    <2>1. 0 .. N \subseteq V
      <3> HIDE DEF V, N
      <3> QED
        BY <1>10, <1>11, Induction DEF N
    <2> HIDE DEF V
    <2> QED
      BY <2>1
  <1>13. {v \in S : v < N} = S
    <2>1. \A v \in S : v \in 0 .. N - 1
      BY DEF Capacity
    <2>2. \A v \in S : v < N
      BY <2>1
    <2> QED
      BY <2>2
  <1> QED
    BY <1>2, <1>12, <1>13 DEF T

LEMMA IdsFacts ==
    ASSUME num_vertices \in Nat
    PROVE  /\ Ids(num_vertices) \in Seq(Capacity) /\ ToSet(Ids(num_vertices)) = Capacity
           /\ IsInjective(Ids(num_vertices)) /\ Len(Ids(num_vertices)) = num_vertices
           /\ \A i \in 1 .. num_vertices : Ids(num_vertices)[i] = i - 1
  <1> DEFINE n == num_vertices
             q == Ids(n)
  <1>1. q = [i \in 1 .. n |-> i - 1]
    BY DEF Ids
  <1>2. \A i \in 1 .. n : i - 1 \in Capacity
    BY DEF Capacity
  <1>3. q \in Seq(Capacity) /\ Len(q) = n /\ DOMAIN q = 1 .. n
    BY <1>1, <1>2
  <1>4. ASSUME NEW v \in Capacity PROVE v + 1 \in 1 .. n /\ q[v + 1] = v
    BY <1>1 DEF Capacity
  <1> HIDE DEF q
  <1>5. ToSet(q) = Capacity
    BY <1>1, <1>2, <1>3, <1>4 DEF ToSet
  <1>6. IsInjective(q)
    BY <1>1, <1>3 DEF IsInjective
  <1> QED
    BY <1>1, <1>3, <1>5, <1>6 DEF q

\* The elements of a subset are visited once each.
LEMMA ElementsFacts ==
    ASSUME num_vertices \in Nat, NEW vs, Once(vs)
    PROVE  /\ Elements(vs) \in Seq(Capacity) /\ ToSet(Elements(vs)) = Members(vs)
           /\ IsInjective(Elements(vs)) /\ Members(vs) \in SUBSET Capacity
  <1>1. /\ vs.max_el = num_vertices /\ vs.queue \in Seq(Capacity)
        /\ vs.ba \in SUBSET Capacity /\ IsInjective(vs.queue)
    BY DEF Once, Subsets
  <1>2. CASE vs.all
    BY <1>1, <1>2, IdsFacts DEF Elements, Members
  <1>3. CASE ~vs.all /\ vs.is_sparse
    <2>1. ToSet(vs.queue) \in SUBSET Capacity
      BY <1>1 DEF ToSet
    <2> QED
      BY <1>1, <1>3, <2>1 DEF Elements, Members
  <1>4. CASE ~vs.all /\ ~vs.is_sparse
    BY <1>1, <1>4, AscendingFacts DEF Elements, Members
  <1> QED
    BY <1>2, <1>3, <1>4

LEMMA EmptyFacts ==
    ASSUME num_vertices \in Nat \ {0}, NEW vs, Once(vs)
    PROVE  not_empty(vs) <=> Members(vs) # {}
  <1>1. vs.queue \in Seq(Capacity)
    BY DEF Once, Subsets
  <1>2. 0 \in Capacity
    BY DEF Capacity
  <1>3. vs.queue # <<>> <=> ToSet(vs.queue) # {}
    <2>1. ASSUME vs.queue # <<>> PROVE vs.queue[1] \in ToSet(vs.queue)
      BY <1>1, <2>1 DEF ToSet
    <2>2. ToSet(<<>>) = {}
      BY DEF ToSet
    <2> QED
      BY <2>1, <2>2
  <1> QED
    BY <1>2, <1>3 DEF not_empty, Members

\* Conversions keep the members; the output starts empty and takes members one
\* by one.
LEMMA ConvertFacts ==
    ASSUME num_vertices \in Nat, NEW vs, Once(vs)
    PROVE  /\ Once(convert_to_sparse(vs)) /\ Members(convert_to_sparse(vs)) = Members(vs)
           /\ Once(convert_to_dense(vs)) /\ Members(convert_to_dense(vs)) = Members(vs)
           /\ convert_to_dense(vs).all \/ ~convert_to_dense(vs).is_sparse
           /\ Once(Similar(vs)) /\ Members(Similar(vs)) = {} /\ ~Similar(vs).all
  <1>1. /\ vs \in Subsets /\ vs.max_el = num_vertices /\ vs.queue \in Seq(Capacity)
        /\ vs.ba \in SUBSET Capacity /\ IsInjective(vs.queue)
    BY DEF Once, Subsets
  <1>2. IsInjective(<<>>) /\ ToSet(<<>>) = {} /\ <<>> \in Seq(Capacity)
    BY DEF IsInjective, ToSet
  <1>3. /\ Once(convert_to_sparse(vs)) /\ Members(convert_to_sparse(vs)) = Members(vs)
    <2> DEFINE q == Ascending(vs.ba, num_vertices)
    <2>1. q \in Seq(Capacity) /\ ToSet(q) = vs.ba /\ IsInjective(q)
      BY <1>1, AscendingFacts
    <2>2. CASE vs.all \/ vs.is_sparse
      BY <2>2 DEF convert_to_sparse
    <2>3. CASE ~vs.all /\ ~vs.is_sparse
      <3>1. convert_to_sparse(vs) = [vs EXCEPT !.is_sparse = TRUE, !.queue = q]
        BY <1>1, <2>3 DEF convert_to_sparse
      <3> HIDE DEF q
      <3> QED
        BY <1>1, <2>1, <2>3, <3>1 DEF Once, Subsets, Members
    <2> QED
      BY <2>2, <2>3
  <1>4. /\ Once(convert_to_dense(vs)) /\ Members(convert_to_dense(vs)) = Members(vs)
        /\ convert_to_dense(vs).all \/ ~convert_to_dense(vs).is_sparse
    <2>1. ToSet(vs.queue) \in SUBSET Capacity
      BY <1>1 DEF ToSet
    <2>2. CASE vs.all \/ ~vs.is_sparse
      BY <2>2 DEF convert_to_dense
    <2>3. CASE ~vs.all /\ vs.is_sparse
      <3>1. convert_to_dense(vs) = [vs EXCEPT !.is_sparse = FALSE, !.ba = ToSet(vs.queue)]
        BY <2>3 DEF convert_to_dense
      <3> QED
        BY <1>1, <2>1, <2>3, <3>1 DEF Once, Subsets, Members
    <2> QED
      BY <2>2, <2>3
  <1>5. Once(Similar(vs)) /\ Members(Similar(vs)) = {} /\ ~Similar(vs).all
    BY <1>1, <1>2 DEF Similar, Once, Subsets, Members
  <1> QED
    BY <1>3, <1>4, <1>5

LEMMA InsertFacts ==
    ASSUME NEW vs, Once(vs), ~vs.all, NEW v \in Capacity, v \notin Members(vs)
    PROVE  /\ Once(insert(vs, v)) /\ ~insert(vs, v).all
           /\ Members(insert(vs, v)) = Members(vs) \cup {v}
  <1>1. /\ vs \in Subsets /\ vs.queue \in Seq(Capacity)
        /\ vs.ba \in SUBSET Capacity /\ IsInjective(vs.queue)
    BY DEF Once, Subsets
  <1>2. CASE vs.is_sparse
    <2> DEFINE q == Append(vs.queue, v)
    <2>1. /\ q \in Seq(Capacity) /\ ToSet(q) = ToSet(vs.queue) \cup {v} /\ IsInjective(q)
      BY <1>1, <1>2, AppendOnce DEF Members
    <2>2. insert(vs, v) = [vs EXCEPT !.queue = q]
      BY <1>1, <1>2 DEF insert
    <2> HIDE DEF q
    <2> QED
      BY <1>1, <1>2, <2>1, <2>2 DEF Once, Subsets, Members
  <1>3. CASE ~vs.is_sparse
    <2>1. insert(vs, v) = [vs EXCEPT !.ba = vs.ba \cup {v}]
      BY <1>1, <1>3 DEF insert
    <2> QED
      BY <1>1, <1>3, <2>1 DEF Once, Subsets, Members
  <1> QED
    BY <1>2, <1>3

-----------------------------------------------------------------------------
(* Sparse or dense, an edge map walks along the edges of its frontier.     *)

ArcsFrom(A) == {e \in Pairs : e[1] \in A /\ e[2] \in Out(e[1])}

LEMMA ListFacts ==
    ASSUME g \in Graphs, NEW u \in Capacity
    PROVE  /\ g.adj[u] \in Seq(L) /\ g.adj[u] \in Seq(Capacity)
           /\ Out(u) \subseteq L /\ Out(u) \subseteq Capacity
           /\ u \notin L => Out(u) = {}
           /\ DOMAIN g.adj[u] = 1 .. Len(g.adj[u]) /\ Len(g.adj[u]) \in Nat
           /\ Out(u) = {g.adj[u][i] : i \in 1 .. Len(g.adj[u])}
  <1> DEFINE q == g.adj[u]
  <1>1. L \subseteq Capacity /\ u \in Nat /\ (u < g.n <=> u \in L)
    BY GraphFacts DEF L, Capacity
  <1>2. q \in Seq(IF u < g.n THEN 0 .. g.n - 1 ELSE {})
    BY GraphsAssumption
  <1>3. q \in Seq(L) /\ (u \notin L => q \in Seq({}))
    <2>1. CASE u \in L
      BY <1>1, <1>2, <2>1 DEF L
    <2>2. CASE u \notin L
      <3>1. q \in Seq({})
        BY <1>1, <1>2, <2>2
      <3>2. q = <<>>
        BY <3>1
      <3> QED
        BY <2>2, <3>1, <3>2
    <2> QED
      BY <2>1, <2>2
  <1> HIDE DEF q
  <1>4. q \in Seq(Capacity)
    <2>1. q = [i \in 1 .. Len(q) |-> q[i]] /\ \A i \in 1 .. Len(q) : q[i] \in L
      BY <1>3
    <2>2. \A i \in 1 .. Len(q) : q[i] \in Capacity
      BY <1>1, <2>1
    <2> QED
      BY <1>3, <2>2
  <1>5. DOMAIN q = 1 .. Len(q) /\ Len(q) \in Nat
    BY <1>3
  <1>6. Out(u) = {q[i] : i \in 1 .. Len(q)}
    BY <1>5 DEF Out, ToSet, q
  <1>7. Out(u) \subseteq L
    BY <1>3, <1>6
  <1>8. u \notin L => Out(u) = {}
    BY <1>3, <1>6
  <1> QED
    BY <1>1, <1>3, <1>4, <1>5, <1>6, <1>7, <1>8 DEF q

\* A loop that follows the edges E[i] with i in K.
FollowEqn(F, f, a, n, E, K) ==
    f = [i \in 0 .. n |->
           IF i = 0 THEN a
           ELSE IF i \in K THEN Follow(F, f[i - 1], E[i][1], E[i][2]) ELSE f[i - 1]]

LEMMA FollowRuns ==
    ASSUME NEW F \in Functors, NEW n \in Nat, NEW a \in Maps,
           NEW E \in [1 .. n -> Pairs], NEW K \in SUBSET (1 .. n)
    PROVE  /\ \E f : FollowEqn(F, f, a, n, E, K)
           /\ \A f : FollowEqn(F, f, a, n, E, K) =>
                f[n] \in Maps /\ Walk(F, a, f[n], {E[i] : i \in K})
  <1> DEFINE op(b, i) == IF i \in K THEN Follow(F, b, E[i][1], E[i][2]) ELSE b
             step == [i \in 1 .. n |-> [b \in Maps |-> op(b, i)]]
             arcs == [i \in 1 .. n |-> IF i \in K THEN {E[i]} ELSE {}]
  <1>1. \A i \in 1 .. n : E[i] \in Pairs /\ E[i][1] \in Capacity /\ E[i][2] \in Capacity
                          /\ E[i] = <<E[i][1], E[i][2]>>
    BY DEF Pairs
  <1>2. ASSUME NEW i \in 1 .. n, NEW b \in Maps
        PROVE  op(b, i) \in Maps /\ Walk(F, b, op(b, i), arcs[i])
    <2>1. CASE i \in K
      <3>1. op(b, i) = Follow(F, b, E[i][1], E[i][2]) /\ arcs[i] = {<<E[i][1], E[i][2]>>}
        BY <1>1, <2>1
      <3> HIDE DEF op, arcs
      <3> QED
        BY <1>1, <3>1, FollowType, WalkOne
    <2>2. CASE i \notin K
      BY <2>2, WalkNone
    <2> QED
      BY <2>1, <2>2
  <1>3. /\ arcs \in [1 .. n -> SUBSET Pairs]
        /\ \A e : e \in {E[i] : i \in K} <=> \E i \in 1 .. n : e \in arcs[i]
    BY <1>1
  <1>4. \A f : FollowEqn(F, f, a, n, E, K)
                 <=> f = [i \in 0 .. n |-> IF i = 0 THEN a ELSE op(f[i - 1], i)]
    BY DEF FollowEqn
  <1> HIDE DEF op, arcs
  <1>5. Steps(step, n, Maps)
    BY <1>2 DEF Steps
  <1>6. \A i \in 1 .. n : \A b \in Maps : step[i][b] = op(b, i)
    OBVIOUS
  <1> HIDE DEF step
  <1>7. PICK h : Follows(h, step, a, n, Maps)
    BY <1>5, Recursion
  <1>8. h = [i \in 0 .. n |-> IF i = 0 THEN a ELSE op(h[i - 1], i)]
    <2>1. h \in [0 .. n -> Maps] /\ h[0] = a /\ \A i \in 1 .. n : h[i] = step[i][h[i - 1]]
      BY <1>7 DEF Follows
    <2>2. \A i \in 1 .. n : i - 1 \in 0 .. n
      OBVIOUS
    <2>3. ASSUME NEW i \in 0 .. n
          PROVE  h[i] = IF i = 0 THEN a ELSE op(h[i - 1], i)
      <3>1. i # 0 => i \in 1 .. n
        OBVIOUS
      <3> QED
        BY <1>6, <2>1, <2>2, <3>1
    <2> QED
      BY <2>1, <2>3
  <1>9. ASSUME NEW f, f = [i \in 0 .. n |-> IF i = 0 THEN a ELSE op(f[i - 1], i)]
        PROVE  f[n] \in Maps /\ Walk(F, a, f[n], {E[i] : i \in K})
    <2>1. DefinedOn(f, n)
      BY <1>9 DEF DefinedOn
    <2>2. \A i \in 0 .. n : f[i] = IF i = 0 THEN a ELSE op(f[i - 1], i)
      BY <1>9, Zenon
    <2>3. f[0] = a /\ \A i \in 1 .. n : f[i] = op(f[i - 1], i)
      <3>1. 0 \in 0 .. n /\ \A i \in 1 .. n : i \in 0 .. n /\ i # 0
        OBVIOUS
      <3> QED
        BY <2>2, <3>1
    <2>4. Follows(f, step, a, n, Maps)
      BY <1>5, <1>6, <2>1, <2>3, StepsFollow
    <2>5. f \in [0 .. n -> Maps] /\ \A i \in 1 .. n : i - 1 \in 0 .. n
      BY <2>4 DEF Follows
    <2>6. \A i \in 1 .. n : Walk(F, f[i - 1], f[i], arcs[i])
      BY <1>2, <2>3, <2>5
    <2>7. Walk(F, f[0], f[n], {E[i] : i \in K})
      <3> DEFINE U == {E[i] : i \in K}
      <3>1. f[0] \in Maps /\ \A e : e \in U <=> \E i \in 1 .. n : e \in arcs[i]
        BY <1>3, <2>3
      <3> HIDE DEF U
      <3>2. Walk(F, f[0], f[n], U)
        BY <1>3, <2>6, <3>1, WalkAlong
      <3> QED
        BY <3>2 DEF U
    <2>8. n \in 0 .. n
      OBVIOUS
    <2> QED
      BY <1>3, <2>3, <2>5, <2>7, <2>8
  <1> QED
    BY <1>4, <1>8, <1>9

LEMMA SparseRow ==
    ASSUME g \in Graphs, NEW F \in Functors, NEW a \in Maps, NEW u \in Capacity
    PROVE  /\ map_sparse(F, g, a, u) \in Maps
           /\ Walk(F, a, map_sparse(F, g, a, u), {<<u, w>> : w \in Out(u)})
  <1> DEFINE q == g.adj[u]
             n == Len(q)
             E == [i \in 1 .. n |-> <<u, q[i]>>]
             K == 1 .. n
             Eqn(f) == f = [i \in 0 .. n |->
                              IF i = 0 THEN a ELSE Follow(F, f[i - 1], u, q[i])]
             after == CHOOSE f : Eqn(f)
  <1>1. q \in Seq(Capacity) /\ n \in Nat /\ Out(u) = {q[i] : i \in 1 .. n}
    BY ListFacts
  <1>2. map_sparse(F, g, a, u) = after[n]
    BY DEF map_sparse, ForEach
  <1> HIDE DEF q, n
  <1>3. E \in [1 .. n -> Pairs] /\ K \in SUBSET (1 .. n)
    <2>1. \A i \in 1 .. n : q[i] \in Capacity
      BY <1>1 DEF n
    <2> QED
      BY <2>1 DEF Pairs
  <1>4. {E[i] : i \in K} = {<<u, w>> : w \in Out(u)}
    BY <1>1
  <1>5. \A f : Eqn(f) <=> FollowEqn(F, f, a, n, E, K)
    <2>1. ASSUME NEW i \in 0 .. n, i # 0 PROVE i \in K /\ E[i][1] = u /\ E[i][2] = q[i]
      <3>1. i \in 1 .. n
        BY <1>1, <2>1
      <3> QED
        BY <3>1
    <2> HIDE DEF E, K
    <2>2. \A f : \A i \in 0 .. n :
            (IF i = 0 THEN a ELSE Follow(F, f[i - 1], u, q[i]))
              = (IF i = 0 THEN a
                 ELSE IF i \in K THEN Follow(F, f[i - 1], E[i][1], E[i][2]) ELSE f[i - 1])
      BY <2>1
    <2> QED
      BY <2>2 DEF FollowEqn
  <1> HIDE DEF E, K, Eqn
  <1>6. Eqn(after)
    BY <1>1, <1>3, <1>5, FollowRuns
  <1> HIDE DEF after
  <1>7. after[n] \in Maps /\ Walk(F, a, after[n], {E[i] : i \in K})
    BY <1>1, <1>3, <1>5, <1>6, FollowRuns
  <1> QED
    BY <1>2, <1>4, <1>7

LEMMA DenseRowAll ==
    ASSUME g \in Graphs, NEW F \in Functors, NEW a \in Maps, NEW u \in Capacity
    PROVE  /\ map_dense_vs_all(F, g, a, u) \in Maps
           /\ Walk(F, a, map_dense_vs_all(F, g, a, u), {<<w, u>> : w \in Out(u)})
  <1> DEFINE q == g.adj[u]
             n == Len(q)
             E == [i \in 1 .. n |-> <<q[i], u>>]
             K == 1 .. n
             Eqn(f) == f = [i \in 0 .. n |->
                              IF i = 0 THEN a ELSE Follow(F, f[i - 1], q[i], u)]
             after == CHOOSE f : Eqn(f)
  <1>1. q \in Seq(Capacity) /\ n \in Nat /\ Out(u) = {q[i] : i \in 1 .. n}
    BY ListFacts
  <1>2. map_dense_vs_all(F, g, a, u) = after[n]
    BY DEF map_dense_vs_all, ForEach
  <1> HIDE DEF q, n
  <1>3. E \in [1 .. n -> Pairs] /\ K \in SUBSET (1 .. n)
    <2>1. \A i \in 1 .. n : q[i] \in Capacity
      BY <1>1 DEF n
    <2> QED
      BY <2>1 DEF Pairs
  <1>4. {E[i] : i \in K} = {<<w, u>> : w \in Out(u)}
    BY <1>1
  <1>5. \A f : Eqn(f) <=> FollowEqn(F, f, a, n, E, K)
    <2>1. ASSUME NEW i \in 0 .. n, i # 0 PROVE i \in K /\ E[i][1] = q[i] /\ E[i][2] = u
      <3>1. i \in 1 .. n
        BY <1>1, <2>1
      <3> QED
        BY <3>1
    <2> HIDE DEF E, K
    <2>2. \A f : \A i \in 0 .. n :
            (IF i = 0 THEN a ELSE Follow(F, f[i - 1], q[i], u))
              = (IF i = 0 THEN a
                 ELSE IF i \in K THEN Follow(F, f[i - 1], E[i][1], E[i][2]) ELSE f[i - 1])
      BY <2>1
    <2> QED
      BY <2>2 DEF FollowEqn
  <1> HIDE DEF E, K, Eqn
  <1>6. Eqn(after)
    BY <1>1, <1>3, <1>5, FollowRuns
  <1> HIDE DEF after
  <1>7. after[n] \in Maps /\ Walk(F, a, after[n], {E[i] : i \in K})
    BY <1>1, <1>3, <1>5, <1>6, FollowRuns
  <1> QED
    BY <1>2, <1>4, <1>7

LEMMA DenseRowSome ==
    ASSUME g \in Graphs, NEW F \in Functors, NEW a \in Maps, NEW u \in Capacity, NEW vs
    PROVE  /\ map_dense_vs_not_all(F, g, vs, a, u) \in Maps
           /\ Walk(F, a, map_dense_vs_not_all(F, g, vs, a, u),
                   {<<w, u>> : w \in Out(u) \cap vs.ba})
  <1> DEFINE q == g.adj[u]
             n == Len(q)
             E == [i \in 1 .. n |-> <<q[i], u>>]
             K == {i \in 1 .. n : q[i] \in vs.ba}
             Eqn(f) == f = [i \in 0 .. n |->
                              IF i = 0 THEN a
                              ELSE IF q[i] \in vs.ba THEN Follow(F, f[i - 1], q[i], u)
                              ELSE f[i - 1]]
             after == CHOOSE f : Eqn(f)
  <1>1. q \in Seq(Capacity) /\ n \in Nat /\ Out(u) = {q[i] : i \in 1 .. n}
    BY ListFacts
  <1>2. map_dense_vs_not_all(F, g, vs, a, u) = after[n]
    BY DEF map_dense_vs_not_all, ForEach
  <1> HIDE DEF q, n
  <1>3. E \in [1 .. n -> Pairs] /\ K \in SUBSET (1 .. n)
    <2>1. \A i \in 1 .. n : q[i] \in Capacity
      BY <1>1 DEF n
    <2> QED
      BY <2>1 DEF Pairs
  <1>4. {E[i] : i \in K} = {<<w, u>> : w \in Out(u) \cap vs.ba}
    BY <1>1
  <1>5. \A f : Eqn(f) <=> FollowEqn(F, f, a, n, E, K)
    <2>1. ASSUME NEW i \in 0 .. n, i # 0
          PROVE  (i \in K <=> q[i] \in vs.ba) /\ E[i][1] = q[i] /\ E[i][2] = u
      <3>1. i \in 1 .. n
        BY <1>1, <2>1
      <3> QED
        BY <3>1
    <2> HIDE DEF E, K
    <2>2. \A f : \A i \in 0 .. n :
            (IF i = 0 THEN a
             ELSE IF q[i] \in vs.ba THEN Follow(F, f[i - 1], q[i], u) ELSE f[i - 1])
              = (IF i = 0 THEN a
                 ELSE IF i \in K THEN Follow(F, f[i - 1], E[i][1], E[i][2]) ELSE f[i - 1])
      BY <2>1
    <2> QED
      BY <2>2 DEF FollowEqn
  <1> HIDE DEF E, K, Eqn
  <1>6. Eqn(after)
    BY <1>1, <1>3, <1>5, FollowRuns
  <1> HIDE DEF after
  <1>7. after[n] \in Maps /\ Walk(F, a, after[n], {E[i] : i \in K})
    BY <1>1, <1>3, <1>5, <1>6, FollowRuns
  <1> QED
    BY <1>2, <1>4, <1>7

\* Nothing is lost by leaving out what needs no more.
LEMMA NoRow ==
    ASSUME g \in Graphs, NEW F \in Functors, NEW a \in Maps, NEW u \in Capacity,
           ~Cond(F, a, u), NEW S
    PROVE  Walk(F, a, a, {<<w, u>> : w \in Out(u) \cap S})
  <1> DEFINE q == g.adj[u]
             n == Len(q)
             E == [i \in 1 .. n |-> <<q[i], u>>]
             K == {i \in 1 .. n : q[i] \in S}
             f == [i \in 0 .. n |-> a]
  <1>1. q \in Seq(Capacity) /\ n \in Nat /\ Out(u) = {q[i] : i \in 1 .. n}
    BY ListFacts
  <1> HIDE DEF q
  <1>2. E \in [1 .. n -> Pairs] /\ K \in SUBSET (1 .. n)
    <2>1. \A i \in 1 .. n : q[i] \in Capacity
      BY <1>1
    <2> QED
      BY <2>1 DEF Pairs
  <1>3. {E[i] : i \in K} = {<<w, u>> : w \in Out(u) \cap S}
    BY <1>1
  <1>4. \A s : Follow(F, a, s, u) = a
    BY DEF Follow
  <1>5. FollowEqn(F, f, a, n, E, K)
    <2>1. ASSUME NEW i \in 0 .. n
          PROVE  a = IF i = 0 THEN a
                     ELSE IF i \in K THEN Follow(F, f[i - 1], E[i][1], E[i][2]) ELSE f[i - 1]
      <3>1. CASE i # 0
        <4>1. f[i - 1] = a
          BY <1>1, <3>1
        <4>2. i \in K => E[i][2] = u
          OBVIOUS
        <4> HIDE DEF f, E, K
        <4> QED
          BY <1>4, <4>1, <4>2
      <3> QED
        BY <3>1
    <2> HIDE DEF E, K
    <2> QED
      BY <2>1 DEF FollowEqn
  <1>6. f[n] = a
    BY <1>1
  <1> HIDE DEF E, K, f, n
  <1>7. Walk(F, a, f[n], {E[i] : i \in K})
    BY <1>1, <1>2, <1>5, FollowRuns
  <1> QED
    BY <1>3, <1>6, <1>7

\* A loop over the vertices q of which each one walks along the edges K[i].

LEMMA RowsWalk ==
    ASSUME NEW F \in Functors, NEW n \in Nat, NEW a \in Maps, NEW row, NEW f,
           Follows(f, row, a, n, Maps), NEW K \in [1 .. n -> SUBSET Pairs],
           \A i \in 1 .. n : \A b \in Maps : Walk(F, b, row[i][b], K[i]),
           NEW E, \A e : e \in E <=> \E i \in 1 .. n : e \in K[i]
    PROVE  f[n] \in Maps /\ Walk(F, a, f[n], E)
  <1>1. /\ f \in [0 .. n -> Maps] /\ f[0] = a
        /\ \A i \in 1 .. n : f[i] = row[i][f[i - 1]]
    BY DEF Follows
  <1>2. n \in 0 .. n /\ 0 \in 0 .. n /\ \A i \in 1 .. n : i - 1 \in 0 .. n
    OBVIOUS
  <1>3. \A i \in 1 .. n : Walk(F, f[i - 1], f[i], K[i])
    BY <1>1, <1>2
  <1>4. Walk(F, f[0], f[n], E)
    BY <1>1, <1>3, WalkAlong
  <1> QED
    BY <1>1, <1>2, <1>4

LEMMA SparseWalk ==
    ASSUME g \in Graphs, NEW F \in Functors, NEW vs, Once(vs), NEW arrays,
           arrays.val \in [Capacity -> Int], arrays.aux \in [Capacity -> Int]
    PROVE  LET a == [val |-> arrays.val, aux |-> arrays.aux,
                     out |-> Similar(convert_to_sparse(vs))]
               m == EdgeMapSparse(F, g, vs, arrays)
           IN  m \in Maps /\ Walk(F, a, m, ArcsFrom(Members(vs)))
  <1> DEFINE from == convert_to_sparse(vs)
             a == [val |-> arrays.val, aux |-> arrays.aux, out |-> Similar(from)]
             q == Elements(from)
             n == Len(q)
             op(b, i) == map_sparse(F, g, b, q[i])
             row == [i \in 1 .. n |-> [b \in Maps |-> op(b, i)]]
             K == [i \in 1 .. n |-> {<<q[i], w>> : w \in Out(q[i])}]
             E == ArcsFrom(Members(vs))
             Eqn(f) == f = [i \in 0 .. n |-> IF i = 0 THEN a ELSE op(f[i - 1], i)]
             after == CHOOSE f : Eqn(f)
  <1>1. num_vertices \in Nat
    BY GraphFacts
  <1>2. Once(from) /\ Members(from) = Members(vs) /\ Once(Similar(from))
    BY <1>1, ConvertFacts
  <1>3. q \in Seq(Capacity) /\ ToSet(q) = Members(vs) /\ Members(vs) \in SUBSET Capacity
    BY <1>1, <1>2, ElementsFacts
  <1>4. a \in Maps
    BY <1>2 DEF Maps, Once
  <1>5. EdgeMapSparse(F, g, vs, arrays) = after[n]
    BY DEF EdgeMapSparse, ForEach
  <1> HIDE DEF q, a, from
  <1>6. n \in Nat /\ (\A i \in 1 .. n : q[i] \in Capacity) /\ ToSet(q) = {q[i] : i \in 1 .. n}
    BY <1>3 DEF ToSet
  <1> HIDE DEF n
  <1>7. ASSUME NEW i \in 1 .. n
        PROVE  /\ K[i] \in SUBSET Pairs
               /\ \A b \in Maps : op(b, i) \in Maps /\ Walk(F, b, op(b, i), K[i])
    <2>1. q[i] \in Capacity /\ Out(q[i]) \subseteq Capacity
      BY <1>6, ListFacts
    <2>2. K[i] = {<<q[i], w>> : w \in Out(q[i])}
      OBVIOUS
    <2>3. K[i] \in SUBSET Pairs
      BY <2>1, <2>2 DEF Pairs
    <2>4. \A b \in Maps : op(b, i) \in Maps /\ Walk(F, b, op(b, i), K[i])
      BY <2>1, <2>2, SparseRow
    <2> QED
      BY <2>3, <2>4
  <1>8. \A e : e \in E <=> \E i \in 1 .. n : e \in K[i]
    <2>1. ASSUME NEW e \in E PROVE \E i \in 1 .. n : e \in K[i]
      <3>1. e \in Pairs /\ e[1] \in ToSet(q) /\ e[2] \in Out(e[1]) /\ e = <<e[1], e[2]>>
        BY <1>3 DEF ArcsFrom, Pairs
      <3> QED
        BY <1>6, <3>1
    <2>2. ASSUME NEW i \in 1 .. n, NEW e \in K[i] PROVE e \in E
      <3>1. e \in Pairs
        BY <1>7
      <3>2. PICK w \in Out(q[i]) : e = <<q[i], w>>
        OBVIOUS
      <3>3. e[1] \in Members(vs) /\ e[2] \in Out(e[1])
        BY <1>3, <1>6, <3>2
      <3> QED
        BY <3>1, <3>3 DEF ArcsFrom
    <2> QED
      BY <2>1, <2>2
  <1>9. K \in [1 .. n -> SUBSET Pairs]
    BY <1>7
  <1> HIDE DEF op, K, E
  <1>10. Steps(row, n, Maps) /\ \A i \in 1 .. n : \A b \in Maps : row[i][b] = op(b, i)
    BY <1>7 DEF Steps
  <1> HIDE DEF row
  <1>11. \E h : Eqn(h)
    <2>1. PICK h : Follows(h, row, a, n, Maps)
      BY <1>4, <1>6, <1>10, Recursion
    <2>2. h \in [0 .. n -> Maps] /\ h[0] = a /\ \A i \in 1 .. n : h[i] = row[i][h[i - 1]]
      BY <2>1 DEF Follows
    <2>3. ASSUME NEW i \in 0 .. n PROVE h[i] = IF i = 0 THEN a ELSE op(h[i - 1], i)
      <3>1. i # 0 => i \in 1 .. n /\ i - 1 \in 0 .. n
        BY <1>6
      <3> QED
        BY <1>10, <2>2, <3>1
    <2> QED
      BY <2>2, <2>3
  <1>12. Eqn(after)
    <2> HIDE DEF Eqn
    <2> QED
      BY <1>11
  <1> HIDE DEF after
  <1>13. /\ DefinedOn(after, n) /\ after[0] = a
         /\ \A i \in 1 .. n : after[i] = op(after[i - 1], i)
    <2>1. \A i \in 0 .. n : after[i] = IF i = 0 THEN a ELSE op(after[i - 1], i)
      BY <1>12, Zenon
    <2>2. 0 \in 0 .. n /\ \A i \in 1 .. n : i \in 0 .. n /\ i # 0
      BY <1>6
    <2>3. DefinedOn(after, n)
      BY <1>12 DEF DefinedOn
    <2> QED
      BY <2>1, <2>2, <2>3
  <1>14. /\ \A i \in 1 .. n : \A b \in Maps : Walk(F, b, row[i][b], K[i])
         /\ \A i \in 1 .. n : after[i - 1] \in Maps => after[i] = row[i][after[i - 1]]
    BY <1>7, <1>10, <1>13
  <1> HIDE DEF Eqn
  <1>15. after[n] \in Maps /\ Walk(F, a, after[n], E)
    <2>1. DefinedOn(after, n) /\ after[0] = a /\ n \in Nat
      BY <1>6, <1>13
    <2>2. Steps(row, n, Maps) /\ a \in Maps
      BY <1>4, <1>10
    <2>3. \A i \in 1 .. n : \A b \in Maps : Walk(F, b, row[i][b], K[i])
      BY <1>14
    <2>4. \A i \in 1 .. n : after[i - 1] \in Maps => after[i] = row[i][after[i - 1]]
      BY <1>14
    <2>5. Follows(after, row, a, n, Maps)
      BY <2>1, <2>2, <2>4, StepsFollow
    <2> QED
      BY <1>8, <1>9, <2>1, <2>2, <2>3, <2>5, RowsWalk
  <1> QED
    BY <1>5, <1>15 DEF E, a, from

LEMMA DenseWalk ==
    ASSUME g \in Graphs, Undirected, NEW F \in Functors, NEW vs, Once(vs), NEW arrays,
           arrays.val \in [Capacity -> Int], arrays.aux \in [Capacity -> Int]
    PROVE  LET a == [val |-> arrays.val, aux |-> arrays.aux,
                     out |-> Similar(convert_to_dense(vs))]
               m == EdgeMapDense(F, g, vs, arrays)
           IN  m \in Maps /\ Walk(F, a, m, ArcsFrom(Members(vs)))
  <1> DEFINE from == convert_to_dense(vs)
             a == [val |-> arrays.val, aux |-> arrays.aux, out |-> Similar(from)]
             n == num_vertices
             q == Ids(vs.max_el)
             op(b, u) == CASE ~Cond(F, b, u) -> b
                           [] Cond(F, b, u) /\ from.all -> map_dense_vs_all(F, g, b, u)
                           [] OTHER -> map_dense_vs_not_all(F, g, from, b, u)
             row == [i \in 1 .. n |-> [b \in Maps |-> op(b, q[i])]]
             S == Members(vs)
             K == [i \in 1 .. n |-> {<<w, q[i]>> : w \in Out(q[i]) \cap S}]
             E == ArcsFrom(S)
             Eqn(f) == f = [i \in 0 .. Len(q) |-> IF i = 0 THEN a ELSE op(f[i - 1], q[i])]
             after == CHOOSE f : Eqn(f)
  <1>1. n \in Nat
    BY GraphFacts
  <1>2. /\ Once(from) /\ Members(from) = S /\ Once(Similar(from))
        /\ from.all \/ ~from.is_sparse
    BY <1>1, ConvertFacts
  <1>3. /\ q \in Seq(Capacity) /\ ToSet(q) = Capacity /\ Len(q) = n
        /\ \A i \in 1 .. n : q[i] \in Capacity /\ q[i] = i - 1
    <2>1. vs.max_el = n
      BY DEF Once, Subsets
    <2>2. \A i \in 1 .. n : i - 1 \in Capacity
      BY <1>1 DEF Capacity
    <2> QED
      BY <1>1, <2>1, <2>2, IdsFacts
  <1>4. a \in Maps
    BY <1>2 DEF Maps, Once
  <1>5. EdgeMapDense(F, g, vs, arrays) = after[Len(q)]
    BY DEF EdgeMapDense, ForEach
  <1>6. S \in SUBSET Capacity /\ (from.all => S = Capacity) /\ (~from.all => S = from.ba)
    BY <1>1, <1>2, ElementsFacts DEF Members
  <1> HIDE DEF q, a, from, S
  <1>7. ASSUME NEW u \in Capacity, NEW b \in Maps
        PROVE  op(b, u) \in Maps /\ Walk(F, b, op(b, u), {<<w, u>> : w \in Out(u) \cap S})
    <2>1. CASE ~Cond(F, b, u)
      BY <2>1, NoRow
    <2>2. CASE Cond(F, b, u) /\ from.all
      <3>1. Out(u) \cap S = Out(u)
        BY <1>6, <2>2, ListFacts
      <3>2. op(b, u) = map_dense_vs_all(F, g, b, u)
        BY <2>2
      <3> HIDE DEF op
      <3> QED
        BY <3>1, <3>2, DenseRowAll
    <2>3. CASE Cond(F, b, u) /\ ~from.all
      <3>1. op(b, u) = map_dense_vs_not_all(F, g, from, b, u)
        BY <2>3
      <3>2. S = from.ba
        BY <1>6, <2>3
      <3> HIDE DEF op
      <3> QED
        BY <3>1, <3>2, DenseRowSome
    <2> QED
      BY <2>1, <2>2, <2>3
  <1> HIDE DEF op
  <1>8. ASSUME NEW i \in 1 .. n
        PROVE  /\ K[i] \in SUBSET Pairs
               /\ \A b \in Maps : op(b, q[i]) \in Maps /\ Walk(F, b, op(b, q[i]), K[i])
    <2>1. q[i] \in Capacity /\ Out(q[i]) \subseteq Capacity
      BY <1>3, ListFacts
    <2>2. K[i] = {<<w, q[i]>> : w \in Out(q[i]) \cap S}
      OBVIOUS
    <2>3. K[i] \in SUBSET Pairs
      BY <2>1, <2>2 DEF Pairs
    <2> QED
      BY <1>7, <2>1, <2>2, <2>3
  <1>9. \A e : e \in E <=> \E i \in 1 .. n : e \in K[i]
    <2>1. ASSUME NEW u \in Capacity, NEW w \in Out(u)
          PROVE  w \in Capacity /\ u \in Out(w)
      <3>1. u \in L /\ w \in L /\ w \in Capacity
        BY ListFacts
      <3> QED
        BY <3>1 DEF Undirected, Out
    <2>2. ASSUME NEW e \in E PROVE \E i \in 1 .. n : e \in K[i]
      <3>1. /\ e \in Pairs /\ e[1] \in S /\ e[2] \in Out(e[1]) /\ e = <<e[1], e[2]>>
            /\ e[1] \in Capacity /\ e[2] \in Capacity
        BY DEF ArcsFrom, Pairs
      <3>2. e[1] \in Out(e[2]) /\ e[2] \in Nat /\ e[2] + 1 \in 1 .. n
        BY <1>1, <2>1, <3>1 DEF Capacity
      <3>3. q[e[2] + 1] = e[2]
        BY <1>3, <3>2
      <3>4. e \in K[e[2] + 1]
        BY <3>1, <3>2, <3>3
      <3> QED
        BY <3>2, <3>4
    <2>3. ASSUME NEW i \in 1 .. n, NEW e \in K[i] PROVE e \in E
      <3>1. e \in Pairs /\ q[i] \in Capacity
        BY <1>3, <1>8
      <3>2. PICK w \in Out(q[i]) \cap S : e = <<w, q[i]>>
        OBVIOUS
      <3>3. e[1] \in S /\ e[2] \in Out(e[1])
        BY <2>1, <3>1, <3>2
      <3> QED
        BY <3>1, <3>3 DEF ArcsFrom
    <2> QED
      BY <2>2, <2>3
  <1>10. K \in [1 .. n -> SUBSET Pairs]
    BY <1>8
  <1> HIDE DEF K, E
  <1>11. /\ Steps(row, n, Maps)
         /\ \A i \in 1 .. n : \A b \in Maps : row[i][b] = op(b, q[i])
    BY <1>8 DEF Steps
  <1> HIDE DEF row
  <1>12. \E h : Eqn(h)
    <2>1. PICK h : Follows(h, row, a, n, Maps)
      BY <1>1, <1>4, <1>11, Recursion
    <2>2. h \in [0 .. n -> Maps] /\ h[0] = a /\ \A i \in 1 .. n : h[i] = row[i][h[i - 1]]
      BY <2>1 DEF Follows
    <2>3. ASSUME NEW i \in 0 .. n PROVE h[i] = IF i = 0 THEN a ELSE op(h[i - 1], q[i])
      <3>1. i # 0 => i \in 1 .. n /\ i - 1 \in 0 .. n
        BY <1>1
      <3> QED
        BY <1>11, <2>2, <3>1
    <2> QED
      BY <1>3, <2>2, <2>3
  <1>13. Eqn(after)
    <2> HIDE DEF Eqn
    <2> QED
      BY <1>12
  <1> HIDE DEF after
  <1>14. /\ DefinedOn(after, n) /\ after[0] = a
         /\ \A i \in 1 .. n : after[i] = op(after[i - 1], q[i])
    <2>1. after = [i \in 0 .. n |-> IF i = 0 THEN a ELSE op(after[i - 1], q[i])]
      BY <1>3, <1>13
    <2>2. \A i \in 0 .. n : after[i] = IF i = 0 THEN a ELSE op(after[i - 1], q[i])
      BY <2>1, Zenon
    <2>3. 0 \in 0 .. n /\ \A i \in 1 .. n : i \in 0 .. n /\ i # 0
      BY <1>1
    <2>4. DefinedOn(after, n)
      BY <2>1 DEF DefinedOn
    <2> QED
      BY <2>2, <2>3, <2>4
  <1>15. /\ \A i \in 1 .. n : \A b \in Maps : Walk(F, b, row[i][b], K[i])
         /\ \A i \in 1 .. n : after[i - 1] \in Maps => after[i] = row[i][after[i - 1]]
    BY <1>8, <1>11, <1>14
  <1> HIDE DEF Eqn
  <1>16. after[n] \in Maps /\ Walk(F, a, after[n], E)
    <2>1. Follows(after, row, a, n, Maps)
      BY <1>1, <1>4, <1>11, <1>14, <1>15, StepsFollow
    <2>2. \A i \in 1 .. n : \A b \in Maps : Walk(F, b, row[i][b], K[i])
      BY <1>15
    <2> QED
      BY <1>1, <1>4, <1>9, <1>10, <2>1, <2>2, RowsWalk
  <1> QED
    BY <1>3, <1>5, <1>16 DEF E, a, from, S

LEMMA EdgeMapWalk ==
    ASSUME g \in Graphs, Undirected, NEW F \in Functors, NEW vs, Once(vs), NEW arrays,
           arrays.val \in [Capacity -> Int], arrays.aux \in [Capacity -> Int],
           NEW threshold
    PROVE  LET m == edgeMap(F, g, vs, arrays, threshold)
           IN  /\ m \in Maps
               /\ \E out : /\ Once(out) /\ Members(out) = {} /\ ~out.all
                           /\ Walk(F, [val |-> arrays.val, aux |-> arrays.aux, out |-> out],
                                   m, ArcsFrom(Members(vs)))
  <1>1. num_vertices \in Nat
    BY GraphFacts
  <1>2. /\ Once(convert_to_sparse(vs)) /\ Once(convert_to_dense(vs))
    BY <1>1, ConvertFacts
  <1>3. \A f : Once(f) => Once(Similar(f)) /\ Members(Similar(f)) = {} /\ ~Similar(f).all
    BY <1>1, ConvertFacts
  <1>4. CASE vs.max_el \div threshold <= get_n(vs)
    <2>1. edgeMap(F, g, vs, arrays, threshold) = EdgeMapDense(F, g, vs, arrays)
      BY <1>4 DEF edgeMap
    <2> QED
      BY <1>2, <1>3, <2>1, DenseWalk
  <1>5. CASE ~(vs.max_el \div threshold <= get_n(vs))
    <2>1. edgeMap(F, g, vs, arrays, threshold) = EdgeMapSparse(F, g, vs, arrays)
      BY <1>5 DEF edgeMap
    <2> QED
      BY <1>2, <1>3, <2>1, SparseWalk
  <1> QED
    BY <1>4, <1>5

-----------------------------------------------------------------------------
(* What one round of each functor does.                                    *)

\* Whatever the order of the edges, each vertex without a parent that they lead
\* to gets one of their sources, and no other.
Begun(v, x, out) == [val |-> v, aux |-> x, out |-> out]
Parented(v0, E, m) ==
    /\ m \in Maps /\ Once(m.out)
    /\ Members(m.out) = {d \in Capacity : v0[d] = -1 /\ \E e \in E : e[2] = d}
    /\ \A d \in Capacity :
         /\ v0[d] # -1 \/ ~(\E e \in E : e[2] = d) => m.val[d] = v0[d]
         /\ v0[d] = -1 /\ (\E e \in E : e[2] = d) => <<m.val[d], d>> \in E

LEMMA ParentsRound ==
    ASSUME num_vertices \in Nat,
           NEW E \in SUBSET Pairs, NEW v0 \in [Capacity -> Int],
           NEW aux0 \in [Capacity -> Int], NEW out0, Once(out0), Members(out0) = {},
           ~out0.all, NEW m,
           Walk("BFS_F", Begun(v0, aux0, out0), m, E)
    PROVE  Parented(v0, E, m)
  <1> DEFINE a == [val |-> v0, aux |-> aux0, out |-> out0]
             To(D0, d) == \E e \in D0 : e[2] = d
             Good(b, D0) ==
               /\ D0 \subseteq E /\ Once(b.out) /\ ~b.out.all
               /\ Members(b.out) = {d \in Capacity : v0[d] = -1 /\ To(D0, d)}
               /\ \A d \in Capacity :
                    /\ v0[d] # -1 \/ ~To(D0, d) => b.val[d] = v0[d]
                    /\ v0[d] = -1 /\ To(D0, d) => <<b.val[d], d>> \in E
             P == {x \in Maps \X SUBSET Pairs : Good(x[1], x[2])}
  <1>1. a \in Maps
    BY DEF Maps, Once
  <1>2. <<a, {}>> \in P
    <2>1. Good(a, {})
      OBVIOUS
    <2> HIDE DEF Good
    <2> QED
      BY <1>1, <2>1
  <1>3. ASSUME NEW b \in Maps, NEW D0 \in SUBSET Pairs, Good(b, D0), NEW e \in E
        PROVE  Good(Follow("BFS_F", b, e[1], e[2]), D0 \cup {e})
    <2> DEFINE s == e[1]
               d == e[2]
               c == Follow("BFS_F", b, s, d)
    <2>1. e \in Pairs /\ s \in Capacity /\ d \in Capacity /\ e = <<s, d>> /\ s # -1
      BY DEF Pairs, Capacity
    <2>2. b.val \in [Capacity -> Int] /\ D0 \cup {e} \subseteq E
      BY <1>3 DEF Maps
    <2>3. \A x \in Capacity : To(D0 \cup {e}, x) <=> To(D0, x) \/ x = d
      OBVIOUS
    <2>4. CASE b.val[d] = -1
      <3>1. c.val = [b.val EXCEPT ![d] = s] /\ c.out = insert(b.out, d)
        BY <2>4 DEF Follow, Cond, Update, BFS_update, Updated
      <3>2. v0[d] = -1 /\ ~To(D0, d)
        <4>1. \A x : <<-1, x>> \notin E
          BY DEF Pairs, Capacity
        <4> HIDE DEF To
        <4> QED
          BY <1>3, <2>1, <2>4, <4>1
      <3>3. d \notin Members(b.out)
        BY <1>3, <3>2
      <3>4. Once(c.out) /\ ~c.out.all /\ Members(c.out) = Members(b.out) \cup {d}
        BY <1>3, <2>1, <3>1, <3>3, InsertFacts
      <3>5. Members(c.out) = {x \in Capacity : v0[x] = -1 /\ To(D0 \cup {e}, x)}
        <4> HIDE DEF To
        <4> QED
          BY <1>3, <2>1, <2>3, <3>2, <3>4
      <3>6. c.val[d] = s /\ \A x \in Capacity : x # d => c.val[x] = b.val[x]
        BY <2>1, <2>2, <3>1
      <3>7. <<c.val[d], d>> \in E
        BY <2>1, <3>6
      <3>8. ASSUME NEW x \in Capacity
            PROVE  /\ v0[x] # -1 \/ ~To(D0 \cup {e}, x) => c.val[x] = v0[x]
                   /\ v0[x] = -1 /\ To(D0 \cup {e}, x) => <<c.val[x], x>> \in E
        <4> HIDE DEF To, c
        <4> QED
          BY <1>3, <2>3, <3>2, <3>6, <3>7
      <3>9. Good(c, D0 \cup {e})
        <4> HIDE DEF c, To
        <4> QED
          BY <2>2, <3>4, <3>5, <3>8
      <3> HIDE DEF Good
      <3> QED
        BY <3>9
    <2>5. CASE b.val[d] # -1
      <3>1. c = b
        BY <2>5 DEF Follow, Cond
      <3>2. v0[d] # -1 \/ To(D0, d)
        <4> HIDE DEF To
        <4> QED
          BY <1>3, <2>1, <2>5
      <3> HIDE DEF c, To
      <3>3. Members(b.out) = {x \in Capacity : v0[x] = -1 /\ To(D0 \cup {e}, x)}
        BY <1>3, <2>3, <3>2
      <3>4. \A x \in Capacity :
              /\ v0[x] # -1 \/ ~To(D0 \cup {e}, x) => b.val[x] = v0[x]
              /\ v0[x] = -1 /\ To(D0 \cup {e}, x) => <<b.val[x], x>> \in E
        BY <1>3, <2>3, <3>2
      <3>5. Good(b, D0 \cup {e})
        BY <1>3, <2>2, <3>3, <3>4
      <3> QED
        BY <3>1, <3>5 DEF c
    <2> QED
      BY <2>4, <2>5
  <1> HIDE DEF Good
  <1>4. ASSUME NEW x \in P, NEW e \in E
        PROVE  <<Follow("BFS_F", x[1], e[1], e[2]), x[2] \cup {e}>> \in P
    <2>1. x[1] \in Maps /\ x[2] \in SUBSET Pairs /\ Good(x[1], x[2])
      OBVIOUS
    <2>2. e \in Pairs /\ e[1] \in Capacity /\ e[2] \in Capacity
      BY DEF Pairs
    <2>3. Follow("BFS_F", x[1], e[1], e[2]) \in Maps
      BY <2>1, <2>2, FollowType DEF Functors
    <2>4. Good(Follow("BFS_F", x[1], e[1], e[2]), x[2] \cup {e})
      BY <1>3, <2>1
    <2>5. x[2] \cup {e} \in SUBSET Pairs
      BY <2>1, <2>2
    <2> QED
      BY <2>3, <2>4, <2>5
  <1>5. <<m, E>> \in P
    <2>1. P \in SUBSET (Maps \X SUBSET Pairs)
      OBVIOUS
    <2> HIDE DEF P
    <2> QED
      BY <1>2, <1>4, <2>1 DEF Walk, Begun
  <1>6. m \in Maps /\ Good(m, E)
    BY <1>5
  <1> QED
    BY <1>6 DEF Good, Parented

\* Labels and distances: whatever the order, no value grows, each edge brings at
\* least what its source had before the round, the output has just the vertices
\* that changed, and no value falls below what no edge falls below.
Weight(F) == IF F = "CC_F" THEN 0 ELSE 1
Unchanged(F, v0) == IF F = "CC_F" THEN v0 ELSE [v \in Capacity |-> 0]


Spread(F, v0, low, E, m) ==
    /\ m \in Maps /\ Once(m.out) /\ m.val \in [Capacity -> Nat]
    /\ \A v \in Capacity : low[v] <= m.val[v] /\ m.val[v] <= v0[v]
    /\ \A e \in E : m.val[e[2]] <= v0[e[1]] + Weight(F)
    /\ Members(m.out) = {v \in Capacity : m.val[v] # v0[v]}
    /\ m.aux = IF F = "CC_F" THEN v0
               ELSE [v \in Capacity |-> IF m.val[v] # v0[v] THEN 1 ELSE 0]

LEMMA SpreadRound ==
    ASSUME num_vertices \in Nat, NEW F \in {"CC_F", "BF_F"},
           NEW E \in SUBSET Pairs, NEW v0 \in [Capacity -> Nat],
           NEW out0, Once(out0), Members(out0) = {}, ~out0.all, NEW m,
           Walk(F, Begun(v0, Unchanged(F, v0), out0), m, E),
           NEW low \in [Capacity -> Nat], \A v \in Capacity : low[v] <= v0[v],
           \A e \in E : low[e[2]] <= low[e[1]] + Weight(F)
    PROVE  Spread(F, v0, low, E, m)
  <1> DEFINE w == Weight(F)
             a == [val |-> v0, aux |-> Unchanged(F, v0), out |-> out0]
             Good(b, D0) ==
               /\ Once(b.out) /\ ~b.out.all /\ b.val \in [Capacity -> Nat]
               /\ \A v \in Capacity : low[v] <= b.val[v] /\ b.val[v] <= v0[v]
               /\ \A e \in D0 : b.val[e[2]] <= v0[e[1]] + w
               /\ Members(b.out) = {v \in Capacity : b.val[v] # v0[v]}
               /\ b.aux = IF F = "CC_F" THEN v0
                          ELSE [v \in Capacity |-> IF b.val[v] # v0[v] THEN 1 ELSE 0]
             P == {x \in Maps \X SUBSET Pairs : Good(x[1], x[2])}
  <1>1. F \in Functors /\ w \in {0, 1} /\ F # "BFS_F"
    BY DEF Functors, Weight
  <1>2. a \in Maps
    <2>1. Unchanged(F, v0) \in [Capacity -> Int] /\ v0 \in [Capacity -> Int]
      BY DEF Unchanged
    <2> QED
      BY <2>1 DEF Maps, Once
  <1>3. <<a, {}>> \in P
    <2>1. a.aux = IF F = "CC_F" THEN v0
                  ELSE [v \in Capacity |-> IF a.val[v] # v0[v] THEN 1 ELSE 0]
      BY DEF Unchanged
    <2>2. Members(a.out) = {v \in Capacity : a.val[v] # v0[v]}
      OBVIOUS
    <2>3. \A v \in Capacity : low[v] <= a.val[v] /\ a.val[v] <= v0[v]
      OBVIOUS
    <2>4. Once(a.out) /\ ~a.out.all /\ a.val \in [Capacity -> Nat]
      OBVIOUS
    <2> HIDE DEF a
    <2>5. Good(a, {})
      BY <2>1, <2>2, <2>3, <2>4
    <2> HIDE DEF Good
    <2> QED
      BY <1>2, <2>5
  <1>4. ASSUME NEW b \in Maps, NEW D0 \in SUBSET Pairs, Good(b, D0), NEW e \in E
        PROVE  Good(Follow(F, b, e[1], e[2]), D0 \cup {e})
    <2> DEFINE s == e[1]
               d == e[2]
               c == Follow(F, b, s, d)
               new == b.val[s] + w
    <2>1. s \in Capacity /\ d \in Capacity
      BY DEF Pairs
    <2>2. /\ b.val \in [Capacity -> Nat] /\ b.val[s] \in Nat /\ b.val[d] \in Nat
          /\ v0[s] \in Nat /\ v0[d] \in Nat /\ low[s] \in Nat /\ low[d] \in Nat
          /\ new \in Nat
      BY <1>1, <1>4, <2>1
    <2>3. /\ b.val[s] <= v0[s] /\ b.val[d] <= v0[d] /\ low[s] <= b.val[s]
          /\ low[d] <= low[s] + w
      BY <1>4, <2>1
    <2>4. CASE new < b.val[d]
      <3>1. /\ c.val = [b.val EXCEPT ![d] = new]
            /\ c.aux = IF F = "CC_F" THEN v0 ELSE [b.aux EXCEPT ![d] = 1]
            /\ c.out = IF b.val[d] = v0[d] THEN insert(b.out, d) ELSE b.out
        <4>1. CASE F = "CC_F"
          <5>1. b.aux = v0 /\ b.val[s] < b.val[d] /\ new = b.val[s]
            BY <1>4, <2>2, <2>4, <4>1 DEF Weight
          <5> QED
            BY <4>1, <5>1 DEF Follow, Cond, Update, CC_update, Updated
        <4>2. CASE F = "BF_F"
          <5>1. b.aux[d] = 0 <=> b.val[d] = v0[d]
            BY <1>4, <2>1, <4>2
          <5>2. b.val[d] > b.val[s] + 1 /\ new = b.val[s] + 1
            BY <2>2, <2>4, <4>2 DEF Weight
          <5> QED
            BY <4>2, <5>1, <5>2 DEF Follow, Cond, Update, BF_update, Updated
        <4> QED
          BY <4>1, <4>2
      <3>2. c.val[d] = new /\ \A x \in Capacity : x # d => c.val[x] = b.val[x]
        BY <2>1, <2>2, <3>1
      <3>3. c.val \in [Capacity -> Nat]
        BY <2>1, <2>2, <3>1
      <3> HIDE DEF c, new
      <3>4. \A x \in Capacity : low[x] <= c.val[x] /\ c.val[x] <= v0[x]
        <4>1. low[d] <= new /\ new <= v0[d]
          BY <1>1, <2>2, <2>3, <2>4 DEF new
        <4> QED
          BY <1>4, <3>2, <4>1
      <3>5. ASSUME NEW x \in D0 \cup {e} PROVE c.val[x[2]] <= v0[x[1]] + w
        <4>1. x \in Pairs /\ x[1] \in Capacity /\ x[2] \in Capacity
          BY DEF Pairs
        <4>2. c.val[x[2]] <= b.val[x[2]] /\ c.val[x[2]] \in Nat /\ b.val[x[2]] \in Nat
          BY <2>2, <2>4, <3>2, <3>3, <4>1
        <4>3. v0[x[1]] + w \in Nat
          BY <1>1, <4>1
        <4>4. CASE x \in D0
          <5>1. b.val[x[2]] <= v0[x[1]] + w
            BY <1>4, <4>4
          <5> QED
            BY <4>2, <4>3, <5>1
        <4>5. CASE x = e
          <5>1. c.val[d] = new /\ new <= v0[s] + w
            BY <1>1, <2>2, <2>3, <3>2 DEF new
          <5> QED
            BY <4>5, <5>1
        <4> QED
          BY <4>4, <4>5
      <3>6. new < v0[d]
        BY <2>2, <2>3, <2>4
      <3>7. /\ Once(c.out) /\ ~c.out.all
            /\ Members(c.out) = {x \in Capacity : c.val[x] # v0[x]}
        <4>1. {x \in Capacity : c.val[x] # v0[x]}
                = {x \in Capacity : b.val[x] # v0[x]} \cup {d}
          BY <2>1, <2>2, <3>2, <3>6
        <4>2. CASE b.val[d] = v0[d]
          <5>1. d \notin Members(b.out) /\ c.out = insert(b.out, d)
            BY <1>4, <3>1, <4>2
          <5>2. Once(b.out) /\ ~b.out.all
            BY <1>4
          <5>3. /\ Once(c.out) /\ ~c.out.all /\ Members(c.out) = Members(b.out) \cup {d}
            BY <2>1, <5>1, <5>2, InsertFacts
          <5> QED
            BY <1>4, <4>1, <5>3
        <4>3. CASE b.val[d] # v0[d]
          <5>1. c.out = b.out /\ d \in Members(b.out)
            BY <1>4, <2>1, <3>1, <4>3
          <5> QED
            BY <1>4, <4>1, <5>1
        <4> QED
          BY <4>2, <4>3
      <3>8. c.aux = IF F = "CC_F" THEN v0
                    ELSE [x \in Capacity |-> IF c.val[x] # v0[x] THEN 1 ELSE 0]
        <4>1. CASE F = "BF_F"
          <5>1. b.aux = [x \in Capacity |-> IF b.val[x] # v0[x] THEN 1 ELSE 0]
            BY <1>4, <4>1
          <5>2. c.aux = [b.aux EXCEPT ![d] = 1]
            BY <3>1, <4>1
          <5>3. c.val[d] # v0[d]
            BY <2>2, <3>2, <3>6
          <5> QED
            BY <2>1, <3>2, <4>1, <5>1, <5>2, <5>3
        <4> QED
          BY <3>1, <4>1
      <3>9. Good(c, D0 \cup {e})
        BY <3>3, <3>4, <3>5, <3>7, <3>8
      <3> QED
        BY <3>9 DEF c
    <2>5. CASE ~(new < b.val[d])
      <3>1. c = b
        <4>1. CASE F = "CC_F"
          <5>1. ~(b.val[s] < b.val[d])
            BY <2>2, <2>5, <4>1 DEF Weight
          <5>2. Update(F, b, s, d) = [val |-> b.val, aux |-> b.aux, ret |-> FALSE]
            BY <4>1, <5>1 DEF Update, CC_update
          <5> QED
            BY <1>1, <5>2 DEF Follow, Cond, Updated, Maps
        <4>2. CASE F = "BF_F"
          <5>1. ~(b.val[d] > b.val[s] + 1)
            BY <2>2, <2>5, <4>2 DEF Weight
          <5>2. Update(F, b, s, d) = [val |-> b.val, aux |-> b.aux, ret |-> FALSE]
            BY <4>2, <5>1 DEF Update, BF_update
          <5> QED
            BY <1>1, <5>2 DEF Follow, Cond, Updated, Maps
        <4> QED
          BY <4>1, <4>2
      <3>2. b.val[d] <= v0[s] + w
        BY <1>1, <2>2, <2>3, <2>5
      <3> HIDE DEF c
      <3>3. \A x \in D0 \cup {e} : b.val[x[2]] <= v0[x[1]] + w
        BY <1>4, <3>2
      <3>4. Good(b, D0 \cup {e})
        BY <1>4, <3>3
      <3> QED
        BY <3>1, <3>4 DEF c
    <2> QED
      BY <2>4, <2>5
  <1> HIDE DEF Good
  <1>5. ASSUME NEW x \in P, NEW e \in E
        PROVE  <<Follow(F, x[1], e[1], e[2]), x[2] \cup {e}>> \in P
    <2>1. x[1] \in Maps /\ x[2] \in SUBSET Pairs /\ Good(x[1], x[2])
      OBVIOUS
    <2>2. e \in Pairs /\ e[1] \in Capacity /\ e[2] \in Capacity
      BY DEF Pairs
    <2>3. Follow(F, x[1], e[1], e[2]) \in Maps
      BY <1>1, <2>1, <2>2, FollowType
    <2>4. Good(Follow(F, x[1], e[1], e[2]), x[2] \cup {e})
      BY <1>4, <2>1
    <2>5. x[2] \cup {e} \in SUBSET Pairs
      BY <2>1, <2>2
    <2> QED
      BY <2>3, <2>4, <2>5
  <1>6. <<m, E>> \in P
    <2>1. P \in SUBSET (Maps \X SUBSET Pairs)
      OBVIOUS
    <2> HIDE DEF P
    <2> QED
      BY <1>3, <1>5, <2>1 DEF Walk, Begun
  <1>7. m \in Maps /\ Good(m, E)
    BY <1>6
  <1> QED
    BY <1>7 DEF Good, Spread

\* The loop over the vertices of a subset.
LEMMA VertexMapFacts ==
    ASSUME num_vertices \in Nat, NEW vs, Once(vs), NEW F, NEW arrays,
           arrays.aux = [v \in Capacity |-> arrays.aux[v]]
    PROVE  vertexMap(F, vs, arrays) =
             [v \in Capacity |-> IF v \in Members(vs)
                                 THEN IF F = "CC_Vertex_F" THEN arrays.val[v] ELSE 0
                                 ELSE arrays.aux[v]]
  <1> DEFINE a == arrays.aux
             q == Elements(vs)
             n == Len(q)
             new(v) == IF F = "CC_Vertex_F" THEN arrays.val[v] ELSE 0
             body(b, v) == IF F = "CC_Vertex_F" THEN CC_Vertex(arrays.val, b, v)
                           ELSE BF_Vertex(b, v)
             Eqn(f) == f = [i \in 0 .. n |-> IF i = 0 THEN a ELSE body(f[i - 1], q[i])]
             after == CHOOSE f : Eqn(f)
             Met(i, v) == \E j \in 1 .. i : q[j] = v
             good(i) == [v \in Capacity |-> IF Met(i, v) THEN new(v) ELSE a[v]]
             h == [i \in 0 .. n |-> good(i)]
  <1>1. q \in Seq(Capacity) /\ n \in Nat /\ Members(vs) = {q[j] : j \in 1 .. n}
    <2>1. q \in Seq(Capacity) /\ ToSet(q) = Members(vs)
      BY ElementsFacts
    <2> QED
      BY <2>1 DEF ToSet
  <1>2. vertexMap(F, vs, arrays) = after[n]
    BY DEF vertexMap, ForEach
  <1>3. \A b, v : body(b, v) = [b EXCEPT ![v] = new(v)]
    BY DEF CC_Vertex, BF_Vertex
  <1> HIDE DEF body, new, q, n
  <1>4. \A i \in 1 .. n : q[i] \in Capacity
    BY <1>1 DEF n
  <1>5. good(0) = a
    <2>1. \A v : ~Met(0, v)
      OBVIOUS
    <2> HIDE DEF Met
    <2> QED
      BY <2>1
  <1>6. ASSUME NEW i \in 1 .. n PROVE good(i) = body(good(i - 1), q[i])
    <2>1. \A v : Met(i, v) <=> Met(i - 1, v) \/ v = q[i]
      <3>1. 1 .. i = (1 .. i - 1) \cup {i}
        BY <1>1
      <3> QED
        BY <3>1
    <2> HIDE DEF Met
    <2> QED
      BY <1>3, <1>4, <2>1
  <1> HIDE DEF good
  <1>7. Eqn(h)
    <2>1. ASSUME NEW i \in 0 .. n PROVE h[i] = IF i = 0 THEN a ELSE body(h[i - 1], q[i])
      <3>1. i # 0 => i \in 1 .. n /\ i - 1 \in 0 .. n
        BY <1>1
      <3> QED
        BY <1>5, <1>6, <3>1
    <2> QED
      BY <2>1
  <1>8. Eqn(after)
    <2> HIDE DEF Eqn
    <2> QED
      BY <1>7
  <1> HIDE DEF after, h
  <1>9. \A i \in 0 .. n : after[i] = IF i = 0 THEN a ELSE body(after[i - 1], q[i])
    BY <1>8, Zenon
  <1>10. after[0] = a /\ \A i \in 1 .. n : after[i] = body(after[i - 1], q[i])
    <2>1. 0 \in 0 .. n /\ \A i \in 1 .. n : i \in 0 .. n /\ i # 0
      BY <1>1
    <2> QED
      BY <1>9, <2>1
  <1> DEFINE V == {i \in 0 .. n : after[i] = good(i)}
  <1>11. 0 \in V /\ \A i \in 1 .. n : i - 1 \in V => i \in V
    <2>1. 0 \in 0 .. n /\ \A i \in 1 .. n : i \in 0 .. n
      BY <1>1
    <2> QED
      BY <1>5, <1>6, <1>10, <2>1
  <1>12. after[n] = good(n)
    <2>1. n \in Nat /\ n \in 0 .. n
      BY <1>1
    <2>2. 0 .. n \subseteq V
      <3> HIDE DEF V
      <3> QED
        BY <1>11, <2>1, Induction
    <2> QED
      BY <2>1, <2>2
  <1>13. \A v : Met(n, v) <=> v \in Members(vs)
    BY <1>1
  <1> HIDE DEF Met, Eqn
  <1> QED
    BY <1>2, <1>12, <1>13 DEF good, new

-----------------------------------------------------------------------------
(* Shortest paths by edge maps.                                            *)

SourceInv == alg \in {"BFS_with_edge_map", "SSSP_BF"} => source \in Range(g.phys)
Depth == Distance(source)

\* The physical id that is taken for a logical one is an index of the arrays.
LEMMA SourceCapacity ==
    ASSUME g \in Graphs, source \in Range(g.phys)
    PROVE  source \in Capacity
  <1>1. g.phys \in [0 .. g.n - 1 -> Capacity]
    BY GraphsAssumption
  <1> QED
    BY <1>1 DEF Range

LEMMA RunEdgeMaps ==
    ASSUME Run, alg \in EdgeMaps
    PROVE  BFS_with_edge_map \/ CC_T \/ SSSP_BF
  <1>1. /\ ~test_bfs /\ ~test_bfs2 /\ ~test_bfs_iterators
        /\ ~bellman_ford2 /\ ~bellman_ford_iterators /\ ~dijkstra
    BY DEF EdgeMaps, test_bfs, test_bfs2, test_bfs_iterators, bellman_ford2,
           bellman_ford_iterators, dijkstra
  <1>2. ~page_rank2 /\ ~page_rank_iterators /\ ~test_cc2 /\ ~test_cc_iterators
    BY DEF EdgeMaps, page_rank2, page_rank_iterators, test_cc2, test_cc_iterators
  <1>3. ~test_one_hop /\ ~test_two_hop /\ ~test_two_hop_l /\ ~avg_degree
    BY DEF EdgeMaps, test_one_hop, test_two_hop, test_two_hop_l, avg_degree
  <1> QED
    BY <1>1, <1>2, <1>3 DEF Run

LEMMA DepthFacts ==
    ASSUME g \in Graphs, source \in Capacity, ShortPaths
    PROVE  /\ \A v \in Capacity : /\ Depth[v] \in Nat /\ Depth[v] <= INF
                                  /\ Depth[v] # INF => Depth[v] < g.n
                                  /\ Depth[v] <= 0 <=> v = source
           /\ \A u \in Capacity : \A w \in Out(u) :
                /\ w \in Capacity
                /\ Depth[u] # INF => Depth[w] # INF /\ Depth[w] <= Depth[u] + 1
           /\ \A w \in Capacity : \A k \in Nat : Depth[w] = k + 1 /\ Depth[w] # INF =>
                \E u \in L : w \in Out(u) /\ Depth[u] = k
  <1>1. /\ num_vertices \in Nat /\ INF \in Nat /\ L \subseteq Capacity
        /\ g.n \in Nat /\ g.n <= num_vertices /\ INF # 0
        /\ num_vertices \in 0 .. num_vertices /\ 0 \in 0 .. num_vertices
    BY GraphFacts, InfPositive
  <1>2. /\ Reach(source)[0] = {source}
        /\ Reach(source)[num_vertices] \subseteq L \cup {source}
    <2>1. CASE source \in L
      BY <1>1, <2>1, ReachFacts
    <2>2. CASE source \notin L
      BY <1>1, <2>2, ReachAlone
    <2> QED
      BY <2>1, <2>2
  <1>3. ASSUME NEW v \in Capacity
        PROVE  /\ Depth[v] \in Nat /\ Depth[v] <= INF
               /\ Depth[v] # INF => Depth[v] < g.n /\ v \in L \cup {source}
               /\ Depth[v] <= 0 <=> v = source
    <2>1. /\ Depth[v] \in Nat /\ Depth[v] <= INF
          /\ v \in Reach(source)[num_vertices] <=> Depth[v] # INF
          /\ Depth[v] # INF => Depth[v] < g.n
          /\ v \in Reach(source)[0] <=> Depth[v] # INF /\ Depth[v] <= 0
      BY <1>1, DistanceFacts DEF Depth
    <2>2. Depth[v] <= 0 => Depth[v] # INF
      BY <1>1, <2>1
    <2>3. Depth[v] <= 0 <=> v = source
      BY <1>2, <2>1, <2>2
    <2> QED
      BY <1>2, <2>1, <2>3
  <1>4. ASSUME NEW u \in Capacity, NEW w \in Out(u)
        PROVE  /\ w \in Capacity
               /\ Depth[u] # INF => Depth[w] # INF /\ Depth[w] <= Depth[u] + 1
    <2>1. u \in L /\ w \in Capacity
      BY ListFacts
    <2> QED
      BY <2>1, DistanceEdge DEF Depth
  <1>5. ASSUME NEW w \in Capacity, NEW k \in Nat, Depth[w] = k + 1, Depth[w] # INF
        PROVE  \E u \in L : w \in Out(u) /\ Depth[u] = k
    <2>1. w # source
      <3>1. ~(Depth[w] <= 0)
        BY <1>5
      <3> QED
        BY <1>3, <3>1
    <2>2. w \in L /\ k \in 0 .. num_vertices - 1
      <3>1. w \in L /\ Depth[w] < g.n
        BY <1>3, <1>5, <2>1
      <3> QED
        BY <1>1, <1>5, <3>1
    <2>3. k + 1 # INF
      BY <1>5
    <2> QED
      BY <1>5, <2>2, <2>3, DistancePredecessor DEF Depth
  <1> QED
    BY <1>3, <1>4, <1>5

LEMMA VertexSubsetFacts ==
    ASSUME num_vertices \in Nat, NEW s \in Capacity
    PROVE  /\ Once(VertexSubset(s, num_vertices, FALSE))
           /\ Members(VertexSubset(s, num_vertices, FALSE)) = {s}
           /\ Once(VertexSubset(s, num_vertices, TRUE))
           /\ Members(VertexSubset(s, num_vertices, TRUE)) = Capacity
  <1>1. <<s>> \in Seq(Capacity) /\ ToSet(<<s>>) = {s} /\ IsInjective(<<s>>)
    BY DEF ToSet, IsInjective
  <1>2. <<>> \in Seq(Capacity) /\ IsInjective(<<>>)
    BY DEF IsInjective
  <1> QED
    BY <1>1, <1>2 DEF VertexSubset, Once, Subsets, Members

\* At the head of the loop: what is round edges away has its distance, only what
\* is as far can be in the frontier, and the others have nothing to tell.
PathsLoop(v, f, r) ==
    /\ r \in 0 .. g.n /\ Once(f) /\ v \in [Capacity -> Nat]
    /\ \A u \in Capacity : /\ Depth[u] <= v[u] /\ v[u] <= INF
                           /\ Depth[u] <= r => v[u] = Depth[u]
    /\ \A u \in Members(f) : r <= Depth[u] /\ v[u] < INF
    /\ \A u \in Capacity \ Members(f) : \A w \in Out(u) : v[w] <= v[u] + 1

LEMMA PathsRound ==
    ASSUME g \in Graphs, Undirected, source \in Capacity, ShortPaths,
           NEW v, NEW f, NEW r, PathsLoop(v, f, r), Members(f) # {},
           NEW m, m = edgeMap("BF_F", g, f, [val |-> v, aux |-> None], 1)
    PROVE  /\ r # num_vertices /\ PathsLoop(m.val, m.out, r + 1)
           /\ vertexMap("BF_Vertex_F", m.out, m) = None
  <1> DEFINE A == Members(f)
             E == ArcsFrom(A)
  <1>1. /\ num_vertices \in Nat /\ INF \in Nat /\ g.n \in Nat /\ g.n <= num_vertices
    BY GraphFacts
  <1>2. /\ r \in Nat /\ Once(f) /\ v \in [Capacity -> Nat] /\ A \subseteq Capacity
        /\ \A u \in Capacity : /\ Depth[u] <= v[u] /\ v[u] <= INF
                               /\ Depth[u] <= r => v[u] = Depth[u]
        /\ \A u \in A : r <= Depth[u] /\ v[u] < INF
        /\ \A u \in Capacity \ A : \A w \in Out(u) : v[w] <= v[u] + 1
    BY <1>1, ElementsFacts DEF PathsLoop
  <1>3. /\ \A u \in Capacity : /\ Depth[u] \in Nat /\ Depth[u] <= INF
                               /\ Depth[u] # INF => Depth[u] < g.n
        /\ \A u \in Capacity : \A w \in Out(u) :
             /\ w \in Capacity
             /\ Depth[u] # INF => Depth[w] # INF /\ Depth[w] <= Depth[u] + 1
        /\ \A w \in Capacity : \A k \in Nat : Depth[w] = k + 1 /\ Depth[w] # INF =>
             \E u \in L : w \in Out(u) /\ Depth[u] = k
    BY DepthFacts
  <1>4. \A u \in A : Depth[u] # INF /\ Depth[u] \in Nat /\ v[u] \in Nat
    BY <1>1, <1>2, <1>3
  <1>5. r < g.n
    <2>1. PICK u \in A : TRUE
      OBVIOUS
    <2>2. r <= Depth[u] /\ Depth[u] < g.n /\ Depth[u] \in Nat
      BY <1>2, <1>3, <1>4
    <2> QED
      BY <1>1, <1>2, <2>2
  <1>6. E \in SUBSET Pairs /\ \A e \in E : /\ e[1] \in A /\ e[2] \in Out(e[1])
                                           /\ e[1] \in Capacity /\ e[2] \in Capacity
    BY DEF ArcsFrom, Pairs
  <1>7. ASSUME NEW u \in A, NEW w \in Out(u) PROVE <<u, w>> \in E
    BY <1>2, <1>3 DEF ArcsFrom, Pairs
  <1> DEFINE low == [u \in Capacity |-> Depth[u]]
  <1>8. low \in [Capacity -> Nat] /\ \A u \in Capacity : low[u] = Depth[u]
    BY <1>3
  <1>9. None = Unchanged("BF_F", v) /\ None \in [Capacity -> Int] /\ v \in [Capacity -> Int]
    BY <1>2 DEF None, Unchanged
  <1>10. PICK out : /\ Once(out) /\ Members(out) = {} /\ ~out.all
                    /\ Walk("BF_F", Begun(v, Unchanged("BF_F", v), out), m, E)
    <2> DEFINE arrays == [val |-> v, aux |-> None]
    <2>1. arrays.val = v /\ arrays.aux = None
      OBVIOUS
    <2> HIDE DEF arrays
    <2> QED
      BY <1>2, <1>9, <2>1, EdgeMapWalk DEF Functors, arrays, Begun
  <1>11. Weight("BF_F") = 1 /\ "BF_F" \in {"CC_F", "BF_F"}
    BY DEF Weight
  <1> HIDE DEF E, low, A
  <1>12. /\ m \in Maps /\ Once(m.out) /\ m.val \in [Capacity -> Nat]
         /\ \A u \in Capacity : low[u] <= m.val[u] /\ m.val[u] <= v[u]
         /\ \A e \in E : m.val[e[2]] <= v[e[1]] + 1
         /\ Members(m.out) = {u \in Capacity : m.val[u] # v[u]}
         /\ m.aux = [u \in Capacity |-> IF m.val[u] # v[u] THEN 1 ELSE 0]
    <2>1. \A e \in E : low[e[2]] <= low[e[1]] + Weight("BF_F")
      BY <1>3, <1>4, <1>6, <1>8, <1>11
    <2>2. \A u \in Capacity : low[u] <= v[u]
      BY <1>2, <1>8
    <2>4. /\ num_vertices \in Nat /\ "BF_F" \in {"CC_F", "BF_F"} /\ E \in SUBSET Pairs
          /\ v \in [Capacity -> Nat] /\ low \in [Capacity -> Nat]
          /\ Once(out) /\ Members(out) = {} /\ ~out.all
      BY <1>1, <1>2, <1>6, <1>8, <1>10
    <2>5. Spread("BF_F", v, low, E, m)
      BY <1>10, <2>1, <2>2, <2>4, SpreadRound
    <2> QED
      BY <1>11, <2>5 DEF Spread
  <1>13. \A u \in A : \A w \in Out(u) : m.val[w] <= v[u] + 1
    <2> SUFFICES ASSUME NEW u \in A, NEW w \in Out(u) PROVE m.val[w] <= v[u] + 1
      OBVIOUS
    <2> DEFINE e == <<u, w>>
    <2>1. e \in E /\ e[1] = u /\ e[2] = w
      BY <1>7
    <2> HIDE DEF e
    <2> QED
      BY <1>12, <2>1
  <1>14. \A u \in Capacity : /\ m.val[u] \in Nat /\ v[u] \in Nat /\ m.val[u] <= v[u]
                             /\ Depth[u] <= m.val[u] /\ m.val[u] <= INF
    BY <1>1, <1>2, <1>8, <1>12
  <1>15. ASSUME NEW w \in Capacity, Depth[w] <= r + 1 PROVE m.val[w] = Depth[w]
    <2>1. CASE Depth[w] <= r
      <3>1. v[w] = Depth[w]
        BY <1>2, <2>1
      <3> QED
        BY <1>3, <1>14, <3>1
    <2>3. CASE Depth[w] = INF
      BY <1>1, <1>3, <1>14, <2>3
    <2>2. CASE Depth[w] = r + 1 /\ Depth[w] # INF
      <3>1. PICK u \in L : w \in Out(u) /\ Depth[u] = r
        BY <1>2, <1>3, <2>2
      <3>2. u \in Capacity /\ v[u] = r
        BY <1>2, <3>1, GraphFacts
      <3>3. m.val[w] <= r + 1
        <4>1. CASE u \in A
          BY <1>13, <3>1, <3>2, <4>1
        <4>2. CASE u \notin A
          <5>1. v[w] <= v[u] + 1
            BY <1>2, <3>1, <3>2, <4>2
          <5> QED
            BY <1>2, <1>14, <3>2, <5>1
        <4> QED
          BY <4>1, <4>2
      <3> QED
        BY <1>2, <1>14, <2>2, <3>3
    <2> QED
      BY <1>2, <1>3, <1>15, <2>1, <2>2, <2>3
  <1>16. ASSUME NEW u \in Members(m.out)
         PROVE  u \in Capacity /\ r + 1 <= Depth[u] /\ m.val[u] < INF
    <2>1. u \in Capacity /\ m.val[u] # v[u]
      BY <1>12
    <2>2. ~(Depth[u] <= r)
      BY <1>2, <1>3, <1>14, <2>1
    <2>3. m.val[u] < v[u] /\ v[u] <= INF /\ v[u] \in Nat /\ m.val[u] \in Nat
      BY <1>2, <1>14, <2>1
    <2>4. m.val[u] < INF
      BY <1>1, <2>3
    <2> QED
      BY <1>2, <1>3, <2>1, <2>2, <2>4
  <1>17. ASSUME NEW u \in Capacity \ Members(m.out), NEW w \in Out(u)
         PROVE  m.val[w] <= m.val[u] + 1
    <2>1. m.val[u] = v[u] /\ w \in Capacity
      BY <1>3, <1>12
    <2>2. CASE u \in A
      BY <1>13, <2>1, <2>2
    <2>3. CASE u \notin A
      <3>1. v[w] <= v[u] + 1
        BY <1>2, <2>3
      <3> QED
        BY <1>14, <2>1, <3>1
    <2> QED
      BY <2>2, <2>3
  <1>18. r + 1 \in 0 .. g.n /\ r # num_vertices
    BY <1>1, <1>2, <1>5
  <1>19. PathsLoop(m.val, m.out, r + 1)
    BY <1>12, <1>14, <1>15, <1>16, <1>17, <1>18 DEF PathsLoop
  <1>20. vertexMap("BF_Vertex_F", m.out, m) = None
    <2>1. m.aux = [u \in Capacity |-> m.aux[u]]
      BY <1>12
    <2>2. vertexMap("BF_Vertex_F", m.out, m)
            = [u \in Capacity |-> IF u \in Members(m.out) THEN 0 ELSE m.aux[u]]
      BY <1>1, <1>12, <2>1, VertexMapFacts
    <2>3. \A u \in Capacity : u \notin Members(m.out) => m.aux[u] = 0
      BY <1>12
    <2> QED
      BY <2>2, <2>3 DEF None
  <1> QED
    BY <1>18, <1>19, <1>20

LEMMA PathsEnd ==
    ASSUME g \in Graphs, source \in Capacity, ShortPaths,
           NEW v, NEW f, NEW r, PathsLoop(v, f, r), Members(f) = {}
    PROVE  \A u \in Capacity : v[u] = Depth[u]
  <1> DEFINE N == num_vertices
             V == {k \in 0 .. N : \A u \in Capacity : Depth[u] <= k => v[u] = Depth[u]}
  <1>1. N \in Nat /\ INF \in Nat /\ g.n \in Nat /\ g.n <= N
    BY GraphFacts
  <1>2. /\ v \in [Capacity -> Nat] /\ r \in Nat
        /\ \A u \in Capacity : /\ Depth[u] <= v[u] /\ v[u] <= INF
                               /\ Depth[u] <= r => v[u] = Depth[u]
        /\ \A u \in Capacity : \A w \in Out(u) : v[w] <= v[u] + 1
    BY <1>1 DEF PathsLoop
  <1>3. /\ \A u \in Capacity : /\ Depth[u] \in Nat /\ Depth[u] <= INF
                               /\ Depth[u] # INF => Depth[u] < g.n
        /\ \A w \in Capacity : \A k \in Nat : Depth[w] = k + 1 /\ Depth[w] # INF =>
             \E u \in L : w \in Out(u) /\ Depth[u] = k
    BY DepthFacts
  <1>4. 0 \in V
    BY <1>1, <1>2, <1>3
  <1>5. ASSUME NEW k \in 1 .. N, k - 1 \in V PROVE k \in V
    <2>1. ASSUME NEW w \in Capacity, Depth[w] <= k PROVE v[w] = Depth[w]
      <3>1. Depth[w] \in Nat /\ v[w] \in Nat
        BY <1>1, <1>2, <1>3, <2>1
      <3>2. CASE Depth[w] <= k - 1
        BY <1>5, <2>1, <3>2
      <3>4. CASE Depth[w] = INF
        BY <1>1, <1>2, <3>1, <3>4
      <3>3. CASE Depth[w] = k /\ Depth[w] # INF
        <4>1. k - 1 \in Nat /\ Depth[w] = (k - 1) + 1
          BY <3>3
        <4>2. PICK u \in L : w \in Out(u) /\ Depth[u] = k - 1
          BY <1>3, <2>1, <3>3, <4>1
        <4>3. u \in Capacity /\ v[u] = k - 1
          BY <1>5, <4>2, GraphFacts
        <4>4. v[w] <= (k - 1) + 1 /\ Depth[w] <= v[w]
          BY <1>2, <2>1, <4>2, <4>3
        <4> QED
          BY <3>1, <3>3, <4>4
      <3> QED
        BY <2>1, <3>1, <3>2, <3>3, <3>4
    <2> QED
      BY <1>1, <2>1
  <1>6. N \in V
    <2>1. 0 .. N \subseteq V /\ N \in 0 .. N
      <3> HIDE DEF V, N
      <3>1. 0 .. N \subseteq V
        BY <1>1, <1>4, <1>5, Induction
      <3> QED
        BY <1>1, <3>1
    <2> HIDE DEF V, N
    <2> QED
      BY <2>1
  <1>7. ASSUME NEW u \in Capacity PROVE v[u] = Depth[u]
    <2>1. CASE Depth[u] = INF
      BY <1>1, <1>2, <2>1
    <2>2. CASE Depth[u] # INF
      <3>1. Depth[u] <= N
        BY <1>1, <1>3, <2>2
      <3> QED
        BY <1>6, <3>1
    <2> QED
      BY <2>1, <2>2
  <1> QED
    BY <1>7

LEMMA PathsBegin ==
    ASSUME g \in Graphs, source \in Capacity, ShortPaths,
           NEW v, v = [u \in Capacity |-> IF u = source THEN 0 ELSE INF]
    PROVE  PathsLoop(v, VertexSubset(source, num_vertices, FALSE), 0)
  <1> DEFINE f == VertexSubset(source, num_vertices, FALSE)
  <1>1. /\ num_vertices \in Nat /\ INF \in Nat /\ g.n \in Nat /\ 0 < INF
        /\ L \subseteq Capacity
    BY GraphFacts, InfPositive
  <1>2. Once(f) /\ Members(f) = {source}
    BY <1>1, VertexSubsetFacts
  <1>3. \A u \in Capacity : /\ Depth[u] \in Nat /\ Depth[u] <= INF
                            /\ Depth[u] <= 0 <=> u = source
    BY DepthFacts
  <1>4. v \in [Capacity -> Nat]
        /\ \A u \in Capacity : v[u] = IF u = source THEN 0 ELSE INF
    BY <1>1
  <1> HIDE DEF f
  <1>5. \A u \in Capacity : \A w \in Out(u) : w \in Capacity
    BY ListFacts
  <1>6. \A u \in Capacity : /\ Depth[u] <= v[u] /\ v[u] <= INF
                            /\ Depth[u] <= 0 => v[u] = Depth[u]
    BY <1>1, <1>3, <1>4
  <1>7. \A u \in Members(f) : 0 <= Depth[u] /\ v[u] < INF
    BY <1>1, <1>2, <1>3, <1>4
  <1>8. \A u \in Capacity \ Members(f) : \A w \in Out(u) : v[w] <= v[u] + 1
    BY <1>1, <1>2, <1>4, <1>5
  <1>9. 0 \in 0 .. g.n
    BY <1>1
  <1> QED
    BY <1>2, <1>4, <1>6, <1>7, <1>8, <1>9 DEF PathsLoop, f

\* What SSSP_BF has done: the branch of negative cycles is never taken.
PathsInv ==
    alg = "SSSP_BF" =>
      /\ pc \in {"call", "loop", "done"}
      /\ pc = "call" => round = 0 /\ aux = None
      /\ pc = "loop" => PathsLoop(val, frontier, round) /\ aux = None
      /\ pc = "done" =>
           /\ round <= g.n
           /\ \A u \in Capacity : val[u] = Depth[u]
           /\ result = Total(val, {u \in Capacity : val[u] # INF})

LEMMA PathsStep ==
    ASSUME CallInv, SourceInv, PathsInv, ShortPaths, [Next]_vars
    PROVE  PathsInv'
  <1> SUFFICES ASSUME (alg = "SSSP_BF")' PROVE PathsInv'
    BY DEF PathsInv
  <1>1. UNCHANGED call
    BY DEF Next, Returned, vars
  <1>2. alg' = alg /\ alg = "SSSP_BF" /\ Depth' = Depth /\ g' = g /\ None' = None
    BY <1>1 DEF call, Depth, Distance, Reach, None
  <1>3. /\ g \in Graphs /\ Undirected /\ source \in Capacity
    BY <1>2, SourceCapacity DEF CallInv, SourceInv, EdgeMaps
  <1>4. num_vertices \in Nat /\ g.n \in Nat
    BY <1>3, GraphFacts
  <1>5. ASSUME PathsLoop(val', frontier', round') PROVE PathsLoop(val, frontier, round)'
    BY <1>2, <1>5 DEF PathsLoop, Out
  <1>6. /\ pc \in {"call", "loop", "done"}
        /\ pc = "call" => round = 0 /\ aux = None
        /\ pc = "loop" => PathsLoop(val, frontier, round) /\ aux = None
    BY <1>2 DEF PathsInv
  <1>7. CASE UNCHANGED vars
    BY <1>2, <1>7 DEF vars, PathsInv, PathsLoop, Total, Out
  <1>8. CASE Run
    <2>1. SSSP_BF
      <3>1. alg \in EdgeMaps /\ ~BFS_with_edge_map /\ ~CC_T
        BY <1>2 DEF EdgeMaps, BFS_with_edge_map, CC_T
      <3> QED
        BY <1>8, <3>1, RunEdgeMaps
    <2> DEFINE v0 == [v \in Capacity |-> IF v = source THEN 0 ELSE INF]
               m == edgeMap("BF_F", g, frontier, [val |-> val, aux |-> aux], 1)
    <2>2. \/ Begin(v0, None, VertexSubset(source, num_vertices, FALSE))
          \/ /\ pc = "loop" /\ not_empty(frontier) /\ round # num_vertices
             /\ val' = m.val /\ frontier' = m.out /\ aux' = vertexMap("BF_Vertex_F", m.out, m)
             /\ round' = round + 1 /\ pc' = pc
          \/ /\ pc = "loop" /\ (~not_empty(frontier) \/ round = num_vertices)
             /\ val' = IF not_empty(frontier) THEN [v \in Capacity |-> -INF] ELSE val
             /\ Return(Total(val', {v \in Capacity : val'[v] # INF}))
             /\ round' = round
      BY <2>1 DEF SSSP_BF
    <2>3. pc = "loop" => (not_empty(frontier) <=> Members(frontier) # {})
      <3>1. num_vertices \in Nat \ {0}
        BY <1>3, GraphFacts
      <3> QED
        BY <1>6, <3>1, EmptyFacts DEF PathsLoop
    <2>4. CASE Begin(v0, None, VertexSubset(source, num_vertices, FALSE))
      <3> DEFINE f == VertexSubset(source, num_vertices, FALSE)
      <3>1. pc' = "loop" /\ val' = v0 /\ aux' = None /\ frontier' = f /\ round' = 0
        BY <2>4 DEF Begin
      <3>2. PathsLoop(v0, f, 0)
        BY <1>3, PathsBegin
      <3> HIDE DEF v0, f
      <3>3. PathsLoop(val, frontier, round)'
        BY <1>5, <3>1, <3>2
      <3> QED
        BY <1>2, <3>1, <3>3 DEF PathsInv
    <2>5. pc = "loop" /\ Members(frontier) # {} =>
            /\ round # num_vertices /\ PathsLoop(m.val, m.out, round + 1)
            /\ vertexMap("BF_Vertex_F", m.out, m) = None
      BY <1>3, <1>6, PathsRound
    <2> HIDE DEF m
    <2>6. CASE /\ pc = "loop" /\ not_empty(frontier)
               /\ val' = m.val /\ frontier' = m.out /\ aux' = vertexMap("BF_Vertex_F", m.out, m)
               /\ round' = round + 1 /\ pc' = pc
      <3>1. PathsLoop(val', frontier', round') /\ aux' = None
        BY <2>3, <2>5, <2>6
      <3>2. PathsLoop(val, frontier, round)'
        BY <1>5, <3>1
      <3> QED
        BY <1>2, <2>6, <3>1, <3>2 DEF PathsInv
    <2>7. CASE /\ pc = "loop" /\ (~not_empty(frontier) \/ round = num_vertices)
               /\ val' = IF not_empty(frontier) THEN [v \in Capacity |-> -INF] ELSE val
               /\ Return(Total(val', {v \in Capacity : val'[v] # INF}))
               /\ round' = round
      <3>1. ~not_empty(frontier) /\ Members(frontier) = {} /\ val' = val
        BY <2>3, <2>5, <2>7
      <3>2. \A u \in Capacity : val[u] = Depth[u]
        BY <1>3, <1>6, <2>7, <3>1, PathsEnd
      <3>3. round <= g.n
        BY <1>4, <1>6, <2>7 DEF PathsLoop
      <3>4. pc' = "done" /\ result' = Total(val', {v \in Capacity : val'[v] # INF})
        BY <2>7 DEF Return
      <3> QED
        BY <1>2, <2>7, <3>1, <3>2, <3>3, <3>4 DEF PathsInv, Total
    <2> QED
      BY <2>2, <2>4, <2>6, <2>7
  <1> QED
    BY <1>7, <1>8 DEF Next, Returned

-----------------------------------------------------------------------------
(* Breadth first search by edge maps.                                      *)

\* At the head of the loop: who is at most round edges away has a parent one
\* edge nearer, and the frontier is the last level.
ParentsLoop(p, f, r) ==
    /\ r \in 0 .. g.n /\ Once(f) /\ p \in [Capacity -> Int] /\ p[source] = source
    /\ \A u \in Capacity : p[u] = -1 <=> ~(Depth[u] # INF /\ Depth[u] <= r)
    /\ \A u \in Capacity \ {source} : Depth[u] # INF /\ Depth[u] <= r =>
         p[u] \in Capacity /\ Depth[u] = Depth[p[u]] + 1
    /\ \A u \in Capacity : u \in Members(f) <=> Depth[u] # INF /\ Depth[u] = r

LEMMA ParentsNext ==
    ASSUME g \in Graphs, Undirected, source \in Capacity, ShortPaths,
           NEW p, NEW f, NEW r, ParentsLoop(p, f, r), Members(f) # {},
           NEW x \in [Capacity -> Int],
           NEW m, m = edgeMap("BFS_F", g, f, [val |-> p, aux |-> x], THRESHOLD)
    PROVE  ParentsLoop(m.val, m.out, r + 1) /\ m.aux \in [Capacity -> Int]
  <1> DEFINE A == Members(f)
             E == ArcsFrom(A)
             To(d) == \E e \in E : e[2] = d
  <1>1. /\ num_vertices \in Nat /\ INF \in Nat /\ g.n \in Nat /\ g.n <= num_vertices
        /\ source \in Capacity
    BY GraphFacts
  <1>2. /\ r \in Nat /\ r <= g.n /\ Once(f) /\ p \in [Capacity -> Int] /\ p[source] = source
        /\ \A u \in Capacity : p[u] = -1 <=> ~(Depth[u] # INF /\ Depth[u] <= r)
        /\ \A u \in Capacity \ {source} : Depth[u] # INF /\ Depth[u] <= r =>
             p[u] \in Capacity /\ Depth[u] = Depth[p[u]] + 1
        /\ \A u \in Capacity : u \in A <=> Depth[u] # INF /\ Depth[u] = r
        /\ A \subseteq Capacity
    BY <1>1, ElementsFacts DEF ParentsLoop
  <1>3. /\ \A u \in Capacity : /\ Depth[u] \in Nat /\ Depth[u] <= INF
                               /\ Depth[u] # INF => Depth[u] < g.n
                               /\ Depth[u] <= 0 <=> u = source
        /\ \A u \in Capacity : \A w \in Out(u) :
             /\ w \in Capacity
             /\ Depth[u] # INF => Depth[w] # INF /\ Depth[w] <= Depth[u] + 1
        /\ \A w \in Capacity : \A k \in Nat : Depth[w] = k + 1 /\ Depth[w] # INF =>
             \E u \in L : w \in Out(u) /\ Depth[u] = k
    BY DepthFacts
  <1>4. r < g.n
    <2>1. PICK u \in A : TRUE
      OBVIOUS
    <2> QED
      BY <1>1, <1>2, <1>3, <2>1
  <1>5. E \in SUBSET Pairs /\ \A e \in E : /\ e[1] \in A /\ e[2] \in Out(e[1])
                                           /\ e[1] \in Capacity /\ e[2] \in Capacity
    BY DEF ArcsFrom, Pairs
  <1>6. ASSUME NEW d \in Capacity PROVE To(d) <=> \E u \in A : d \in Out(u)
    <2>1. ASSUME NEW u \in A, d \in Out(u) PROVE To(d)
      <3> DEFINE e == <<u, d>>
      <3>1. e \in E /\ e[2] = d
        BY <1>2, <2>1 DEF ArcsFrom, Pairs
      <3> HIDE DEF e
      <3> QED
        BY <3>1
    <2>2. ASSUME To(d) PROVE \E u \in A : d \in Out(u)
      BY <1>5, <2>2
    <2> QED
      BY <2>1, <2>2
  <1>7. PICK out : /\ Once(out) /\ Members(out) = {} /\ ~out.all
                   /\ Walk("BFS_F", Begun(p, x, out), m, E)
    <2> DEFINE arrays == [val |-> p, aux |-> x]
    <2>1. arrays.val = p /\ arrays.aux = x
      OBVIOUS
    <2> HIDE DEF arrays
    <2> QED
      BY <1>2, <2>1, EdgeMapWalk DEF Functors, arrays, Begun
  <1> HIDE DEF E
  <1>8. /\ m \in Maps /\ Once(m.out)
        /\ Members(m.out) = {d \in Capacity : p[d] = -1 /\ To(d)}
        /\ \A d \in Capacity :
             /\ p[d] # -1 \/ ~To(d) => m.val[d] = p[d]
             /\ p[d] = -1 /\ To(d) => <<m.val[d], d>> \in E
    <2>1. num_vertices \in Nat /\ E \in SUBSET Pairs /\ p \in [Capacity -> Int]
      BY <1>1, <1>2, <1>5
    <2>2. Parented(p, E, m)
      BY <1>7, <2>1, ParentsRound
    <2> QED
      BY <2>2 DEF Parented
  <1> HIDE DEF To
  <1>9. ASSUME NEW d \in Capacity
        PROVE  p[d] = -1 /\ To(d) <=> Depth[d] # INF /\ Depth[d] = r + 1
    <2>1. ASSUME p[d] = -1, To(d) PROVE Depth[d] # INF /\ Depth[d] = r + 1
      <3>1. PICK u \in A : d \in Out(u)
        BY <1>6, <2>1
      <3>2. u \in Capacity /\ Depth[u] = r /\ Depth[u] # INF
        BY <1>1, <1>2, <1>4
      <3>3. Depth[d] # INF /\ Depth[d] <= r + 1 /\ ~(Depth[d] <= r)
        BY <1>2, <1>3, <2>1, <3>1, <3>2
      <3> QED
        BY <1>2, <1>3, <3>3
    <2>2. ASSUME Depth[d] # INF, Depth[d] = r + 1 PROVE p[d] = -1 /\ To(d)
      <3>2. PICK u \in L : d \in Out(u) /\ Depth[u] = r
        BY <1>2, <1>3, <2>2
      <3>5. u \in Capacity /\ r # INF
        <4>1. Depth[d] \in Nat /\ Depth[d] <= INF
          BY <1>3
        <4> QED
          BY <1>1, <1>2, <2>2, <3>2, <4>1, GraphFacts
      <3>3. u \in A
        BY <1>2, <3>2, <3>5
      <3>4. ~(Depth[d] <= r)
        BY <1>2, <2>2
      <3> QED
        BY <1>2, <1>6, <3>2, <3>3, <3>4
    <2> QED
      BY <2>1, <2>2
  <1>10. \A d \in Capacity : d \in Members(m.out) <=> Depth[d] # INF /\ Depth[d] = r + 1
    BY <1>8, <1>9
  <1>11. \A d \in Capacity : ~(Depth[d] # INF /\ Depth[d] = r + 1) => m.val[d] = p[d]
    BY <1>8, <1>9
  <1>12. ASSUME NEW d \in Capacity, Depth[d] # INF, Depth[d] = r + 1
         PROVE  m.val[d] \in Capacity /\ Depth[m.val[d]] = r
    <2> DEFINE e == <<m.val[d], d>>
    <2>1. e \in E /\ e[1] = m.val[d]
      BY <1>8, <1>9, <1>12
    <2> HIDE DEF e
    <2> QED
      BY <1>2, <1>5, <2>1
  <1>13. ASSUME NEW u \in Capacity PROVE Depth[u] <= r + 1 <=> Depth[u] <= r \/ Depth[u] = r + 1
    BY <1>2, <1>3
  <1>14. ASSUME NEW u \in Capacity
         PROVE  m.val[u] = -1 <=> ~(Depth[u] # INF /\ Depth[u] <= r + 1)
    <2>1. \A c \in Capacity : c # -1
      BY DEF Capacity
    <2> QED
      BY <1>2, <1>11, <1>12, <1>13, <2>1
  <1>15. ASSUME NEW u \in Capacity \ {source}, Depth[u] # INF, Depth[u] <= r + 1
         PROVE  m.val[u] \in Capacity /\ Depth[u] = Depth[m.val[u]] + 1
    <2>1. CASE Depth[u] = r + 1
      BY <1>12, <1>15, <2>1
    <2>2. CASE Depth[u] # r + 1
      BY <1>2, <1>11, <1>13, <1>15, <2>2
    <2> QED
      BY <2>1, <2>2
  <1>16. m.val[source] = source
    <2>1. Depth[source] # r + 1
      BY <1>1, <1>2, <1>3
    <2> QED
      BY <1>1, <1>2, <1>11, <2>1
  <1>17. r + 1 \in 0 .. g.n
    BY <1>1, <1>2, <1>4
  <1>18. m.val \in [Capacity -> Int] /\ m.aux \in [Capacity -> Int]
    BY <1>8 DEF Maps
  <1> QED
    BY <1>8, <1>10, <1>14, <1>15, <1>16, <1>17, <1>18 DEF ParentsLoop

\* When the frontier is empty the chains of parents are as long as the distances.
LEMMA ParentsEnd ==
    ASSUME g \in Graphs, source \in Capacity, ShortPaths,
           ParentsLoop(val, frontier, round), Members(frontier) = {}
    PROVE  /\ \A u \in Capacity : val[u] >= 0 <=> Depth[u] # INF
           /\ \A u \in Capacity : Depth[u] # INF => depth_of[u] = Depth[u]
  <1> DEFINE N == num_vertices
             r == round
  <1>1. /\ N \in Nat /\ INF \in Nat /\ g.n \in Nat /\ g.n <= N /\ source \in Capacity
    BY GraphFacts
  <1>2. /\ r \in Nat /\ r <= g.n /\ val \in [Capacity -> Int] /\ val[source] = source
        /\ \A u \in Capacity : val[u] = -1 <=> ~(Depth[u] # INF /\ Depth[u] <= r)
        /\ \A u \in Capacity \ {source} : Depth[u] # INF /\ Depth[u] <= r =>
             val[u] \in Capacity /\ Depth[u] = Depth[val[u]] + 1
        /\ \A u \in Capacity : ~(Depth[u] # INF /\ Depth[u] = r)
    BY <1>1 DEF ParentsLoop
  <1>3. /\ \A u \in Capacity : /\ Depth[u] \in Nat /\ Depth[u] <= INF
                               /\ Depth[u] # INF => Depth[u] < g.n
                               /\ Depth[u] <= 0 <=> u = source
        /\ \A w \in Capacity : \A k \in Nat : Depth[w] = k + 1 /\ Depth[w] # INF =>
             \E u \in L : w \in Out(u) /\ Depth[u] = k
    BY DepthFacts
  <1>4. ASSUME NEW w \in Capacity, Depth[w] # INF PROVE Depth[w] <= r
    <2> DEFINE V == {k \in 0 .. N :
                       \A u \in Capacity : Depth[u] # INF /\ Depth[u] = k => Depth[u] <= r}
    <2>1. 0 \in V
      BY <1>1, <1>2
    <2>2. ASSUME NEW k \in 1 .. N, k - 1 \in V PROVE k \in V
      <3>1. ASSUME NEW u \in Capacity, Depth[u] # INF, Depth[u] = k PROVE Depth[u] <= r
        <4>1. k - 1 \in Nat /\ Depth[u] = (k - 1) + 1
          BY <1>1, <3>1
        <4>2. PICK t \in L : u \in Out(t) /\ Depth[t] = k - 1
          BY <1>3, <3>1, <4>1
        <4>4. t \in Capacity /\ Depth[t] # INF
          <5>1. Depth[u] <= INF
            BY <1>3
          <5> QED
            BY <1>1, <3>1, <4>2, <5>1, GraphFacts
        <4>3. k - 1 <= r /\ k - 1 # r
          BY <1>2, <2>2, <4>2, <4>4
        <4> QED
          BY <1>2, <3>1, <4>3
      <3> QED
        BY <1>1, <3>1
    <2>3. 0 .. N \subseteq V
      <3> HIDE DEF V, N
      <3> QED
        BY <1>1, <2>1, <2>2, Induction
    <2>4. Depth[w] \in 0 .. N
      BY <1>1, <1>3, <1>4
    <2>5. Depth[w] \in V
      <3> HIDE DEF V
      <3> QED
        BY <2>3, <2>4
    <2> QED
      BY <1>4, <2>5
  <1>5. ASSUME NEW u \in Capacity
        PROVE  Depth[u] # INF /\ Depth[u] <= r <=> Depth[u] # INF
    BY <1>4
  <1>6. ASSUME NEW u \in Capacity PROVE val[u] >= 0 <=> Depth[u] # INF
    <2>1. Depth[u] # INF => val[u] \in Capacity
      BY <1>1, <1>2, <1>5
    <2>2. \A c \in Capacity : c >= 0
      BY DEF Capacity
    <2>3. Depth[u] = INF => val[u] = -1
      BY <1>2, <1>5
    <2> QED
      BY <2>1, <2>2, <2>3
  <1> DEFINE Eqn(f) == f = [v \in Capacity |-> IF val[v] \in {-1, v} THEN 0 ELSE 1 + f[val[v]]]
             known == [v \in Capacity |-> IF Depth[v] = INF THEN 0 ELSE Depth[v]]
             chain == CHOOSE f : Eqn(f)
  <1>7. ASSUME NEW v \in Capacity
        PROVE  /\ Depth[v] = INF => val[v] = -1
               /\ v = source => val[v] = v /\ Depth[v] = 0
               /\ Depth[v] # INF /\ v # source =>
                    /\ val[v] \in Capacity /\ val[v] \notin {-1, v}
                    /\ Depth[v] = Depth[val[v]] + 1 /\ Depth[val[v]] # INF
    <2>1. Depth[v] = INF => val[v] = -1
      BY <1>2, <1>5
    <2>2. v = source => val[v] = v /\ Depth[v] = 0
      BY <1>2, <1>3
    <2>3. ASSUME Depth[v] # INF, v # source
          PROVE  /\ val[v] \in Capacity /\ val[v] \notin {-1, v}
                 /\ Depth[v] = Depth[val[v]] + 1 /\ Depth[val[v]] # INF
      <3>1. val[v] \in Capacity /\ Depth[v] = Depth[val[v]] + 1
        BY <1>2, <1>5, <2>3
      <3>2. Depth[v] \in Nat /\ Depth[val[v]] \in Nat /\ Depth[v] <= INF /\ val[v] # -1
        BY <1>3, <3>1 DEF Capacity
      <3> QED
        BY <1>1, <3>1, <3>2
    <2> QED
      BY <2>1, <2>2, <2>3
  <1>8. Eqn(known)
    <2>1. ASSUME NEW v \in Capacity
          PROVE  known[v] = IF val[v] \in {-1, v} THEN 0 ELSE 1 + known[val[v]]
      <3>1. CASE Depth[v] = INF
        BY <1>7, <3>1
      <3>2. CASE Depth[v] # INF /\ v = source
        BY <1>7, <3>2
      <3>3. CASE Depth[v] # INF /\ v # source
        <4>1. /\ val[v] \in Capacity /\ val[v] \notin {-1, v}
              /\ Depth[v] = Depth[val[v]] + 1 /\ Depth[val[v]] # INF
          BY <1>7, <3>3
        <4>2. Depth[val[v]] \in Nat
          BY <1>3, <4>1
        <4>3. known[v] = Depth[v] /\ known[val[v]] = Depth[val[v]]
          BY <3>3, <4>1
        <4> QED
          BY <4>1, <4>2, <4>3
      <3> QED
        BY <3>1, <3>2, <3>3
    <2> QED
      BY <2>1
  <1>9. Eqn(chain)
    <2> HIDE DEF Eqn, known
    <2> QED
      BY <1>8
  <1>10. depth_of = chain
    BY DEF depth_of
  <1> HIDE DEF chain
  <1>11. \A v \in Capacity : depth_of[v] = IF val[v] \in {-1, v} THEN 0 ELSE 1 + depth_of[val[v]]
    BY <1>9, <1>10, Zenon
  <1> DEFINE V == {k \in 0 .. N : \A u \in Capacity :
                     Depth[u] # INF /\ Depth[u] = k => depth_of[u] = Depth[u]}
  <1>12. 0 \in V
    BY <1>1, <1>3, <1>7, <1>11
  <1>13. ASSUME NEW k \in 1 .. N, k - 1 \in V PROVE k \in V
    <2>1. ASSUME NEW u \in Capacity, Depth[u] # INF, Depth[u] = k
          PROVE  depth_of[u] = Depth[u]
      <3>1. u # source
        BY <1>1, <1>3, <2>1
      <3>2. /\ val[u] \in Capacity /\ val[u] \notin {-1, u}
            /\ Depth[u] = Depth[val[u]] + 1 /\ Depth[val[u]] # INF
        BY <1>7, <2>1, <3>1
      <3>3. Depth[val[u]] = k - 1
        BY <1>3, <2>1, <3>2
      <3>4. depth_of[val[u]] = k - 1
        BY <1>13, <3>2, <3>3
      <3>5. depth_of[u] = 1 + depth_of[val[u]]
        BY <1>11, <3>2
      <3> QED
        BY <2>1, <3>4, <3>5
    <2> QED
      BY <1>1, <2>1
  <1>14. 0 .. N \subseteq V
    <2> HIDE DEF V, N
    <2> QED
      BY <1>1, <1>12, <1>13, Induction
  <1>15. ASSUME NEW u \in Capacity, Depth[u] # INF PROVE depth_of[u] = Depth[u]
    <2>1. Depth[u] \in 0 .. N
      BY <1>1, <1>3, <1>15
    <2>2. Depth[u] \in V
      <3> HIDE DEF V
      <3> QED
        BY <1>14, <2>1
    <2> QED
      BY <1>15, <2>2
  <1> QED
    BY <1>6, <1>15

LEMMA ParentsBegin ==
    ASSUME g \in Graphs, source \in Capacity, ShortPaths,
           NEW p, p = [u \in Capacity |-> IF u = source THEN source ELSE -1]
    PROVE  ParentsLoop(p, VertexSubset(source, num_vertices, FALSE), 0)
  <1> DEFINE f == VertexSubset(source, num_vertices, FALSE)
  <1>1. num_vertices \in Nat /\ g.n \in Nat /\ source \in Capacity /\ source \in Nat
    BY GraphFacts DEF Capacity
  <1>2. Once(f) /\ Members(f) = {source}
    BY <1>1, VertexSubsetFacts
  <1>3. \A u \in Capacity : /\ Depth[u] \in Nat
                            /\ Depth[u] <= 0 <=> u = source
                            /\ Depth[u] <= 0 => Depth[u] # INF
    BY DepthFacts, GraphFacts, InfPositive
  <1> HIDE DEF f
  <1>4. /\ p \in [Capacity -> Int] /\ p[source] = source
        /\ \A u \in Capacity : p[u] = IF u = source THEN source ELSE -1
    BY <1>1
  <1>5. \A u \in Capacity : p[u] = -1 <=> ~(Depth[u] # INF /\ Depth[u] <= 0)
    BY <1>1, <1>3, <1>4
  <1>6. \A u \in Capacity : u \in Members(f) <=> Depth[u] # INF /\ Depth[u] = 0
    BY <1>2, <1>3
  <1>7. \A u \in Capacity \ {source} : ~(Depth[u] <= 0)
    BY <1>3
  <1>8. 0 \in 0 .. g.n
    BY <1>1
  <1> QED
    BY <1>2, <1>4, <1>5, <1>6, <1>7, <1>8 DEF ParentsLoop, f

\* What BFS_with_edge_map has done.
ParentsInv ==
    alg = "BFS_with_edge_map" =>
      /\ pc \in {"call", "loop", "done"}
      /\ pc = "call" => round = 0
      /\ pc = "loop" => ParentsLoop(val, frontier, round) /\ aux \in [Capacity -> Int]
      /\ pc = "done" =>
           /\ round <= g.n
           /\ result = Total(Depth, {u \in Capacity : Depth[u] # INF})

LEMMA ParentsStep ==
    ASSUME CallInv, SourceInv, ParentsInv, ShortPaths, [Next]_vars
    PROVE  ParentsInv'
  <1> SUFFICES ASSUME (alg = "BFS_with_edge_map")' PROVE ParentsInv'
    BY DEF ParentsInv
  <1>1. UNCHANGED call
    BY DEF Next, Returned, vars
  <1>2. alg' = alg /\ alg = "BFS_with_edge_map" /\ Depth' = Depth /\ g' = g /\ source' = source
    BY <1>1 DEF call, Depth, Distance, Reach
  <1>3. /\ g \in Graphs /\ Undirected /\ source \in Capacity
    BY <1>2, SourceCapacity DEF CallInv, SourceInv, EdgeMaps
  <1>4. num_vertices \in Nat /\ g.n \in Nat
    BY <1>3, GraphFacts
  <1>5. ASSUME ParentsLoop(val', frontier', round') PROVE ParentsLoop(val, frontier, round)'
    BY <1>2, <1>5 DEF ParentsLoop
  <1>6. /\ pc \in {"call", "loop", "done"}
        /\ pc = "loop" => ParentsLoop(val, frontier, round) /\ aux \in [Capacity -> Int]
    BY <1>2 DEF ParentsInv
  <1>7. CASE UNCHANGED vars
    BY <1>2, <1>7 DEF vars, ParentsInv, ParentsLoop, Total
  <1>8. CASE Run
    <2>1. BFS_with_edge_map
      <3>1. alg \in EdgeMaps /\ ~SSSP_BF /\ ~CC_T
        BY <1>2 DEF EdgeMaps, SSSP_BF, CC_T
      <3> QED
        BY <1>8, <3>1, RunEdgeMaps
    <2> DEFINE p0 == [v \in Capacity |-> IF v = source THEN source ELSE -1]
               m == edgeMap("BFS_F", g, frontier, [val |-> val, aux |-> aux], THRESHOLD)
               found == {v \in Capacity : val[v] >= 0}
    <2>2. \/ Begin(p0, None, VertexSubset(source, num_vertices, FALSE))
          \/ /\ pc = "loop" /\ not_empty(frontier)
             /\ val' = m.val /\ frontier' = m.out /\ aux' = m.aux
             /\ round' = round + 1 /\ pc' = pc
          \/ /\ pc = "loop" /\ ~not_empty(frontier)
             /\ Return(Total(depth_of, found))
             /\ round' = round
      BY <2>1 DEF BFS_with_edge_map
    <2>3. pc = "loop" => (not_empty(frontier) <=> Members(frontier) # {})
      <3>1. num_vertices \in Nat \ {0}
        BY <1>3, GraphFacts
      <3> QED
        BY <1>6, <3>1, EmptyFacts DEF ParentsLoop
    <2>4. CASE Begin(p0, None, VertexSubset(source, num_vertices, FALSE))
      <3> DEFINE f == VertexSubset(source, num_vertices, FALSE)
      <3>1. pc' = "loop" /\ val' = p0 /\ aux' = None /\ frontier' = f /\ round' = 0
        BY <2>4 DEF Begin
      <3>2. ParentsLoop(p0, f, 0)
        BY <1>3, ParentsBegin
      <3> HIDE DEF p0, f
      <3>3. ParentsLoop(val, frontier, round)'
        BY <1>5, <3>1, <3>2
      <3>4. aux' \in [Capacity -> Int]
        BY <3>1 DEF None
      <3> QED
        BY <1>2, <3>1, <3>3, <3>4 DEF ParentsInv
    <2>5. pc = "loop" /\ Members(frontier) # {} =>
            ParentsLoop(m.val, m.out, round + 1) /\ m.aux \in [Capacity -> Int]
      BY <1>3, <1>6, ParentsNext
    <2> HIDE DEF m
    <2>6. CASE /\ pc = "loop" /\ not_empty(frontier)
               /\ val' = m.val /\ frontier' = m.out /\ aux' = m.aux
               /\ round' = round + 1 /\ pc' = pc
      <3>1. ParentsLoop(val', frontier', round') /\ aux' \in [Capacity -> Int]
        BY <2>3, <2>5, <2>6
      <3>2. ParentsLoop(val, frontier, round)'
        BY <1>5, <3>1
      <3> QED
        BY <1>2, <2>6, <3>1, <3>2 DEF ParentsInv
    <2>7. CASE pc = "loop" /\ ~not_empty(frontier) /\ Return(Total(depth_of, found))
               /\ round' = round
      <3> DEFINE reached == {u \in Capacity : Depth[u] # INF}
      <3>1. /\ \A u \in Capacity : val[u] >= 0 <=> Depth[u] # INF
            /\ \A u \in Capacity : Depth[u] # INF => depth_of[u] = Depth[u]
        BY <1>3, <1>6, <2>3, <2>7, ParentsEnd
      <3>2. found \cap Capacity = reached \cap Capacity
        BY <3>1
      <3>3. \A u \in found \cap Capacity : depth_of[u] = Depth[u] /\ depth_of[u] \in Nat
        BY <1>3, <3>1, DepthFacts
      <3> HIDE DEF found, reached
      <3>4. Total(depth_of, found) = Total(Depth, reached)
        BY <1>4, <3>2, <3>3, TotalSame
      <3>5. round <= g.n
        BY <1>4, <1>6, <2>7 DEF ParentsLoop
      <3>6. pc' = "done" /\ result' = Total(Depth, reached)
        BY <2>7, <3>4 DEF Return
      <3> QED
        BY <1>2, <2>7, <3>5, <3>6 DEF ParentsInv, Total, reached
    <2> QED
      BY <2>2, <2>4, <2>6, <2>7
  <1> QED
    BY <1>7, <1>8 DEF Next, Returned

-----------------------------------------------------------------------------
(* Connected components by edge maps.                                      *)

LEMMA LabelsWalk ==
    ASSUME g \in Graphs, Undirected, NEW f, Once(f), NEW v \in [Capacity -> Int],
           NEW m, m = edgeMap("CC_F", g, f, [val |-> v, aux |-> v], THRESHOLD)
    PROVE  \E out : /\ Once(out) /\ Members(out) = {} /\ ~out.all
                    /\ Walk("CC_F", Begun(v, v, out), m, ArcsFrom(Members(f)))
  <1> DEFINE arrays == [val |-> v, aux |-> v]
  <1>1. arrays.val = v /\ arrays.aux = v
    OBVIOUS
  <1> HIDE DEF arrays
  <1> QED
    BY <1>1, EdgeMapWalk DEF Functors, arrays, Begun

LEMMA ComponentSame ==
    ASSUME g \in Graphs, Undirected, NEW u \in L, NEW v \in Component(u)
    PROVE  v \in L /\ u \in Component(v) /\ Component(v) = Component(u)
  <1>1. ASSUME NEW x \in L, NEW y \in Component(x) PROVE Component(y) \subseteq Component(x)
    <2> DEFINE X == Component(x)
    <2>1. y \in L /\ X \subseteq L /\ \A w \in X : Out(w) \subseteq X
      BY ComponentClosed
    <2>2. y \in X
      OBVIOUS
    <2> HIDE DEF X
    <2>3. Component(y) \subseteq X
      BY <2>1, <2>2, ComponentLeast
    <2> QED
      BY <2>3 DEF X
  <1> DEFINE Y == {x \in L : u \in Component(x)}
  <1>2. u \in Y
    BY ComponentClosed
  <1>3. ASSUME NEW x \in L, x \in Y PROVE Out(x) \subseteq Y
    <2>1. ASSUME NEW w \in Out(x) PROVE w \in Y
      <3>1. w \in L /\ x \in Out(w)
        <4>1. w \in L
          BY GraphFacts
        <4> QED
          BY <4>1 DEF Undirected, Out
      <3>2. x \in Component(w)
        BY <3>1, ComponentClosed
      <3>3. u \in Component(w)
        BY <1>1, <1>3, <3>1, <3>2
      <3> QED
        BY <3>1, <3>3
    <2> QED
      BY <2>1
  <1> HIDE DEF Y
  <1>4. Component(u) \subseteq Y
    BY <1>2, <1>3, ComponentLeast
  <1>5. v \in L /\ u \in Component(v)
    BY <1>4 DEF Y
  <1>6. Component(v) \subseteq Component(u) /\ Component(u) \subseteq Component(v)
    BY <1>1, <1>5
  <1> QED
    BY <1>5, <1>6

\* The least vertex of each component; what is no vertex is alone.
IsLeast(v, x) == x \in Component(v) /\ \A y \in Component(v) : x <= y
Least == [v \in Capacity |-> IF v \in L THEN CHOOSE x \in Component(v) : IsLeast(v, x) ELSE v]

LEMMA LeastFacts ==
    ASSUME g \in Graphs, Undirected
    PROVE  /\ Least \in [Capacity -> Capacity] /\ Least \in [Capacity -> Nat]
           /\ \A v \in Capacity : Least[v] <= v
           /\ \A v \in Capacity \ L : Least[v] = v
           /\ \A v \in L : Least[v] \in L /\ Least[v] \in Component(v)
           /\ \A u \in L : \A v \in Component(u) : v \in L /\ Least[v] = Least[u]
           /\ \A v \in Capacity : Least[Least[v]] = Least[v]
  <1>1. L \subseteq Capacity /\ L \subseteq Nat /\ Capacity \subseteq Nat
    BY GraphFacts DEF Capacity
  <1>2. ASSUME NEW v \in L
        PROVE  /\ Least[v] \in L /\ IsLeast(v, Least[v]) /\ Least[v] <= v
               /\ Least[v] \in Component(v)
    <2> DEFINE X == Component(v)
    <2>1. v \in X /\ X \subseteq L
      BY ComponentClosed
    <2>2. X \in SUBSET Nat /\ X # {}
      BY <1>1, <2>1
    <2> HIDE DEF X
    <2>3. \E x \in X : \A y \in X : x <= y
      BY <2>2, LeastNumber
    <2>4. \E x \in X : IsLeast(v, x)
      BY <2>3 DEF IsLeast, X
    <2>5. Least[v] = CHOOSE x \in X : IsLeast(v, x)
      BY <1>1 DEF Least, X
    <2>6. Least[v] \in X /\ IsLeast(v, Least[v])
      BY <2>4, <2>5
    <2> QED
      BY <2>1, <2>6 DEF IsLeast, X
  <1>3. ASSUME NEW v \in Capacity, v \notin L PROVE Least[v] = v
    BY <1>3 DEF Least
  <1>4. ASSUME NEW u \in L, NEW v \in Component(u) PROVE v \in L /\ Least[v] = Least[u]
    <2>1. v \in L /\ Component(v) = Component(u)
      BY ComponentSame
    <2>2. \A x : IsLeast(v, x) <=> IsLeast(u, x)
      BY <2>1 DEF IsLeast
    <2>3. /\ IsLeast(v, Least[v]) /\ IsLeast(v, Least[u])
          /\ Least[u] \in L /\ Least[v] \in L
      BY <1>2, <2>1, <2>2
    <2>4. Least[v] <= Least[u] /\ Least[u] <= Least[v]
      BY <2>3 DEF IsLeast
    <2>5. Least[u] \in Nat /\ Least[v] \in Nat
      BY <1>1, <2>3
    <2> QED
      BY <2>1, <2>4, <2>5
  <1>5. \A v \in Capacity : Least[v] \in Capacity /\ Least[v] \in Nat /\ Least[v] <= v
    <2> SUFFICES ASSUME NEW v \in Capacity
                 PROVE  Least[v] \in Capacity /\ Least[v] \in Nat /\ Least[v] <= v
      OBVIOUS
    <2>1. CASE v \in L
      <3>1. Least[v] \in L /\ Least[v] <= v
        BY <1>2, <2>1
      <3> QED
        BY <1>1, <3>1
    <2>2. CASE v \notin L
      <3>1. Least[v] = v /\ v \in Nat
        BY <1>1, <1>3, <2>2
      <3> QED
        BY <3>1
    <2> QED
      BY <2>1, <2>2
  <1>6. Least \in [Capacity -> Capacity] /\ Least \in [Capacity -> Nat]
    <2>1. Least = [v \in Capacity |-> Least[v]]
      BY DEF Least
    <2> QED
      BY <1>5, <2>1
  <1>7. ASSUME NEW v \in Capacity PROVE Least[Least[v]] = Least[v]
    <2>1. CASE v \in L
      BY <1>2, <1>4, <2>1
    <2>2. CASE v \notin L
      BY <1>3, <2>2
    <2> QED
      BY <2>1, <2>2
  <1> QED
    BY <1>2, <1>3, <1>4, <1>5, <1>6, <1>7

\* The labels count the components and the vertices without an entry.
LEMMA LeastCount ==
    ASSUME g \in Graphs, Undirected
    PROVE  /\ \A u, v \in L : Least[u] = Least[v] <=> v \in Component(u)
           /\ Cardinality(Range(Least)) = Cardinality({Component(v) : v \in L}) + Missing
  <1> DEFINE c == [v \in L |-> Least[v]]
             rest == g.n .. num_vertices - 1
  <1>1. /\ Least \in [Capacity -> Capacity]
        /\ \A v \in Capacity \ L : Least[v] = v
        /\ \A v \in L : Least[v] \in L /\ Least[v] \in Component(v)
        /\ \A u \in L : \A v \in Component(u) : v \in L /\ Least[v] = Least[u]
        /\ \A v \in Capacity : Least[Least[v]] = Least[v]
    BY LeastFacts
  <1>2. /\ num_vertices \in Nat /\ g.n \in Nat /\ g.n <= num_vertices
        /\ L \subseteq Capacity /\ IsFiniteSet(L)
    BY GraphFacts
  <1>3. ASSUME NEW u \in L, NEW v \in L PROVE Least[u] = Least[v] <=> v \in Component(u)
    <2>1. ASSUME Least[u] = Least[v] PROVE v \in Component(u)
      <3> DEFINE x == Least[u]
      <3>1. x \in L /\ x \in Component(u) /\ x \in Component(v)
        BY <1>1, <2>1
      <3> HIDE DEF x
      <3>2. Component(x) = Component(u) /\ Component(x) = Component(v)
        BY <3>1, ComponentSame
      <3>3. v \in Component(v)
        BY ComponentClosed
      <3> QED
        BY <3>2, <3>3
    <2> QED
      BY <1>1, <2>1
  <1>4. /\ c \in [L -> L] /\ Labelled(c) /\ \A x \in L : c[c[x]] = c[x]
    <2>1. c \in [L -> L] /\ \A x \in L : c[x] = Least[x]
      BY <1>1
    <2> HIDE DEF c
    <2>2. Labelled(c)
      BY <1>3, <2>1 DEF Labelled
    <2>3. ASSUME NEW x \in L PROVE c[c[x]] = c[x]
      <3>1. c[x] \in L /\ x \in Capacity /\ c[x] = Least[x]
        BY <1>2, <2>1
      <3>2. c[c[x]] = Least[c[x]] /\ Least[Least[x]] = Least[x]
        BY <1>1, <2>1, <3>1
      <3> QED
        BY <3>1, <3>2
    <2> QED
      BY <2>1, <2>2, <2>3
  <1>5. Range(Least) = Range(c) \cup rest /\ Range(c) \subseteq L /\ \A x \in L : x \notin rest
    <2>1. \A v \in Capacity : v \notin L <=> v \in rest
      BY <1>2 DEF L, Capacity
    <2>2. rest \subseteq Capacity /\ \A x \in L : x \notin rest
      BY <1>2 DEF L, Capacity
    <2> HIDE DEF rest
    <2>3. Range(Least) = {Least[v] : v \in Capacity} /\ Range(c) = {Least[v] : v \in L}
      BY <1>1 DEF Range
    <2>4. \A x \in rest : Least[x] = x
      BY <1>1, <2>1, <2>2
    <2> QED
      BY <1>1, <1>2, <2>1, <2>2, <2>3, <2>4
  <1> HIDE DEF c
  <1>6. IsFiniteSet(Range(c))
    BY <1>2, <1>5, FS_Subset
  <1>7. IsFiniteSet(rest) /\ Cardinality(rest) = num_vertices - g.n
    <2>1. IsFiniteSet(rest)
      BY <1>2, FS_Interval
    <2> DEFINE m == num_vertices - 1
    <2>2. g.n \in Int /\ m \in Int /\ rest = g.n .. m
      BY <1>2
    <2> HIDE DEF m
    <2>3. Cardinality(rest) = IF g.n > m THEN 0 ELSE m - g.n + 1
      BY <2>2, FS_Interval
    <2> QED
      BY <1>2, <2>1, <2>3 DEF m
  <1> HIDE DEF rest
  <1>8. Cardinality(Range(Least)) = Cardinality(Range(c)) + Cardinality(rest)
    BY <1>5, <1>6, <1>7, DisjointCount
  <1>9. Cardinality(Range(c)) = Cardinality({Component(v) : v \in L})
    BY <1>4, LabelsCount
  <1> QED
    BY <1>3, <1>7, <1>8, <1>9 DEF Missing

\* At the head of the loop: the labels lie between the least of the component and
\* the vertex itself, every vertex at most round edges away has been heard of,
\* and who is not in the frontier has nothing to tell.
LabelsLoop(v, x, f, r) ==
    /\ r \in 0 .. g.n /\ Once(f) /\ v \in [Capacity -> Nat] /\ x \in [Capacity -> Int]
    /\ \A u \in Capacity : Least[u] <= v[u] /\ v[u] <= u
    /\ \A u \in L : \A w \in Reach(u)[r] : v[w] <= u
    /\ \A u \in Capacity \ Members(f) : x[u] = v[u] /\ \A w \in Out(u) : v[w] <= v[u]
    /\ Members(f) # {} => r < g.n

LEMMA LabelsRound ==
    ASSUME g \in Graphs, Undirected,
           NEW v, NEW x, NEW f, NEW r, LabelsLoop(v, x, f, r), Members(f) # {},
           NEW prev, prev = vertexMap("CC_Vertex_F", f, [val |-> v, aux |-> x]),
           NEW m, m = edgeMap("CC_F", g, f, [val |-> v, aux |-> prev], THRESHOLD)
    PROVE  LabelsLoop(m.val, m.aux, m.out, r + 1)
  <1> DEFINE A == Members(f)
             E == ArcsFrom(A)
  <1>1. /\ num_vertices \in Nat /\ g.n \in Nat /\ g.n <= num_vertices
        /\ L \subseteq Capacity /\ L \subseteq Nat /\ Capacity \subseteq Nat
    BY GraphFacts DEF Capacity
  <1>2. /\ r \in Nat /\ Once(f) /\ v \in [Capacity -> Nat] /\ x \in [Capacity -> Int]
        /\ \A u \in Capacity : Least[u] <= v[u] /\ v[u] <= u
        /\ \A u \in L : \A w \in Reach(u)[r] : v[w] <= u
        /\ \A u \in Capacity \ A : x[u] = v[u] /\ \A w \in Out(u) : v[w] <= v[u]
        /\ r < g.n /\ A \subseteq Capacity
    <2>1. r \in 0 .. g.n /\ Once(f) /\ (A # {} => r < g.n)
      BY DEF LabelsLoop
    <2>2. A \subseteq Capacity
      BY <1>1, <2>1, ElementsFacts
    <2>3. r \in Nat /\ r < g.n
      BY <1>1, <2>1
    <2> HIDE DEF A
    <2> QED
      BY <2>1, <2>2, <2>3 DEF LabelsLoop, A
  <1>3. /\ Least \in [Capacity -> Nat]
        /\ \A u \in L : Least[u] \in L /\ Least[u] \in Component(u)
        /\ \A u \in L : \A w \in Component(u) : Least[w] = Least[u]
        /\ \A u \in Capacity \ L : Least[u] = u
    BY LeastFacts
  <1>4. \A u \in Capacity : \A w \in Out(u) : u \in L /\ w \in L
    BY ListFacts
  <1>5. E \in SUBSET Pairs /\ \A e \in E : /\ e[1] \in A /\ e[2] \in Out(e[1])
                                           /\ e[1] \in Capacity /\ e[2] \in Capacity
    BY DEF ArcsFrom, Pairs
  <1>6. ASSUME NEW u \in A, NEW w \in Out(u) PROVE <<u, w>> \in E
    BY <1>1, <1>2, <1>4 DEF ArcsFrom, Pairs
  <1>7. prev = v
    <2> DEFINE arrays == [val |-> v, aux |-> x]
    <2>1. arrays.aux = [u \in Capacity |-> arrays.aux[u]]
      BY <1>2
    <2>2. arrays.val = v /\ arrays.aux = x
      OBVIOUS
    <2> HIDE DEF arrays
    <2>3. vertexMap("CC_Vertex_F", f, arrays)
            = [u \in Capacity |-> IF u \in A THEN v[u] ELSE x[u]]
      BY <1>1, <1>2, <2>1, <2>2, VertexMapFacts
    <2>4. \A u \in Capacity : (IF u \in A THEN v[u] ELSE x[u]) = v[u]
      BY <1>2
    <2> QED
      BY <1>2, <2>3, <2>4 DEF arrays
  <1>8. v = Unchanged("CC_F", v) /\ v \in [Capacity -> Int]
    BY <1>2 DEF Unchanged
  <1>9. PICK out : /\ Once(out) /\ Members(out) = {} /\ ~out.all
                   /\ Walk("CC_F", Begun(v, Unchanged("CC_F", v), out), m, E)
    <2>1. m = edgeMap("CC_F", g, f, [val |-> v, aux |-> v], THRESHOLD)
      BY <1>7
    <2> QED
      BY <1>2, <1>8, <2>1, LabelsWalk
  <1>10. Weight("CC_F") = 0 /\ "CC_F" \in {"CC_F", "BF_F"}
    BY DEF Weight
  <1> HIDE DEF E, A
  <1>11. /\ m \in Maps /\ Once(m.out) /\ m.val \in [Capacity -> Nat]
         /\ \A u \in Capacity : Least[u] <= m.val[u] /\ m.val[u] <= v[u]
         /\ \A e \in E : m.val[e[2]] <= v[e[1]]
         /\ Members(m.out) = {u \in Capacity : m.val[u] # v[u]}
         /\ m.aux = v
    <2>1. \A e \in E : Least[e[2]] <= Least[e[1]] + Weight("CC_F")
      <3> SUFFICES ASSUME NEW e \in E PROVE Least[e[2]] <= Least[e[1]]
        BY <1>3, <1>5, <1>10
      <3>1. e[1] \in L /\ e[2] \in Out(e[1])
        BY <1>4, <1>5
      <3>2. e[2] \in Component(e[1])
        BY <3>1, ComponentClosed
      <3>3. Least[e[2]] = Least[e[1]]
        BY <1>3, <3>1, <3>2
      <3>4. Least[e[1]] \in Nat
        BY <1>3, <1>5
      <3> QED
        BY <3>3, <3>4
    <2>2. /\ num_vertices \in Nat /\ E \in SUBSET Pairs /\ v \in [Capacity -> Nat]
          /\ Least \in [Capacity -> Nat] /\ \A u \in Capacity : Least[u] <= v[u]
      BY <1>1, <1>2, <1>3, <1>5
    <2>3. Spread("CC_F", v, Least, E, m)
      BY <1>9, <1>10, <2>1, <2>2, SpreadRound
    <2>4. \A e \in E : m.val[e[2]] <= v[e[1]] + 0
      BY <1>10, <2>3 DEF Spread
    <2>5. \A e \in E : v[e[1]] + 0 = v[e[1]]
      BY <1>2, <1>5
    <2> QED
      BY <2>3, <2>4, <2>5 DEF Spread
  <1>12. \A u \in A : \A w \in Out(u) : m.val[w] <= v[u]
    <2> SUFFICES ASSUME NEW u \in A, NEW w \in Out(u) PROVE m.val[w] <= v[u]
      OBVIOUS
    <2> DEFINE e == <<u, w>>
    <2>1. e \in E /\ e[1] = u /\ e[2] = w
      BY <1>6
    <2> HIDE DEF e
    <2> QED
      BY <1>11, <2>1
  <1>13. \A u \in Capacity : /\ m.val[u] \in Nat /\ v[u] \in Nat /\ Least[u] \in Nat
                             /\ m.val[u] <= v[u] /\ v[u] <= u /\ Least[u] <= m.val[u]
                             /\ u \in Nat
    BY <1>1, <1>2, <1>3, <1>11
  <1>14. ASSUME NEW u \in Capacity, NEW w \in Out(u) PROVE m.val[w] <= v[u]
    <2>1. CASE u \in A
      BY <1>12, <2>1
    <2>2. CASE u \notin A
      <3>1. v[w] <= v[u] /\ w \in Capacity
        BY <1>1, <1>2, <1>4, <2>2
      <3> QED
        BY <1>13, <3>1
    <2> QED
      BY <2>1, <2>2
  <1>15. ASSUME NEW u \in L, NEW w \in Reach(u)[r + 1] PROVE m.val[w] <= u
    <2> DEFINE k == r + 1
    <2>1. k \in 1 .. num_vertices /\ k - 1 = r /\ r \in 0 .. num_vertices
      BY <1>1, <1>2
    <2>2. Reach(u)[k] = Grow(Reach(u)[k - 1]) /\ Reach(u)[r] \subseteq L
      BY <2>1, ReachFacts
    <2>3. w \in Grow(Reach(u)[r])
      BY <2>1, <2>2
    <2>4. CASE w \in Reach(u)[r]
      <3>1. v[w] <= u /\ w \in Capacity /\ u \in Capacity
        BY <1>1, <1>2, <2>2, <2>4
      <3> QED
        BY <1>13, <3>1
    <2>5. CASE w \notin Reach(u)[r]
      <3>1. PICK t \in Reach(u)[r] : w \in Out(t)
        BY <2>3, <2>5 DEF Grow
      <3>2. t \in Capacity /\ w \in Capacity /\ v[t] <= u /\ m.val[w] <= v[t] /\ u \in Capacity
        BY <1>1, <1>2, <1>4, <1>14, <2>2, <3>1
      <3> QED
        BY <1>13, <3>2
    <2> QED
      BY <2>4, <2>5
  <1>16. ASSUME NEW u \in Capacity \ Members(m.out)
         PROVE  m.aux[u] = m.val[u] /\ \A w \in Out(u) : m.val[w] <= m.val[u]
    <2>1. m.val[u] = v[u]
      BY <1>11
    <2> QED
      BY <1>11, <1>14, <2>1
  <1>17. ASSUME Members(m.out) # {} PROVE r + 1 < g.n
    <2>1. PICK u \in Capacity : m.val[u] # v[u]
      BY <1>11, <1>17
    <2>2. u \in L
      <3>1. u \notin L => Least[u] = u
        BY <1>3
      <3> QED
        BY <1>13, <2>1, <3>1
    <2> DEFINE low == Least[u]
    <2>3. low \in L /\ u \in Component(low)
      BY <1>3, <2>2, ComponentSame
    <2>4. CASE r = g.n - 1
      <3>1. num_vertices \in 0 .. num_vertices /\ g.n - 1 <= num_vertices
        BY <1>1
      <3>2. Component(low) = Reach(low)[r]
        BY <2>3, <2>4, <3>1, ReachEnds DEF Component
      <3>3. v[u] <= low
        BY <1>2, <2>3, <3>2
      <3> QED
        BY <1>13, <2>1, <3>3
    <2> QED
      BY <1>1, <1>2, <2>4
  <1>18. r + 1 \in 0 .. g.n /\ m.aux \in [Capacity -> Int]
    BY <1>1, <1>2, <1>8, <1>11
  <1> QED
    BY <1>11, <1>13, <1>15, <1>16, <1>17, <1>18 DEF LabelsLoop

LEMMA LabelsBegin ==
    ASSUME g \in Graphs, Undirected, NEW v, v = [u \in Capacity |-> u]
    PROVE  LabelsLoop(v, None, VertexSubset(0, num_vertices, TRUE), 0)
  <1> DEFINE f == VertexSubset(0, num_vertices, TRUE)
  <1>1. /\ num_vertices \in Nat /\ g.n \in Nat \ {0} /\ g.n <= num_vertices
        /\ L \subseteq Capacity
    BY GraphFacts
  <1>2. 0 \in Capacity
    BY <1>1 DEF Capacity
  <1>3. Once(f) /\ Members(f) = Capacity
    BY <1>1, <1>2, VertexSubsetFacts
  <1>4. v \in [Capacity -> Nat] /\ \A u \in Capacity : v[u] = u /\ u \in Nat
    BY DEF Capacity
  <1>5. \A u \in Capacity : Least[u] <= v[u] /\ v[u] <= u
    BY <1>4, LeastFacts
  <1>6. ASSUME NEW u \in L, NEW w \in Reach(u)[0] PROVE v[w] <= u
    BY <1>1, <1>4, <1>6, ReachFacts
  <1>7. None \in [Capacity -> Int] /\ 0 \in 0 .. g.n /\ 0 < g.n
    BY <1>1 DEF None
  <1> HIDE DEF f
  <1> QED
    BY <1>3, <1>4, <1>5, <1>6, <1>7 DEF LabelsLoop, f

LEMMA LabelsEnd ==
    ASSUME g \in Graphs, Undirected,
           NEW v, NEW x, NEW f, NEW r, LabelsLoop(v, x, f, r), Members(f) = {}
    PROVE  v = Least
  <1>1. L \subseteq Capacity /\ Capacity \subseteq Nat
    BY GraphFacts DEF Capacity
  <1>2. /\ v \in [Capacity -> Nat]
        /\ \A u \in Capacity : Least[u] <= v[u] /\ v[u] <= u
        /\ \A u \in Capacity : \A w \in Out(u) : v[w] <= v[u]
    BY DEF LabelsLoop
  <1>3. /\ Least \in [Capacity -> Nat]
        /\ \A u \in Capacity \ L : Least[u] = u
        /\ \A u \in L : Least[u] \in L /\ Least[u] \in Component(u)
    BY LeastFacts
  <1>4. ASSUME NEW u \in L PROVE v[u] = Least[u]
    <2> DEFINE low == Least[u]
               X == {w \in L : v[w] <= low}
    <2>1. low \in L /\ u \in Component(low) /\ low \in Nat
      BY <1>1, <1>3, ComponentSame
    <2> HIDE DEF low
    <2>2. low \in X
      BY <1>1, <1>2, <2>1
    <2>3. ASSUME NEW w \in L, w \in X PROVE Out(w) \subseteq X
      <3> SUFFICES ASSUME NEW t \in Out(w) PROVE t \in X
        OBVIOUS
      <3>1. w \in Capacity /\ t \in L /\ t \in Capacity
        BY <1>1, ListFacts
      <3>2. v[t] <= v[w] /\ v[w] <= low /\ v[t] \in Nat /\ v[w] \in Nat
        BY <1>2, <2>3, <3>1
      <3> QED
        BY <2>1, <3>1, <3>2
    <2> HIDE DEF X
    <2>4. Component(low) \subseteq X
      BY <2>1, <2>2, <2>3, ComponentLeast
    <2>5. v[u] <= Least[u] /\ Least[u] <= v[u] /\ v[u] \in Nat /\ Least[u] \in Nat
      BY <1>1, <1>2, <1>3, <2>1, <2>4 DEF X, low
    <2> QED
      BY <2>5
  <1>5. ASSUME NEW u \in Capacity, u \notin L PROVE v[u] = Least[u]
    <2>1. Least[u] = u /\ u \in Nat /\ v[u] \in Nat /\ Least[u] <= v[u] /\ v[u] <= u
      BY <1>1, <1>2, <1>3, <1>5
    <2> QED
      BY <2>1
  <1> QED
    BY <1>2, <1>3, <1>4, <1>5

\* What CC_T has done.
LabelsInv ==
    alg = "CC_T" =>
      /\ pc \in {"call", "loop", "done"}
      /\ pc = "call" => round = 0
      /\ pc = "loop" => LabelsLoop(val, aux, frontier, round)
      /\ pc = "done" =>
           /\ round <= g.n /\ val = Least
           /\ result = Cardinality({Component(v) : v \in L}) + Missing

LEMMA LabelsStep ==
    ASSUME CallInv, LabelsInv, [Next]_vars
    PROVE  LabelsInv'
  <1> SUFFICES ASSUME (alg = "CC_T")' PROVE LabelsInv'
    BY DEF LabelsInv
  <1>1. UNCHANGED call
    BY DEF Next, Returned, vars
  <1>2. alg' = alg /\ alg = "CC_T" /\ g' = g
    BY <1>1 DEF call
  <1>3. /\ L' = L /\ (\A v : Component(v)' = Component(v)) /\ Missing' = Missing
        /\ Least' = Least
    BY <1>2 DEF L, Component, Reach, Missing, Least, IsLeast
  <1>4. /\ g \in Graphs /\ Undirected
    BY <1>2 DEF CallInv, EdgeMaps
  <1>5. num_vertices \in Nat \ {0} /\ g.n \in Nat
    BY <1>4, GraphFacts
  <1>6. LabelsLoop(val', aux', frontier', round') <=> LabelsLoop(val, aux, frontier, round)'
    BY <1>2, <1>3 DEF LabelsLoop, Reach, Out
  <1>7. /\ pc \in {"call", "loop", "done"}
        /\ pc = "loop" => LabelsLoop(val, aux, frontier, round)
        /\ pc = "done" =>
             /\ round <= g.n /\ val = Least
             /\ result = Cardinality({Component(v) : v \in L}) + Missing
        /\ pc = "call" => round = 0
    BY <1>2 DEF LabelsInv
  <1> SUFFICES /\ pc' \in {"call", "loop", "done"}
               /\ pc' = "call" => round' = 0
               /\ pc' = "loop" => LabelsLoop(val', aux', frontier', round')
               /\ pc' = "done" =>
                    /\ round' <= g.n /\ val' = Least
                    /\ result' = Cardinality({Component(v) : v \in L}) + Missing
    BY <1>2, <1>3, <1>6 DEF LabelsInv
  <1>8. CASE UNCHANGED vars
    BY <1>7, <1>8 DEF vars
  <1>9. CASE Run
    <2>1. CC_T
      <3>1. alg \in EdgeMaps /\ ~SSSP_BF /\ ~BFS_with_edge_map
        BY <1>2 DEF EdgeMaps, SSSP_BF, BFS_with_edge_map
      <3> QED
        BY <1>9, <3>1, RunEdgeMaps
    <2> DEFINE v0 == [v \in Capacity |-> v]
               f0 == VertexSubset(0, num_vertices, TRUE)
               prev == vertexMap("CC_Vertex_F", frontier, [val |-> val, aux |-> aux])
               m == edgeMap("CC_F", g, frontier, [val |-> val, aux |-> prev], THRESHOLD)
    <2>2. \/ Begin(v0, None, f0)
          \/ /\ pc = "loop" /\ not_empty(frontier)
             /\ val' = m.val /\ frontier' = m.out /\ aux' = m.aux
             /\ round' = round + 1 /\ pc' = pc
          \/ /\ pc = "loop" /\ ~not_empty(frontier)
             /\ Return(Cardinality(Range(val)))
             /\ round' = round /\ val' = val
      BY <2>1 DEF CC_T
    <2>3. pc = "loop" => (not_empty(frontier) <=> Members(frontier) # {})
      BY <1>5, <1>7, EmptyFacts DEF LabelsLoop
    <2>4. CASE Begin(v0, None, f0)
      <3>1. pc' = "loop" /\ val' = v0 /\ aux' = None /\ frontier' = f0 /\ round' = 0
        BY <2>4 DEF Begin
      <3>2. LabelsLoop(v0, None, f0, 0)
        BY <1>4, LabelsBegin
      <3> HIDE DEF v0, f0
      <3> QED
        BY <3>1, <3>2
    <2>5. pc = "loop" /\ Members(frontier) # {} =>
            LabelsLoop(m.val, m.aux, m.out, round + 1)
      BY <1>4, <1>7, LabelsRound
    <2> HIDE DEF m
    <2>6. CASE /\ pc = "loop" /\ not_empty(frontier)
               /\ val' = m.val /\ frontier' = m.out /\ aux' = m.aux
               /\ round' = round + 1 /\ pc' = pc
      BY <2>3, <2>5, <2>6
    <2>7. CASE /\ pc = "loop" /\ ~not_empty(frontier)
               /\ Return(Cardinality(Range(val)))
               /\ round' = round /\ val' = val
      <3>1. val = Least
        BY <1>4, <1>7, <2>3, <2>7, LabelsEnd
      <3>2. Cardinality(Range(val)) = Cardinality({Component(v) : v \in L}) + Missing
        BY <1>4, <3>1, LeastCount
      <3>3. round <= g.n
        BY <1>5, <1>7, <2>7 DEF LabelsLoop
      <3>4. pc' = "done" /\ result' = Cardinality(Range(val))
        BY <2>7 DEF Return
      <3> QED
        BY <2>7, <3>1, <3>2, <3>3, <3>4
    <2> QED
      BY <2>2, <2>4, <2>6, <2>7
  <1> QED
    BY <1>8, <1>9 DEF Next, Returned

-----------------------------------------------------------------------------
(* The theorems about searches, components and edge maps.                  *)

EdgeMapInv == CallInv /\ SourceInv /\ ParentsInv /\ PathsInv /\ LabelsInv

LEMMA LabelsInvariant == Spec => []LabelsInv
  <1>1. Init => LabelsInv
    BY DEF Init, LabelsInv
  <1>2. CallInv /\ LabelsInv /\ [Next]_vars => LabelsInv'
    BY LabelsStep
  <1> QED
    BY <1>1, <1>2, CallInvariant, PTL DEF Spec

\* Of every edge map on every undirected graph whose paths are shorter than INF,
\* from whatever id its source is taken for, at the head of the loop: the
\* frontier has each vertex once, breadth first search has parents one edge
\* nearer for its first levels (bfs_edgemap.h:24-65), shortest paths have what is
\* round edges away (bellman_ford_edgemap.h:64-96), and the labels of components
\* lie between the least one and all that has been heard of (cc_edgemap.h:70-98).
THEOREM EdgeMapInvariant == Spec => [](ShortPaths => EdgeMapInv)
  <1>1. Init => SourceInv /\ ParentsInv /\ PathsInv
    <2> SUFFICES ASSUME Init PROVE SourceInv /\ ParentsInv /\ PathsInv
      OBVIOUS
    <2>1. alg \in {"BFS_with_edge_map", "SSSP_BF"} => alg \in Searches
      BY DEF Searches, EdgeMaps, Connectivity
    <2>2. SourceInv
      BY <2>1 DEF Init, SourceInv
    <2>3. ParentsInv /\ PathsInv
      BY DEF Init, ParentsInv, PathsInv
    <2> QED
      BY <2>2, <2>3
  <1>2. SourceInv /\ [Next]_vars => SourceInv'
    BY DEF SourceInv, Next, Returned, vars, call
  <1>3. CallInv /\ SourceInv /\ ShortPaths /\ ParentsInv /\ [Next]_vars => ParentsInv'
    BY ParentsStep
  <1>4. CallInv /\ SourceInv /\ ShortPaths /\ PathsInv /\ [Next]_vars => PathsInv'
    BY PathsStep
  <1>5. [Next]_vars => (ShortPaths' <=> ShortPaths)
    BY PathsStay
  <1> QED
    BY <1>1, <1>2, <1>3, <1>4, <1>5, CallInvariant, LabelsInvariant, PTL DEF Spec, EdgeMapInv

\* Between two rounds of every edge map, on every undirected graph whose paths
\* are shorter than INF, the frontier has each vertex once and the vertices
\* outside it have nothing new to tell
\* (vertex_subset.h:199-257, cc_edgemap.h:51-67, bellman_ford_edgemap.h:40-61).
THEOREM FrontierSoundHolds == Spec => [](ShortPaths => FrontierSound)
  <1>1. EdgeMapInv => FrontierSound
    <2> SUFFICES ASSUME EdgeMapInv, alg \in EdgeMaps, pc = "loop" PROVE FrontierSound
      BY DEF FrontierSound
    <2>1. num_vertices \in Nat
      BY GraphFacts DEF EdgeMapInv, CallInv
    <2>2. Once(frontier)
      BY DEF EdgeMapInv, EdgeMaps, ParentsInv, PathsInv, LabelsInv, ParentsLoop,
             PathsLoop, LabelsLoop
    <2>3. /\ IsInjective(Elements(frontier)) /\ ToSet(Elements(frontier)) = Members(frontier)
          /\ Members(frontier) \subseteq Capacity
      BY <2>1, <2>2, ElementsFacts
    <2> DEFINE settled == Capacity \ Members(frontier)
    <2>4. ASSUME alg = "CC_T"
          PROVE  /\ \A v \in settled : aux[v] = val[v]
                 /\ \A v \in settled, w \in Capacity :
                      w \in ToSet(g.adj[v]) => val[w] <= val[v] + 0
      <3>1. LabelsLoop(val, aux, frontier, round)
        BY <2>4 DEF EdgeMapInv, LabelsInv
      <3>2. \A v \in settled : aux[v] = val[v] /\ \A w \in Out(v) : val[w] <= val[v]
        BY <3>1 DEF LabelsLoop
      <3>3. \A v \in settled : val[v] \in Nat
        BY <3>1 DEF LabelsLoop
      <3> QED
        BY <3>2, <3>3 DEF Out
    <2>5. ASSUME alg = "SSSP_BF"
          PROVE  /\ \A v \in Capacity : aux[v] = 0 /\ (v \in Members(frontier) => val[v] < INF)
                 /\ \A v \in settled, w \in Capacity :
                      w \in ToSet(g.adj[v]) => val[w] <= val[v] + 1
      <3>1. PathsLoop(val, frontier, round) /\ aux = None
        BY <2>5 DEF EdgeMapInv, PathsInv
      <3>2. /\ \A v \in Capacity : v \in Members(frontier) => val[v] < INF
            /\ \A v \in settled : \A w \in Out(v) : val[w] <= val[v] + 1
        BY <3>1 DEF PathsLoop
      <3>3. \A v \in Capacity : aux[v] = 0
        BY <3>1 DEF None
      <3> QED
        BY <3>2, <3>3 DEF Out
    <2> QED
      BY <2>3, <2>4, <2>5 DEF FrontierSound, EdgeMaps
  <1> QED
    BY <1>1, EdgeMapInvariant, PTL

\* On every graph whose paths are shorter than INF, every form of breadth first
\* search and of Bellman-Ford and, where physical and logical ids agree,
\* Dijkstra's algorithm and the edge maps return the sum of the distances from
\* their source; all but the search by edge maps, which keeps parents, leave each
\* vertex its distance
\* (bfs.h:6-190, bellman_ford.h:11-240, dijkstra.h:10-86, bfs_edgemap.h:24-65,
\* bellman_ford_edgemap.h:64-96).
THEOREM DistancesExactHolds == Spec => [](ShortPaths => DistancesExact)
  <1>1. EdgeMapInv /\ ShortPaths /\ (alg \notin EdgeMaps => DistancesExact) => DistancesExact
    <2> SUFFICES ASSUME EdgeMapInv, ShortPaths, alg \in EdgeMaps, Ended(Searches),
                        PhysicalIsLogical
                 PROVE  DistancesExact
      BY DEF DistancesExact
    <2> DEFINE reached == {v \in Capacity : Depth[v] # INF}
    <2>1. /\ pc = "done" /\ alg \in {"BFS_with_edge_map", "SSSP_BF"}
          /\ alg \notin {"test_bfs", "test_bfs2", "test_bfs3", "test_bfs5"}
      BY DEF Ended, EdgeMaps, Searches, Connectivity
    <2>5. find_vertex(source) = source
      <3>1. g \in Graphs /\ source \in Range(g.phys)
        BY <2>1 DEF EdgeMapInv, CallInv, SourceInv
      <3> QED
        BY <3>1, FindVertex DEF PhysicalIsLogical
    <2>6. Depth = Distance(find_vertex(source))
      BY <2>5 DEF Depth
    <2>2. CASE alg = "BFS_with_edge_map"
      <3>1. result = Total(Depth, reached)
        BY <2>1, <2>2 DEF EdgeMapInv, ParentsInv
      <3> QED
        BY <2>2, <2>6, <3>1 DEF DistancesExact
    <2>3. CASE alg = "SSSP_BF"
      <3> SUFFICES /\ result = Total(Depth, reached)
                   /\ \A v \in L : val[v] = Depth[v]
        BY <2>1, <2>3, <2>6 DEF DistancesExact
      <3>1. g \in Graphs /\ source \in Capacity
        BY <2>3, SourceCapacity DEF EdgeMapInv, CallInv, SourceInv
      <3>2. /\ num_vertices \in Nat /\ L \subseteq Capacity
            /\ \A v \in Capacity : Depth[v] \in Nat
        BY <3>1, GraphFacts, DepthFacts
      <3> DEFINE found == {u \in Capacity : val[u] # INF}
      <3>3. /\ \A v \in Capacity : val[v] = Depth[v]
            /\ result = Total(val, found)
        BY <2>1, <2>3 DEF EdgeMapInv, PathsInv
      <3>4. found \cap Capacity = reached \cap Capacity
        BY <3>3
      <3>5. \A u \in found \cap Capacity : val[u] = Depth[u] /\ val[u] \in Nat
        BY <3>2, <3>3
      <3> HIDE DEF found, reached
      <3>6. Total(val, found) = Total(Depth, reached)
        BY <3>2, <3>4, <3>5, TotalSame
      <3> QED
        BY <3>2, <3>3, <3>6
    <2> QED
      BY <2>1, <2>2, <2>3
  <1> QED
    BY <1>1, SearchesExact, EdgeMapInvariant, PTL

\* On every undirected graph every form gives two vertices one label if and only
\* if a path joins them, and counts the components; the order of the edges, the
\* labels that are hooked to and the switches between sparse and dense rounds do
\* not matter (cc.h:11-196, cc_edgemap.h:70-98).
THEOREM ComponentsExactHolds == Spec => []ComponentsExact
  <1>1. CallInv /\ LabelsInv /\ (alg \notin EdgeMaps => ComponentsExact) => ComponentsExact
    <2> SUFFICES ASSUME CallInv, LabelsInv, alg \in EdgeMaps, Ended(Connectivity)
                 PROVE  /\ \A u, v \in L : val[u] = val[v] <=> v \in Component(u)
                        /\ result = Cardinality({Component(v) : v \in L}) + Missing
      BY DEF ComponentsExact
    <2>1. alg = "CC_T" /\ pc = "done"
      BY DEF Ended, EdgeMaps, Connectivity
    <2>2. g \in Graphs /\ Undirected
      BY DEF CallInv
    <2>3. val = Least /\ result = Cardinality({Component(v) : v \in L}) + Missing
      BY <2>1 DEF LabelsInv
    <2> QED
      BY <2>2, <2>3, LeastCount
  <1> QED
    BY <1>1, HookedExact, CallInvariant, LabelsInvariant, PTL

\* On every graph whose paths are shorter than INF no search and no edge map goes
\* round more often than there are vertices: a round that finds something reaches
\* a level no round reached before
\* (bfs.h:21-36, bellman_ford.h:35-62, bfs_edgemap.h:32-39, cc_edgemap.h:80-85,
\* bellman_ford_edgemap.h:78-91).
THEOREM RoundsBoundedHolds == Spec => [](ShortPaths => RoundsBounded)
  <1>1. EdgeMapInv /\ (alg \notin EdgeMaps => RoundsBounded) => RoundsBounded
    <2> SUFFICES ASSUME EdgeMapInv, alg \in EdgeMaps PROVE round <= g.n
      BY DEF RoundsBounded
    <2>1. g.n \in Nat
      BY GraphFacts DEF EdgeMapInv, CallInv
    <2> QED
      BY <2>1 DEF EdgeMapInv, EdgeMaps, ParentsInv, PathsInv, LabelsInv, ParentsLoop,
                  PathsLoop, LabelsLoop
  <1> QED
    BY <1>1, SearchesBounded, EdgeMapInvariant, PTL

=============================================================================
