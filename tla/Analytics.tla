----------------------------- MODULE Analytics -----------------------------
(***************************************************************************)
(* The graph algorithms of src/apps on a graph that is not changed while   *)
(* they run, without weights.  A run is one call of one of them (alg); a   *)
(* step is one round of its outer loop.                                    *)
(*                                                                         *)
(* Logical ids count the vertices in the order of their insertion, and     *)
(* adjacency lists hold logical ids.  The readers return the whole list,   *)
(* which is what EdgeList shows of them.                                   *)
(***************************************************************************)
EXTENDS EdgeMap

CONSTANTS
    num_vertices,       \* get_num_vertices: the capacity, not the count
    Graphs,             \* records n, adj, degree and phys, see below
    INF,
    UNIT,               \* 1.0: ranks are exact multiples of 1 / UNIT
    iteration_count,
    THRESHOLD,          \* of edgeMap where the caller gives none (20)
    GAP                 \* of the table of degrees (16)

Capacity == 0 .. num_vertices - 1

\* A graph has n vertices; the lists of the other logical ids are empty.  phys
\* is the physical id of a logical one.  degree may be above the length of the
\* list after deletions (DegreeCovers of EdgeTree).
ASSUME GraphsAssumption ==
    /\ num_vertices \in Nat /\ INF \in Nat
    /\ \A g \in Graphs :
        /\ g.n \in 1 .. num_vertices
        /\ DOMAIN g.adj = Capacity /\ g.degree \in [Capacity -> Nat]
        /\ \A u \in Capacity :
             /\ g.adj[u] \in Seq(IF u < g.n THEN 0 .. g.n - 1 ELSE {})
             /\ g.degree[u] >= Len(g.adj[u]) /\ IsInjective(g.adj[u])
        /\ g.phys \in [0 .. g.n - 1 -> Capacity]
        /\ IsInjective(g.phys)

\* main calls page rank with 10 iterations (graph_benchmark.cc:572).
ASSUME RanksAssumption == UNIT \in Nat /\ iteration_count \in Nat \ {0}

VARIABLES
    alg, g, source, query,
    pc,                 \* "call", "loop", "check", "done"
    val, aux,           \* status, components, dist, rank_array, ..; the second array
    frontier,
    round,              \* level, i, iter_count, round or count
    has_change,
    result

call == <<alg, g, source, query>>
vars == <<call, pc, val, aux, frontier, round, has_change, result>>

L == 0 .. g.n - 1

find_vertex(p) == IF p \in Range(g.phys) THEN CHOOSE v \in L : g.phys[v] = p ELSE -1

\* The lists by logical and by physical id, and all edges of the vertices us in
\* the order of the loop over the vertices.
Adj(v) == IF v \in Capacity THEN g.adj[v] ELSE <<>>
get_adj_edges(p) == Adj(find_vertex(p))     \* where p has a vertex, else it exits
Row(u) == [j \in 1 .. Len(g.adj[u]) |-> <<u, g.adj[u][j]>>]
EdgesOf(us) ==
    LET upTo[i \in 0 .. g.n] ==
          IF i = 0 THEN <<>>
          ELSE upTo[i - 1] \o (IF i - 1 \in us THEN Row(i - 1) ELSE <<>>)
    IN  upTo[g.n]
Edges == EdgesOf(L)
\* Mutant: vertices with one edge are left out.
ArrayEdgesFromTwo == EdgesOf({u \in L : g.degree[u] > 1})
\* The forms that make an array of degree entries leave out degree 0.
ArrayEdges == EdgesOf({u \in L : g.degree[u] # 0})

\* The sum of f over the ids in S.
Total(f, S) ==
    LET upTo[i \in 0 .. num_vertices] ==
          IF i = 0 THEN 0 ELSE upTo[i - 1] + (IF i - 1 \in S THEN f[i - 1] ELSE 0)
    IN  upTo[num_vertices]
Missing == num_vertices - g.n

\* The steps that all algorithms share.
Begin(v, a, vs) ==
    /\ pc = "call" /\ pc' = "loop"
    /\ val' = v /\ aux' = a /\ frontier' = vs
    /\ round' = 0 /\ UNCHANGED <<has_change, result>>
Return(r) == result' = r /\ pc' = "done"
Goto(label) == pc' = label /\ UNCHANGED result

None == [v \in Capacity |-> 0]
NoFrontier == VertexSubset(0, num_vertices, TRUE)

-----------------------------------------------------------------------------
\* Breadth first search: passes over all vertices of one level.
Visit(status, level, edges) ==
    ForEach(LAMBDA s, e : IF s[e[1]] = level /\ s[e[2]] = -1
                          THEN [s EXCEPT ![e[2]] = level + 1] ELSE s,
            status, edges)

Bfs(edges) ==
    \/ Begin([v \in L |-> IF v = find_vertex(source) THEN 0 ELSE -1], None, NoFrontier)
    \/ /\ pc = "loop"
       /\ val' = Visit(val, round, edges)
       /\ round' = round + 1
       /\ IF val' # val THEN Goto("loop")
          ELSE Return(Total(val, {v \in L : val[v] # -1}))
       /\ UNCHANGED <<aux, frontier, has_change>>

test_bfs == alg = "test_bfs" /\ Bfs(Edges)
test_bfs2 == alg = "test_bfs2" /\ Bfs(ArrayEdges)
test_bfs_iterators == alg \in {"test_bfs3", "test_bfs5"} /\ Bfs(Edges)

\* Connected components: each edge hooks the higher of two labels to the lower,
\* Mutant: whatever the higher label points at is lost.
HookBlind(components, p1, p2) ==
    LET high == IF p1 > p2 THEN p1 ELSE p2
    IN  IF p1 = p2 THEN components ELSE [components EXCEPT ![high] = p1 + (p2 - high)]
Hook(components, p1, p2) ==
    LET after[p \in L \X L] ==
          LET high == IF p[1] > p[2] THEN p[1] ELSE p[2]
              low == p[1] + (p[2] - high)
              p_high == components[high]
          IN  CASE p[1] = p[2] \/ p_high = low -> components
                [] p[1] # p[2] /\ p_high = high -> [components EXCEPT ![high] = low]
                [] OTHER -> after[<<components[p_high], components[low]>>]
    IN  after[<<p1, p2>>]

\* and a second loop lets every label point at its root: a label goes up until
\* the one above it is the same.
Compress(components, j) ==
    LET root[p \in L] == IF components[p] = p THEN p ELSE root[components[p]]
    IN  [components EXCEPT ![j] = root[@]]

HookAll(components, edges) ==
    ForEach(LAMBDA c, e : Hook(c, c[e[1]], c[e[2]]), components, edges)
CompressAll(components) == ForEach(Compress, components, [i \in 1 .. g.n |-> i - 1])
Components(edges) ==
    \/ Begin([v \in L |-> v], None, NoFrontier)
    \/ /\ pc = "loop"
       /\ val' = HookAll(val, edges)
       /\ Goto("check")
       /\ UNCHANGED <<aux, frontier, round, has_change>>
    \/ /\ pc = "check"
       /\ val' = CompressAll(val)
       /\ Return(Cardinality(Range(val')) + Missing)
       /\ UNCHANGED <<aux, frontier, round, has_change>>

test_cc2 == alg = "test_cc2" /\ Components(ArrayEdges)
test_cc_iterators == alg \in {"test_cc3", "test_cc5"} /\ Components(Edges)

\* Bellman-Ford: n - 1 rounds, fewer if one changes nothing; has_change is not
\* assigned before the first.
Shorter(dist, e) == dist[e[1]] + 1 < dist[e[2]]
Relax(dist, edges) ==
    ForEach(LAMBDA d, e : IF Shorter(d, e) THEN [d EXCEPT ![e[2]] = d[e[1]] + 1] ELSE d,
            dist, edges)

BellmanFord(edges) ==
    \/ /\ pc = "call" /\ pc' = IF g.n > 1 THEN "loop" ELSE "check"
       /\ val' = [v \in L |-> IF v = find_vertex(source) THEN 0 ELSE INF]
       /\ has_change' \in BOOLEAN
       /\ UNCHANGED <<aux, frontier, round, result>>
    \/ /\ pc = "loop"
       /\ val' = Relax(val, edges)
       /\ has_change' = (val' # val)
       /\ round' = round + 1
       /\ Goto(IF has_change' /\ round' < g.n - 1 THEN "loop" ELSE "check")
       /\ UNCHANGED <<aux, frontier>>

\* The last pass sets has_negative_cycle in one form and goes on in the others.
Reached(dist) == Total(dist, {v \in L : dist[v] # INF})

bellman_ford2 ==
    /\ alg = "bellman_ford2"
    /\ \/ BellmanFord(ArrayEdges)
       \/ /\ pc = "check"
          /\ Return(IF has_change /\ \E e \in ToSet(ArrayEdges) : Shorter(val, e)
                    THEN -1 ELSE Reached(val))
          /\ UNCHANGED <<val, aux, frontier, round, has_change>>

bellman_ford_iterators ==
    /\ alg \in {"bellman_ford3", "bellman_ford5"}
    /\ \/ BellmanFord(Edges)
       \/ /\ pc = "check"
          /\ val' = IF has_change THEN Relax(val, Edges) ELSE val
          /\ Return(Reached(val'))
          /\ UNCHANGED <<aux, frontier, round, has_change>>

\* Dijkstra: dist (val) and final (aux) have an entry for each physical id.
\* What is not final may be nearer by way of next.
RelaxFrom(dist, final, next, edges) ==
    ForEach(LAMBDA d, v : IF final[v] = 0 /\ d[next] + 1 < d[v]
                          THEN [d EXCEPT ![v] = d[next] + 1] ELSE d,
            dist, edges)
\* The next vertex is the first of the nearest ones that are not final.
dijkstra ==
    /\ alg = "dijkstra"
    /\ \/ Begin([p \in Capacity |->
                   CASE p = source -> 0
                     [] p # source /\ p \in ToSet(get_adj_edges(source)) -> 1
                     [] OTHER -> INF],
                [p \in Capacity |-> IF p = source THEN 1 ELSE 0], NoFrontier)
       \/ /\ pc = "loop"
          /\ LET open == {p \in Capacity : aux[p] = 0 /\ val[p] < INF}
                 near == {p \in open : \A q \in open : val[p] <= val[q]}
                 next == CHOOSE p \in near : \A q \in near : p <= q
             IN  IF round + 1 <= num_vertices - 2 /\ open # {}
                 THEN /\ aux' = [aux EXCEPT ![next] = 1]
                      /\ val' = RelaxFrom(val, aux', next, get_adj_edges(next))
                      /\ round' = round + 1 /\ Goto("loop")
                 ELSE /\ Return(Total(val, {p \in Capacity : val[p] # INF}))
                      /\ UNCHANGED <<val, aux, round>>
          /\ UNCHANGED <<frontier, has_change>>

-----------------------------------------------------------------------------
\* Page rank: val is prior_rank_array and aux rank_array at the head of the loop.
Damped(r) == (3 * UNIT + 17 * r) \div 20
WithoutEdges == Missing + Cardinality({v \in L : g.degree[v] = 0})
Push(rank, prior, edges) ==
    ForEach(LAMBDA r, e : [r EXCEPT ![e[2]] = @ + prior[e[1]]], rank, edges)

PageRank ==
    \/ Begin([v \in L |-> IF g.degree[v] > 0 THEN (3 * UNIT) \div 20 ELSE 0],
             [v \in L |-> 0], NoFrontier)
    \/ /\ pc = "loop"
       /\ LET rank == Push(aux, val, ArrayEdges)
              last == round = iteration_count - 1
          IN  val' = [v \in L |-> CASE last -> Damped(rank[v])
                                    [] ~last /\ g.degree[v] = 0 -> 0
                                    [] OTHER -> Damped(rank[v]) \div g.degree[v]]
       /\ aux' = [v \in L |-> 0]
       /\ round' = round + 1
       /\ IF round' < iteration_count THEN Goto("loop")
          ELSE Return(Total(val', L) + WithoutEdges * ((3 * UNIT) \div 20))
       /\ UNCHANGED <<frontier, has_change>>

page_rank2 == alg = "page_rank2" /\ PageRank
page_rank_iterators == alg \in {"page_rank3", "page_rank5"} /\ PageRank

\* The queries: one step.  query is a set of logical ids (load_file_to_vertices).
Count(r) ==
    /\ pc = "call" /\ Return(r)
    /\ UNCHANGED <<val, aux, frontier, round, has_change>>

\* Mutant: the edges to the vertices are counted with those from them.
HopsAll(lists, vs) == ForEach(LAMBDA a, v : a + Len(lists[v]), Len(vs), vs)
\* The edges the loop over the targets vs counts.
Hops(lists, vs) == ForEach(LAMBDA a, v : a + Len(lists[v]), 0, vs)

\* A set is walked through in the order of its ids, as Total does.
test_one_hop ==
    /\ alg = "test_one_hop"
    /\ Count(Total([v \in L |-> Len(g.adj[v])], query))

\* The first form hands logical ids to get_adj_edges, which takes physical ones
\* and ends the process at one that has no vertex.
test_two_hop ==
    /\ alg = "test_two_hop"
    /\ LET lists == [p \in Capacity |-> get_adj_edges(p)]
           asked == query \union UNION {ToSet(lists[p]) : p \in query}
       IN  Count(IF asked \subseteq Range(g.phys)
                 THEN Total([p \in Capacity |-> Hops(lists, lists[p])], query)
                 ELSE "exit")
test_two_hop_l ==
    /\ alg \in {"test_two_hop2", "test_two_hop3", "test_two_hop5"}
    /\ Count(Total([v \in L |-> Hops(g.adj, g.adj[v])], query))

\* The averages are printed with integer division, the first one by the number
\* of vertices with edges: the process stops where there are none.
avg_degree ==
    /\ alg = "avg_degree"
    /\ LET degrees == [p \in Capacity |->
                         IF find_vertex(p) = -1 THEN 0 ELSE g.degree[find_vertex(p)]]
           full == {p \in Capacity : degrees[p] > 0}
           bucket(p) == (degrees[p] - 1) \div GAP
       IN  Count(IF full = {} THEN "fault"
                 ELSE [num_empty |-> Cardinality(Capacity \ full),
                       average |-> Total(degrees, full) \div Cardinality(full),
                       table |-> [b \in {bucket(p) : p \in full} |->
                                    Cardinality({p \in full : bucket(p) = b})]])

-----------------------------------------------------------------------------
\* The edge-map algorithms work on all logical ids, and take their source for
\* one.
\* The depths are the lengths of the chains of parents.
depth_of[v \in Capacity] == IF val[v] \in {-1, v} THEN 0 ELSE 1 + depth_of[val[v]]

BFS_with_edge_map ==
    /\ alg = "BFS_with_edge_map"
    /\ \/ Begin([v \in Capacity |-> IF v = source THEN source ELSE -1], None,
                VertexSubset(source, num_vertices, FALSE))
       \/ /\ pc = "loop" /\ not_empty(frontier)
          /\ LET m == edgeMap("BFS_F", g, frontier, [val |-> val, aux |-> aux], THRESHOLD)
             IN  val' = m.val /\ aux' = m.aux /\ frontier' = m.out
          /\ round' = round + 1
          /\ UNCHANGED <<pc, has_change, result>>
       \/ /\ pc = "loop" /\ ~not_empty(frontier)
          /\ Return(Total(depth_of, {v \in Capacity : val[v] >= 0}))
          /\ UNCHANGED <<val, aux, frontier, round, has_change>>

\* The values of prevIDs before the first vertexMap are not read.
CC_T ==
    /\ alg = "CC_T"
    /\ \/ Begin([v \in Capacity |-> v], None, VertexSubset(0, num_vertices, TRUE))
       \/ /\ pc = "loop" /\ not_empty(frontier)
          /\ LET prev == vertexMap("CC_Vertex_F", frontier, [val |-> val, aux |-> aux])
                 m == edgeMap("CC_F", g, frontier, [val |-> val, aux |-> prev], THRESHOLD)
             IN  val' = m.val /\ aux' = m.aux /\ frontier' = m.out
          /\ round' = round + 1
          /\ UNCHANGED <<pc, has_change, result>>
       \/ /\ pc = "loop" /\ ~not_empty(frontier)
          /\ Return(Cardinality(Range(val)))
          /\ UNCHANGED <<val, aux, frontier, round, has_change>>

SSSP_BF ==
    /\ alg = "SSSP_BF"
    /\ \/ Begin([v \in Capacity |-> IF v = source THEN 0 ELSE INF], None,
                VertexSubset(source, num_vertices, FALSE))
       \/ /\ pc = "loop" /\ not_empty(frontier) /\ round # num_vertices
          /\ LET m == edgeMap("BF_F", g, frontier, [val |-> val, aux |-> aux], 1)
             IN  /\ val' = m.val /\ frontier' = m.out
                 /\ aux' = vertexMap("BF_Vertex_F", m.out, m)
          /\ round' = round + 1
          /\ UNCHANGED <<pc, has_change, result>>
       \/ /\ pc = "loop" /\ (~not_empty(frontier) \/ round = num_vertices)
          /\ val' = IF not_empty(frontier) THEN [v \in Capacity |-> -INF] ELSE val
          /\ Return(Total(val', {v \in Capacity : val'[v] # INF}))
          /\ UNCHANGED <<aux, frontier, round, has_change>>

-----------------------------------------------------------------------------
BySource == {"test_bfs", "test_bfs2", "test_bfs3", "test_bfs5", "dijkstra",
             "bellman_ford2", "bellman_ford3", "bellman_ford5"}
EdgeMaps == {"BFS_with_edge_map", "CC_T", "SSSP_BF"}
Connectivity == {"test_cc2", "test_cc3", "test_cc5", "CC_T"}
Ranking == {"page_rank2", "page_rank3", "page_rank5"}
Queries == {"test_one_hop", "test_two_hop", "test_two_hop2", "test_two_hop3", "test_two_hop5"}
Searches == (BySource \union EdgeMaps) \ Connectivity
Algorithms == BySource \union EdgeMaps \union Connectivity \union Ranking
                \union Queries \union {"avg_degree"}

Undirected == \A u, v \in L : v \in ToSet(g.adj[u]) <=> u \in ToSet(g.adj[v])

\* main names the sources by their physical ids; connectivity and the dense maps
\* are for undirected graphs (cc.h:5; map_dense_* take out-edges for in-edges).
Init ==
    /\ alg \in Algorithms /\ g \in Graphs
    /\ alg \in EdgeMaps \union Connectivity => Undirected
    /\ source \in IF alg \in Searches THEN Range(g.phys) ELSE {0}
    /\ query \in IF alg \in Queries THEN SUBSET L ELSE {{}}
    /\ pc = "call"
    /\ val = None /\ aux = None /\ frontier = NoFrontier
    /\ round = 0 /\ has_change = FALSE /\ result = 0

Run ==
    \/ test_bfs \/ test_bfs2 \/ test_bfs_iterators
    \/ test_cc2 \/ test_cc_iterators
    \/ bellman_ford2 \/ bellman_ford_iterators \/ dijkstra
    \/ page_rank2 \/ page_rank_iterators
    \/ test_one_hop \/ test_two_hop \/ test_two_hop_l \/ avg_degree
    \/ BFS_with_edge_map \/ CC_T \/ SSSP_BF

Returned == pc = "done" /\ UNCHANGED vars
Next == (Run /\ UNCHANGED call) \/ Returned
Spec == Init /\ [][Next]_vars

-----------------------------------------------------------------------------
\* Reference definitions: the vertices at most k edges from v, by k.
Reach(v) ==
    LET ball[k \in 0 .. num_vertices] ==
          IF k = 0 THEN {v}
          ELSE ball[k - 1] \union UNION {ToSet(g.adj[u]) : u \in ball[k - 1]}
    IN  ball
Distance(v) ==
    LET ball == Reach(v)
    IN  [u \in Capacity |->
           IF u \in ball[num_vertices]
           THEN CHOOSE k \in 0 .. num_vertices :
                  u \in ball[k] /\ (k > 0 => u \notin ball[k - 1])
           ELSE INF]
Component(v) == Reach(v)[num_vertices]
\* A vertex that a path leads to is fewer than INF edges away.
ShortPaths ==
    \A v, u \in L : u \in Component(v) =>
       \E k \in 0 .. num_vertices : k < INF /\ u \in Reach(v)[k]
\* What each vertex has to give to each of its targets, by iterations, and the
\* ranks by incoming edges.
Into(u) == {v \in L : u \in ToSet(g.adj[v])}
Shares ==
    LET share[k \in 0 .. iteration_count - 1] ==
          IF k = 0 THEN [v \in L |-> IF g.degree[v] > 0 THEN (3 * UNIT) \div 20 ELSE 0]
          ELSE [v \in L |-> IF g.degree[v] = 0 THEN 0
                            ELSE Damped(Total(share[k - 1], Into(v))) \div g.degree[v]]
    IN  share
Ranks == [v \in L |-> Damped(Total(Shares[iteration_count - 1], Into(v)))]

Ended(algs) == pc = "done" /\ alg \in algs
PhysicalIsLogical == \A v \in L : g.phys[v] = v

\* Every form of breadth first search and shortest paths, whatever its order of
\* edges, its in-place updates and its switches between sparse and dense, ends
\* with the distances from its source and returns their sum.  dijkstra and the
\* edge maps, which take a physical id for a logical one, do where the two agree.
\* (bfs.h:6-190, bellman_ford.h:11-240, dijkstra.h:10-86, bfs_edgemap.h:24-65,
\* bellman_ford_edgemap.h:64-96)
DistancesExact ==
    LET distance == Distance(find_vertex(source))
    IN  Ended(Searches)
            /\ (alg \in EdgeMaps \union {"dijkstra"} => PhysicalIsLogical) =>
          /\ result = Total(distance, {v \in Capacity : distance[v] # INF})
          /\ alg # "BFS_with_edge_map" =>
               \A v \in L : val[v] = IF distance[v] = INF /\ alg \in
                 {"test_bfs", "test_bfs2", "test_bfs3", "test_bfs5"} THEN -1 ELSE distance[v]

\* Two vertices end with one label if and only if a path joins them, and the
\* result counts the components, the vertices without an entry included.
\* (cc.h:11-196, cc_edgemap.h:70-98)
ComponentsExact ==
    Ended(Connectivity) =>
        /\ \A u, v \in L : val[u] = val[v] <=> v \in Component(u)
        /\ result = Cardinality({Component(v) : v \in L}) + Missing

\* Adding each vertex's share to its targets, with two arrays that change
\* places, gives the ranks that the definition by incoming edges gives.
\* (page_rank.h:5-226)
RanksExact == Ended(Ranking) => val = Ranks

\* The queries count each path of one or two edges from a queried vertex once;
\* the first form does where the ids agree.  The table of degrees leaves no
\* vertex out, and the average is asked for only if there is an edge.
\* (one_hop.h:11-31, two_hop.h:6-84, degree.h:6-60)
CountsExact ==
    LET paths1 == {p \in query \X L : p[2] \in ToSet(g.adj[p[1]])}
        paths2 == {p \in query \X L \X L :
                     p[2] \in ToSet(g.adj[p[1]]) /\ p[3] \in ToSet(g.adj[p[2]])}
    IN  /\ Ended(Queries) /\ (alg = "test_two_hop" => PhysicalIsLogical) =>
             result = Cardinality(IF alg = "test_one_hop" THEN paths1 ELSE paths2)
        /\ Ended({"avg_degree"}) =>
             IF \A v \in L : g.degree[v] = 0 THEN result = "fault"
             ELSE result.num_empty + FoldFunction(+, 0, result.table) = num_vertices

\* Between two rounds the frontier has each vertex once, so that it fits its
\* queue, and the vertices outside it have nothing new to tell: their label is
\* the one they had a round before, and Visited is reset for the next round.
\* (vertex_subset.h:199-257, cc_edgemap.h:51-67, bellman_ford_edgemap.h:40-61)
FrontierSound ==
    alg \in EdgeMaps /\ pc = "loop" =>
        LET active == ToSet(Elements(frontier))
            settled == Capacity \ active
        IN  /\ IsInjective(Elements(frontier)) /\ active \subseteq Capacity
            /\ alg = "CC_T" => \A v \in settled : aux[v] = val[v]
            /\ alg = "SSSP_BF" =>
                 \A v \in Capacity :
                   aux[v] = 0 /\ (v \in active => val[v] < INF)
            /\ alg # "BFS_with_edge_map" =>
                 \A v \in settled, w \in Capacity :
                   w \in ToSet(g.adj[v]) =>
                     val[w] <= val[v] + (IF alg = "CC_T" THEN 0 ELSE 1)

\* News travels one edge per round at least, whether a round is sparse, dense or
\* in place, so that no algorithm goes round more often than there are vertices.
\* (bfs.h:21-36, bellman_ford.h:35-62, bfs_edgemap.h:32-39, cc_edgemap.h:80-85,
\* bellman_ford_edgemap.h:78-91)
RoundsBounded == alg \notin Ranking \union {"dijkstra"} => round <= g.n
=============================================================================
