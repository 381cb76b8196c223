------------------------------ MODULE EdgeMap ------------------------------
(***************************************************************************)
(* Vertex subsets and edge maps (src/apps/vertex_subset.h, map.h and the   *)
(* three map functions of ntgraph.h).  parallel_for is a plain for and     *)
(* there is one worker: a map is a fold in the order of the loop.          *)
(*                                                                         *)
(* A functor F is the name of its struct, with the methods Cond and Update *)
(* over the arrays it holds, [val, aux]; Update returns the arrays and     *)
(* what the method returns (ret).  An accumulator of a map also has the    *)
(* output subset (out).                                                    *)
(***************************************************************************)
EXTENDS Integers, Sequences, FiniteSets, SequencesExt

\* A loop over the sequence q: a after step(a, x) for each x.  This is FoldLeft
\* as a recursive function over the positions.
ForEach(step(_, _), a, q) ==
    LET after[i \in 0 .. Len(q)] == IF i = 0 THEN a ELSE step(after[i - 1], q[i])
    IN  after[Len(q)]

\* The ids below n, and those of them whose bit is set, as a loop meets them.
Ids(n) == [i \in 1 .. n |-> i - 1]
Ascending(S, n) ==
    LET upTo[i \in 0 .. n] ==
          IF i = 0 THEN <<>>
          ELSE IF i - 1 \in S THEN Append(upTo[i - 1], i - 1) ELSE upTo[i - 1]
    IN  upTo[n]

-----------------------------------------------------------------------------
\* The constructor with a first element; all vertices have no representation.
VertexSubset(e, max_el, all) ==
    [all |-> all, is_sparse |-> ~all, max_el |-> max_el,
     queue |-> IF all THEN <<>> ELSE <<e>>, ba |-> {}]

\* VertexSubset(other, false): an empty one of the same kind; all becomes dense.
Similar(vs) == [vs EXCEPT !.all = FALSE, !.queue = <<>>, !.ba = {}]

get_n(vs) ==
    CASE vs.all -> vs.max_el
      [] ~vs.all /\ vs.is_sparse -> Len(vs.queue)
      [] OTHER -> Cardinality(vs.ba)

not_empty(vs) == vs.all \/ IF vs.is_sparse THEN vs.queue # <<>> ELSE vs.ba # {}

insert(vs, i) ==
    IF vs.is_sparse THEN [vs EXCEPT !.queue = Append(@, i)]
    ELSE [vs EXCEPT !.ba = @ \union {i}]

\* map: the elements in the order in which they are visited.
Elements(vs) ==
    CASE vs.all -> Ids(vs.max_el)
      [] ~vs.all /\ vs.is_sparse -> vs.queue
      [] OTHER -> Ascending(vs.ba, vs.max_el)
convert_to_dense(vs) ==
    IF vs.all \/ ~vs.is_sparse THEN vs
    ELSE [vs EXCEPT !.is_sparse = FALSE, !.ba = ToSet(vs.queue)]

\* Mutant: the loop over the bits ends one too early.
convert_to_sparse_short(vs) ==
    IF vs.all \/ vs.is_sparse THEN vs
    ELSE [vs EXCEPT !.is_sparse = TRUE, !.queue = Ascending(vs.ba, vs.max_el - 1)]
convert_to_sparse(vs) ==
    IF vs.all \/ vs.is_sparse THEN vs
    ELSE [vs EXCEPT !.is_sparse = TRUE, !.queue = Ascending(vs.ba, vs.max_el)]

-----------------------------------------------------------------------------
\* The functors.  With one worker updateAtomic, by CAS or writeMin, does what
\* update does.

\* bfs_edgemap.h: val is Parents.
BFS_update(a, s, d) ==
    IF a.val[d] = -1 THEN [val |-> [a.val EXCEPT ![d] = s], aux |-> a.aux, ret |-> TRUE]
    ELSE [val |-> a.val, aux |-> a.aux, ret |-> FALSE]

\* cc_edgemap.h: val is IDs, aux is prevIDs.
\* Mutant: an equal label is news.
CC_update_equal(a, s, d) ==
    [val |-> IF a.val[s] <= a.val[d] THEN [a.val EXCEPT ![d] = a.val[s]] ELSE a.val,
     aux |-> a.aux, ret |-> a.val[s] <= a.val[d] /\ a.val[d] = a.aux[d]]
CC_update(a, s, d) ==
    IF a.val[s] < a.val[d]
    THEN [val |-> [a.val EXCEPT ![d] = a.val[s]], aux |-> a.aux,
          ret |-> a.val[d] = a.aux[d]]
    ELSE [val |-> a.val, aux |-> a.aux, ret |-> FALSE]
CC_Vertex(IDs, prevIDs, i) == [prevIDs EXCEPT ![i] = IDs[i]]

\* bellman_ford_edgemap.h: val is ShortestPathLen, aux is Visited.
BF_update(a, s, d) ==
    IF a.val[d] > a.val[s] + 1
    THEN [val |-> [a.val EXCEPT ![d] = a.val[s] + 1],
          aux |-> [a.aux EXCEPT ![d] = 1], ret |-> a.aux[d] = 0]
    ELSE [val |-> a.val, aux |-> a.aux, ret |-> FALSE]
\* Mutant: the vertices are not reset.
BF_VertexKeeps(Visited, i) == Visited
BF_Vertex(Visited, i) == [Visited EXCEPT ![i] = 0]

\* The methods of functor F.
Cond(F, a, d) == F = "BFS_F" => a.val[d] = -1
Update(F, a, s, d) ==
    CASE F = "BFS_F" -> BFS_update(a, s, d)
      [] F = "CC_F" -> CC_update(a, s, d)
      [] F = "BF_F" -> BF_update(a, s, d)

-----------------------------------------------------------------------------
\* After one call of update for v: the arrays, and v in the output if it
\* returned 1.
Updated(a, r, v) ==
    [val |-> r.val, aux |-> r.aux,
     out |-> IF r.ret THEN insert(a.out, v) ELSE a.out]

\* The edge from s to d: update where cond allows it.
Follow(F, a, s, d) ==
    IF Cond(F, a, d) THEN Updated(a, Update(F, a, s, d), d) ELSE a
\* ntgraph::map_sparse: along the out-edges of self.
map_sparse(F, g, a, self) ==
    ForEach(LAMBDA b, v : Follow(F, b, self, v), a, g.adj[self])

\* ntgraph::map_dense_vs_all and map_dense_vs_not_all: the same edges, taken
\* for edges into self; they return as soon as self needs no more.
map_dense_vs_all(F, g, a, self) ==
    ForEach(LAMBDA b, v : Follow(F, b, v, self), a, g.adj[self])

map_dense_vs_not_all(F, g, vs, a, self) ==
    ForEach(LAMBDA b, v : IF v \in vs.ba THEN Follow(F, b, v, self) ELSE b,
            a, g.adj[self])

EdgeMapSparse(F, g, vs, arrays) ==
    LET from == convert_to_sparse(vs)
        a == [val |-> arrays.val, aux |-> arrays.aux, out |-> Similar(from)]
    IN  ForEach(LAMBDA b, u : map_sparse(F, g, b, u), a, Elements(from))

EdgeMapDense(F, g, vs, arrays) ==
    LET from == convert_to_dense(vs)
        a == [val |-> arrays.val, aux |-> arrays.aux, out |-> Similar(from)]
        row(b, i) ==
            CASE ~Cond(F, b, i) -> b
              [] Cond(F, b, i) /\ from.all -> map_dense_vs_all(F, g, b, i)
              [] OTHER -> map_dense_vs_not_all(F, g, from, b, i)
    IN  ForEach(row, a, Ids(vs.max_el))

edgeMap(F, g, vs, arrays, threshold) ==
    IF vs.max_el \div threshold <= get_n(vs)
    THEN EdgeMapDense(F, g, vs, arrays)
    ELSE EdgeMapSparse(F, g, vs, arrays)

\* vertexMap without output: the second array after the loop over the elements.
vertexMap(F, vs, arrays) ==
    LET body(b, i) == IF F = "CC_Vertex_F" THEN CC_Vertex(arrays.val, b, i)
                      ELSE BF_Vertex(b, i)
    IN  ForEach(body, arrays.aux, Elements(vs))
=============================================================================
