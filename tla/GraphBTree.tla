----------------------------- MODULE GraphBTree -----------------------------
(***************************************************************************)
(* The graph of the baseline build (src/inc/ntgraph_btree.h): a vertex     *)
(* index and one B-tree of logical ids per vertex, used by one thread.     *)
(*                                                                         *)
(* A graph is a record: high and mapper (p_t_l_mapper) live in the         *)
(* process, id and roots (the vertex array) and count (the meta data) in   *)
(* the pool file.  mapper holds -1 for a vertex that is not there.         *)
(***************************************************************************)
EXTENDS BTreeNode, FiniteSets

CONSTANT num_vertices   \* physical and logical ids are below it

ASSUME NumVerticesAssumption == num_vertices \in Nat \ {0}

Vertex == 0 .. num_vertices - 1

\* The constructor on a new pool.
NewGraph == [high |-> 0, mapper |-> [v \in Vertex |-> -1],
             id |-> <<>>, roots |-> <<>>, count |-> 0]

\* The entry of a vertex that find_vertex does not find is the next one of the
\* array.  The count that is stored is the index of the new entry.  There is
\* an entry for every physical id, so that "the compaction is needed" is never
\* reached.
insert_vertex(g, v) ==
    IF g.mapper[v] # -1 THEN g
    ELSE [high |-> g.high + 1, mapper |-> [g.mapper EXCEPT ![v] = g.high],
          id |-> Append(g.id, v), roots |-> Append(g.roots, NoTree),
          count |-> g.high]

find_edge_g(g, s, d) ==
    /\ g.mapper[s] # -1
    /\ g.mapper[d] # -1
    /\ find(g.roots[g.mapper[s] + 1], g.mapper[d])

\* The destination gets its entry before the source; the tree is searched
\* before the key is inserted.
insert_edge(g, s, d) ==
    LET h == insert_vertex(insert_vertex(g, d), s)
        at == h.mapper[s] + 1
        k == h.mapper[d]
    IN  IF find(h.roots[at], k) THEN h
        ELSE [h EXCEPT !.roots[at] = insert(@, k).node]

\* traverse looks its vertex up with insert_vertex, as sum, get_num_nodes and
\* get_root do: a reader gives a vertex that was not there an entry.
neighbours(g, v) ==
    LET h == insert_vertex(g, v)
    IN  {h.id[k + 1] : k \in ToSet(traverse(h.roots[h.mapper[v] + 1]))}

\* The destructor stores the count, and the constructor of the next process
\* takes it and maps the ids it finds in the array (re_map).
\* Mutant: the index of the last entry is stored.
destructorLast(g) == [g EXCEPT !.count = IF g.high = 0 THEN 0 ELSE g.high - 1]
destructor(g) == [g EXCEPT !.count = g.high]
constructor(g) ==
    LET high == IF g.count > num_vertices THEN num_vertices ELSE g.count
    IN  [g EXCEPT !.high = high,
                  !.mapper = [v \in Vertex |->
                      SelectLastInSubSeq(g.id, 1, high, LAMBDA x : x = v) - 1]]

-----------------------------------------------------------------------------
\* The index is one to one, every key of a tree is the logical id of a vertex
\* that has an entry, and the trees are B-trees.
SoundGraph(g) ==
    /\ g.high = Len(g.id)
    /\ \A v \in Vertex : g.mapper[v] # -1 => g.id[g.mapper[v] + 1] = v
    /\ \A i \in DOMAIN g.id : g.mapper[g.id[i]] = i - 1
    /\ \A i \in DOMAIN g.roots :
         BTreeShape(g.roots[i]) /\ \A k \in ToSet(traverse(g.roots[i])) : k < g.high
=============================================================================
