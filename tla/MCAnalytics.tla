---------------------------- MODULE MCAnalytics ----------------------------
(***************************************************************************)
(* All undirected graphs of up to four vertices, with loops up to three,   *)
(* all directed ones of three without loops, and a few of six where an     *)
(* algorithm meets what smaller ones do not show; each with ascending      *)
(* lists and equal ids, and with descending lists, physical ids in the     *)
(* opposite order and degrees that deletions have left too high.           *)
(***************************************************************************)
EXTENDS Analytics

Graph(n, E, turned) ==
    LET to(u) == Ascending({v \in 0 .. n - 1 : <<u, v>> \in E}, n)
        adj == [u \in 0 .. num_vertices - 1 |-> IF turned THEN Reverse(to(u)) ELSE to(u)]
    IN  [n |-> n, adj |-> adj,
         degree |-> [u \in 0 .. num_vertices - 1 |->
                       Len(adj[u]) + IF turned /\ u < n THEN 1 ELSE 0],
         phys |-> [u \in 0 .. n - 1 |-> IF turned THEN num_vertices - 1 - u ELSE u]]

Both(E) == E \union {<<e[2], e[1]>> : e \in E}
Pairs(n, loops) == {e \in (0 .. n - 1) \X (0 .. n - 1) : e[1] < e[2] \/ (loops /\ e[1] = e[2])}

\* Hooks that meet a label which is no root any more; a cycle where the longer
\* way round is relaxed first; a frontier of two that shrinks to the last vertex
\* and has another behind it.
Larger == {{<<0, 3>>, <<1, 4>>, <<2, 3>>, <<2, 5>>, <<4, 5>>},
           {<<0, 3>>, <<1, 4>>, <<2, 5>>, <<3, 5>>, <<4, 5>>},
           {<<0, 1>>, <<1, 2>>, <<2, 4>>, <<3, 4>>, <<0, 3>>},
           {<<0, 1>>, <<0, 2>>, <<1, 5>>, <<2, 5>>, <<4, 5>>}}

MCGraphs ==
    UNION {{Graph(n, Both(E), turned) : E \in SUBSET Pairs(n, n < 4), turned \in BOOLEAN}
             : n \in 1 .. 4}
    \union {Graph(3, E, turned) : E \in SUBSET {e \in (0 .. 2) \X (0 .. 2) : e[1] # e[2]},
                                  turned \in BOOLEAN}
    \union {Graph(6, Both(E), turned) : E \in Larger, turned \in BOOLEAN}
=============================================================================
