------------------------- MODULE BaselineIngestion -------------------------
(***************************************************************************)
(* Ingestion with the graph of the build "btree" beside the set of edges:  *)
(* its calls of insert_edge, its readers, and its destructor and           *)
(* constructor (src/inc/ntgraph_btree.h).  The other builds leave graph    *)
(* alone.                                                                  *)
(***************************************************************************)
EXTENDS Ingestion, GraphBTree

ASSUME LinesAssumption == Lines \subseteq (1 .. num_vertices) \X (1 .. num_vertices)

VARIABLE graph

bvars == <<vars, graph>>

BInit == Init /\ graph = NewGraph

InsertOne(t) ==
    /\ InsertEdge(t)
    /\ LET e == batch[Head(todo[t])]
       IN  graph' = IF build = "btree" THEN insert_edge(graph, e[1], e[2]) ELSE graph

Load == \/ \E t \in Thread : InsertOne(t)
        \/ /\ ReadLine \/ EndOfFile \/ Join \/ EndBatch \/ StartDeletion
              \/ \E t \in Thread : FallThrough(t) \/ Spin(t) \/ DeleteEdge(t)
           /\ UNCHANGED graph

\* A reader of the baseline (sum, get_num_nodes, traverse) when the file is in.
ReadVertex(v) ==
    /\ pc = "done" /\ build = "btree"
    /\ graph' = insert_vertex(graph, v)
    /\ UNCHANGED vars

Reopen ==
    /\ pc = "done" /\ build = "btree"
    /\ graph' = constructor(destructor(graph))
    /\ UNCHANGED vars

BNext == Load \/ Reopen \/ \E v \in Vertex : ReadVertex(v)

\* The program runs to the end of main.
BSpec == BInit /\ [][BNext]_bvars /\ WF_bvars(Load)

-----------------------------------------------------------------------------
\* The baseline's graph has the edges its calls have inserted and no other, its
\* index stays one to one with the array and its trees stay B-trees of known
\* vertices, also when a reader inserts a vertex and after the pool was closed
\* and opened again.  (ntgraph_btree.h:147, 257, 335, 401)
BaselineSound ==
    /\ SoundGraph(graph)
    /\ build = "btree" =>
         stored = {e \in Vertex \X Vertex : find_edge_g(graph, e[1], e[2])}
    /\ \A v \in Vertex : neighbours(graph, v) = {d \in Vertex : find_edge_g(graph, v, d)}
=============================================================================
