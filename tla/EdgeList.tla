------------------------------ MODULE EdgeList ------------------------------
(***************************************************************************)
(* The build with EDGELIST: next to the tree of a source vertex, the edges *)
(* of the levels from EL_START_LV on are kept a second time in a chain of  *)
(* growing arrays in DRAM, and the readers take the upper levels from the  *)
(* tree and the rest from the chain.  A call is one step here; EdgeTree    *)
(* takes the tree's stores apart.                                          *)
(*                                                                         *)
(* A node is named by the branches that lead to it: <<>> is the root, and  *)
(* Len(p) the level of p.  Its slots are a prefix of its array, for a      *)
(* deletion moves the last edge into the gap.                              *)
(***************************************************************************)
EXTENDS Integers, SequencesExt, FiniteSets, Bags

CONSTANTS
    Key,            \* the logical ids of the destination vertices
    MAX_ENTRY_NUM, BRANCH_BITS,
    StartLevels,    \* the values of EL_START_LV, a constant of the build
    INI_EL_SIZE, MAX_EL_SIZE,
    MaxStale        \* bound: deleted edges a chain may still hold

ASSUME EdgeListAssumption ==
    /\ Key \subseteq Nat
    /\ MAX_ENTRY_NUM \in Nat \ {0} /\ BRANCH_BITS \in Nat
    /\ StartLevels \subseteq Nat \ {0}      \* config.h:65 says ">= 1"
    /\ INI_EL_SIZE \in Nat \ {0} /\ MAX_EL_SIZE \in Nat

VARIABLES
    EL_START_LV,
    tree,       \* node -> the ids in its slots
    chain,      \* first_el, next_el, ...: the last one is cur_el
    stale       \* ghost: edges deleted from the tree and left in the chain

vars == <<EL_START_LV, tree, chain, stale>>

-----------------------------------------------------------------------------
NUM_BRANCH == 2 ^ BRANCH_BITS
Branch(x, lv) == (x \div 2 ^ (lv * BRANCH_BITS)) % NUM_BRANCH
NodeOf(x, lv) == [i \in 1 .. lv |-> Branch(x, i - 1)]

OnPath(x) == {p \in DOMAIN tree : p = NodeOf(x, Len(p))}
Children(p) == {Append(p, b) : b \in 0 .. NUM_BRANCH - 1}
is_offset_valid(p) == Children(p) \subseteq DOMAIN tree

find_edge_t(x) == \E p \in OnPath(x) : Contains(tree[p], x)

get_num_nodes == Cardinality(DOMAIN tree)

\* The queue every reader fills, after f nodes have been taken from it: a
\* node's children are put behind the last one.
ChildSeq(p) ==
    IF is_offset_valid(p) THEN [b \in 1 .. NUM_BRANCH |-> Append(p, b - 1)] ELSE <<>>
QueueAfter[f \in 0 .. get_num_nodes] ==
    IF f = 0 THEN ChildSeq(<<>>)
    ELSE LET q == QueueAfter[f - 1] IN IF f <= Len(q) THEN q \o ChildSeq(q[f]) ELSE q
Queue == QueueAfter[get_num_nodes]

\* The edges of a sequence of nodes, and those of the nodes from a level on.
EdgesIn(nodes) == FlattenSeq([i \in DOMAIN nodes |-> tree[nodes[i]]])
EdgesFrom(lv) ==
    FlattenSeq([i \in DOMAIN Queue |-> IF Len(Queue[i]) >= lv THEN tree[Queue[i]] ELSE <<>>])

\* Mutant (insert_elUnbounded): the room left is not looked at.
\* vertex::insert_el: append, double the array, or start the next one.
insert_elUnbounded(c, x) ==
    IF c = <<>> THEN <<[capacity |-> INI_EL_SIZE, edges |-> <<x>>]>>
    ELSE [c EXCEPT ![Len(c)].edges = Append(@, x)]
insert_el(c, x) ==
    LET el == Last(c)
        room == Len(el.edges) < el.capacity
    IN  IF c = <<>> \/ (~room /\ el.capacity >= MAX_EL_SIZE)
        THEN Append(c, [capacity |-> INI_EL_SIZE, edges |-> <<x>>])
        ELSE [c EXCEPT ![Len(c)] =
                [capacity |-> IF room THEN el.capacity ELSE 2 * el.capacity,
                 edges |-> Append(el.edges, x)]]

\* The chain that insert_el makes of a sequence of edges.
ChainOf(s) ==
    LET after[i \in 0 .. Len(s)] ==
          IF i = 0 THEN <<>> ELSE insert_el(after[i - 1], s[i])
    IN  after[Len(s)]

-----------------------------------------------------------------------------
Init ==
    /\ EL_START_LV \in StartLevels
    /\ tree = [p \in {<<>>} |-> <<>>]
    /\ chain = <<>>
    /\ stale = <<>>

\* vertex::branch_out: the node gets children, which are empty.
Branched(t, m) ==
    [p \in DOMAIN t \cup Children(m) |-> IF p \in DOMAIN t THEN t[p] ELSE <<>>]

\* insert_edge: the first node of the path with room; a full last node
\* branches out.
InsertEdge(x) ==
    /\ ~find_edge_t(x)
    /\ LET room == {p \in OnPath(x) : Len(tree[p]) < MAX_ENTRY_NUM}
           leaf == CHOOSE p \in OnPath(x) : ~is_offset_valid(p)
           grown == IF room # {} THEN tree ELSE Branched(tree, leaf)
           at == IF room = {} THEN NodeOf(x, Len(leaf) + 1)
                 ELSE CHOOSE p \in room : \A q \in room : Len(p) <= Len(q)
       IN  /\ tree' = [grown EXCEPT ![at] = Append(@, x)]
           /\ chain' = IF Len(at) >= EL_START_LV THEN insert_el(chain, x) ELSE chain
    /\ UNCHANGED <<EL_START_LV, stale>>

\* delete_edge knows nothing of the chain.
DeleteEdge(x) ==
    \E p \in OnPath(x) : \E k \in DOMAIN tree[p] :
      /\ tree[p][k] = x
      /\ tree' = [tree EXCEPT ![p] = Front([tree[p] EXCEPT ![k] = Last(tree[p])])]
      /\ stale' = IF Len(p) >= EL_START_LV THEN Append(stale, x) ELSE stale
      /\ Len(stale') <= MaxStale
      /\ UNCHANGED <<EL_START_LV, chain>>

\* Mutant (RestartBelow): level EL_START_LV itself is left out.
\* The process ends, in order or by a crash between two calls, and the next
\* one fills the chain from the tree: re_map and init_edgelist.
RestartBelow ==
    /\ chain' = ChainOf(EdgesFrom(EL_START_LV + 1))
    /\ stale' = <<>>
    /\ UNCHANGED <<EL_START_LV, tree>>
Restart ==
    /\ chain' = ChainOf(EdgesFrom(EL_START_LV))
    /\ stale' = <<>>
    /\ UNCHANGED <<EL_START_LV, tree>>

Next == Restart \/ \E x \in Key : InsertEdge(x) \/ DeleteEdge(x)

Spec == Init /\ [][Next]_vars

-----------------------------------------------------------------------------
\* Readers.

ChainEdges == FlattenSeq([i \in DOMAIN chain |-> chain[i].edges])

\* How many of n positions come before the first one in I.
Before(I, n) == IF I = {} THEN n ELSE Min(I) - 1

\* get_adj_edges_l into an array, with EDGELIST: a vertex with one node has
\* its edges there, the others have the root's, those of the queue up to the
\* first node of level EL_START_LV, and the chain's.
get_adj_edges_array ==
    LET deep == {i \in DOMAIN Queue : Len(Queue[i]) >= EL_START_LV}
    IN  IF get_num_nodes <= 1 THEN tree[<<>>]
        ELSE tree[<<>>] \o EdgesIn(SubSeq(Queue, 1, Before(deep, Len(Queue)))) \o ChainEdges

\* get_adj_edges_l without EDGELIST, both forms.
get_adj_edges_plain ==
    IF get_num_nodes <= 1 THEN tree[<<>>] ELSE tree[<<>>] \o EdgesIn(Queue)

\* The iterators: the edges of the root, then the nodes of the queue, then the
\* arrays of the chain.
\* sbtree_iterator: all nodes of the tree.
sbtree_iterator == [edges |-> tree[<<>>], nodes |-> Queue, els |-> <<>>]

\* iterator2: the queue is as it was when the first node with children was
\* taken whose level is the one above EL_START_LV; without one there is no
\* chain to read.
iterator2 ==
    LET above == {i \in DOMAIN Queue :
                    Len(Queue[i]) >= EL_START_LV - 1 /\ is_offset_valid(Queue[i])}
        els == [i \in DOMAIN chain |-> chain[i].edges]
    IN  IF get_num_nodes <= 1 THEN [edges |-> tree[<<>>], nodes |-> <<>>, els |-> <<>>]
        ELSE IF EL_START_LV <= 1 THEN [edges |-> tree[<<>>], nodes |-> <<>>, els |-> els]
        ELSE [edges |-> tree[<<>>],
              nodes |-> QueueAfter[Before(above, get_num_nodes)],
              els |-> IF above = {} THEN <<>> ELSE els]

\* One loop "for (; !it.done(); ++it)": empty nodes are skipped, and the first
\* array of the chain without an edge would end it.
Seen(it) ==
    LET empty == {i \in DOMAIN it.els : it.els[i] = <<>>}
    IN  it.edges \o EdgesIn(it.nodes)
        \o FlattenSeq(SubSeq(it.els, 1, Before(empty, Len(it.els))))

\* get_num_elbytes, in edges: the capacities of all arrays.
get_num_elbytes ==
    LET upTo[i \in 0 .. Len(chain)] == IF i = 0 THEN 0 ELSE upTo[i - 1] + chain[i].capacity
    IN  upTo[Len(chain)]

-----------------------------------------------------------------------------
\* The edges that a search finds, each once.
TreeEdges == SetToBag({x \in Key : find_edge_t(x)})

\* Where the tree ends and the chain begins no edge is lost and none is read
\* twice: the readers of the EDGELIST build return what is in the tree and,
\* until the next start, what was deleted from its deep levels; the readers
\* that know no chain return what is in the tree, empty nodes in between or
\* not.  (edge.cc:97, 487-664; ntgraph.h:47-292, 386-445)
ReadersExact ==
    /\ ToBag(get_adj_edges_array) = TreeEdges (+) ToBag(stale)
    /\ ToBag(Seen(iterator2)) = TreeEdges (+) ToBag(stale)
    /\ ToBag(get_adj_edges_plain) = TreeEdges
    /\ ToBag(Seen(sbtree_iterator)) = TreeEdges

\* No array of the chain is written past its end, and only the last one has
\* room left, so that no reader stops early at an empty one; the memory the
\* destructor gives back holds all edges.  (vertex_index.h:75-165, 319-332)
ChainPacked ==
    /\ \A i \in DOMAIN chain :
         /\ 0 < Len(chain[i].edges) /\ Len(chain[i].edges) <= chain[i].capacity
         /\ i < Len(chain) => Len(chain[i].edges) = chain[i].capacity
                              /\ chain[i].capacity >= MAX_EL_SIZE
    /\ Len(ChainEdges) <= get_num_elbytes
=============================================================================
