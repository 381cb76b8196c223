---------------------------- MODULE VertexIndex ----------------------------
(***************************************************************************)
(* vertex_index (inc/vertex_index.h) as the ingestion threads use it when  *)
(* NO_CONCURRENT is not defined.  insert_edge_parallel maps the source and *)
(* then the destination of its edge from the physical id of the input to a *)
(* logical id, the index of its entry in the vertex array:                 *)
(* insert_vertex_parallel looks the id up, takes the spin lock of the id,  *)
(* looks again, takes an entry, publishes it in p_t_l_mapper, and fills    *)
(* the entry in after it has released the lock.                            *)
(*                                                                         *)
(* The insertion into the tree of the source is ParallelInsert; here it is *)
(* what the vertex entry sees of it: a node of MAX_ENTRY_NUM edges is      *)
(* filled, the next edge makes it branch out, the nodes and the edge are   *)
(* counted in the entry of the source.                                     *)
(***************************************************************************)
EXTENDS Integers, FiniteSets

CONSTANTS
    Threads,        \* the ingestion threads
    Inputs,         \* the batches there may be, sets of pairs of physical ids
    num_vertices,   \* entries of the vertex array, places of the index
    MAX_ENTRY_NUM,  \* edges of the root node
    NUM_BRANCH      \* nodes a branch_out adds

\* The physical ids that p_t_l_mapper and flags have a place for.  Neither is
\* checked: another id is undefined behaviour before anything else happens.
Physical == 0 .. num_vertices - 1

ASSUME ConstantsAssumption ==
    /\ Inputs \subseteq SUBSET (Physical \X Physical)
    /\ num_vertices \in Nat
    /\ MAX_ENTRY_NUM \in Nat \ {0}
    /\ NUM_BRANCH \in Nat \ {0}

VARIABLES
    p_t_l_mapper,       \* physical id -> logical id, -1 if none
    flags,              \* per physical id: the spin lock
    high,               \* vertex_index::high, entries taken
    count,              \* manage_meta_data::count
    id, num_nodes, degree,      \* per entry of the vertex array
    stored, nodes,      \* per entry: edges and nodes its tree really has
    exited,             \* exit(1) was called
    pc, edge,           \* per thread: next step, the edge it inserts
    vertex_id, entry,   \* per thread: argument and local high / k / i
    src_index,          \* per thread: the logical id of the source
    batch,              \* the edges to insert
    todo                \* those no thread has taken yet

arrayVars == <<id, num_nodes, degree>>
treeVars == <<stored, nodes>>
vars == <<p_t_l_mapper, flags, high, count, id, num_nodes, degree, stored,
          nodes, exited, pc, edge, vertex_id, entry, src_index, batch, todo>>

-----------------------------------------------------------------------------
Entry == 0 .. num_vertices - 1

find_vertex(v) == p_t_l_mapper[v]

Goto(t, from, to) == pc[t] = from /\ pc' = [pc EXCEPT ![t] = to]

Init ==
    /\ p_t_l_mapper = [v \in Physical |-> -1]
    /\ flags = [v \in Physical |-> FALSE]
    /\ high = 0
    /\ count = 0
    /\ id = [i \in Entry |-> 0]
    /\ num_nodes = [i \in Entry |-> 0]
    /\ degree = [i \in Entry |-> 0]
    /\ stored = [i \in Entry |-> 0]
    /\ nodes = [i \in Entry |-> 1]
    /\ exited = FALSE
    /\ pc = [t \in Threads |-> "idle"]
    /\ edge = [t \in Threads |-> <<>>]
    /\ vertex_id = [t \in Threads |-> 0]
    /\ entry = [t \in Threads |-> -1]
    /\ src_index = [t \in Threads |-> -1]
    /\ batch \in Inputs
    /\ todo = batch

-----------------------------------------------------------------------------
(* insert_vertex_parallel(vertex_id)                                       *)

\* A thread takes its next edge and asks for the source vertex first.
TakeEdge(t) ==
    /\ Goto(t, "idle", "find")
    /\ \E e \in todo :
          /\ todo' = todo \ {e}
          /\ edge' = [edge EXCEPT ![t] = e]
          /\ vertex_id' = [vertex_id EXCEPT ![t] = e[1]]
    /\ src_index' = [src_index EXCEPT ![t] = -1]
    /\ entry' = [entry EXCEPT ![t] = -1]
    /\ UNCHANGED <<p_t_l_mapper, flags, high, count, arrayVars, treeVars, exited>>

\* index_t k = find_vertex(vertex_id), without the lock
Find(t) ==
    /\ pc[t] = "find"
    /\ entry' = [entry EXCEPT ![t] = find_vertex(vertex_id[t])]
    /\ IF entry'[t] = -1 THEN Goto(t, "find", "lock")
                         ELSE Goto(t, "find", "return")
    /\ UNCHANGED <<p_t_l_mapper, flags, high, count, arrayVars, treeVars, exited,
                   edge, vertex_id, src_index, todo>>

\* while (flags[vertex_id].test_and_set())
Lock(t) ==
    /\ Goto(t, "lock", "findAgain")
    /\ ~flags[vertex_id[t]]
    /\ flags' = [flags EXCEPT ![vertex_id[t]] = TRUE]
    /\ UNCHANGED <<p_t_l_mapper, high, count, arrayVars, treeVars, exited, edge,
                   vertex_id, entry, src_index, todo>>

\* Mutant: the second look is left out.
FindAgainNever(t) ==
    /\ Goto(t, "findAgain", "alloc")
    /\ UNCHANGED <<p_t_l_mapper, flags, high, count, arrayVars, treeVars, exited,
                   edge, vertex_id, entry, src_index, todo>>

\* index_t i = find_vertex(vertex_id), with the lock
FindAgain(t) ==
    /\ pc[t] = "findAgain"
    /\ entry' = [entry EXCEPT ![t] = find_vertex(vertex_id[t])]
    /\ IF entry'[t] = -1 THEN Goto(t, "findAgain", "alloc")
                         ELSE Goto(t, "findAgain", "unlockOld")
    /\ UNCHANGED <<p_t_l_mapper, flags, high, count, arrayVars, treeVars, exited,
                   edge, vertex_id, src_index, todo>>

\* Mutant: high is incremented first and read then.
AllocEntryIncremented(t) ==
    /\ high' = high + 1
    /\ entry' = [entry EXCEPT ![t] = high']
    /\ Goto(t, "alloc", "publish")
    /\ IF high' >= num_vertices
       THEN /\ exited' = TRUE
            /\ flags' = [flags EXCEPT ![vertex_id[t]] = FALSE]
       ELSE UNCHANGED <<exited, flags>>
    /\ UNCHANGED <<p_t_l_mapper, count, arrayVars, treeVars, edge, vertex_id,
                   src_index, todo>>

\* alloc_entry: high.fetch_add(1); no entry left: unlock and exit(1)
AllocEntry(t) ==
    /\ high' = high + 1
    /\ entry' = [entry EXCEPT ![t] = high]
    /\ Goto(t, "alloc", "publish")
    /\ IF high >= num_vertices
       THEN /\ exited' = TRUE
            /\ flags' = [flags EXCEPT ![vertex_id[t]] = FALSE]
       ELSE UNCHANGED <<exited, flags>>
    /\ UNCHANGED <<p_t_l_mapper, count, arrayVars, treeVars, edge, vertex_id,
                   src_index, todo>>

\* p_t_l_mapper[vertex_id] = high
Publish(t) ==
    /\ Goto(t, "publish", "unlockNew")
    /\ p_t_l_mapper' = [p_t_l_mapper EXCEPT ![vertex_id[t]] = entry[t]]
    /\ UNCHANGED <<flags, high, count, arrayVars, treeVars, exited, edge,
                   vertex_id, entry, src_index, todo>>

\* Mutant: the thread that lost the race keeps the lock.
UnlockWinnerOnly(t) ==
    /\ \/ /\ Goto(t, "unlockNew", "setId")
          /\ flags' = [flags EXCEPT ![vertex_id[t]] = FALSE]
       \/ /\ Goto(t, "unlockOld", "return")
          /\ UNCHANGED flags
    /\ UNCHANGED <<p_t_l_mapper, high, count, arrayVars, treeVars, exited, edge,
                   vertex_id, entry, src_index, todo>>

\* flags[vertex_id].clear(), on both ways out
Unlock(t) ==
    /\ \/ Goto(t, "unlockNew", "setId")
       \/ Goto(t, "unlockOld", "return")
    /\ flags' = [flags EXCEPT ![vertex_id[t]] = FALSE]
    /\ UNCHANGED <<p_t_l_mapper, high, count, arrayVars, treeVars, exited, edge,
                   vertex_id, entry, src_index, todo>>

\* vertices[high].set_id(vertex_id)
SetId(t) ==
    /\ Goto(t, "setId", "setNumNodes")
    /\ id' = [id EXCEPT ![entry[t]] = vertex_id[t]]
    /\ UNCHANGED <<p_t_l_mapper, flags, high, count, num_nodes, degree, treeVars,
                   exited, edge, vertex_id, entry, src_index, todo>>

\* vertices[high].num_nodes = 1
SetNumNodes(t) ==
    /\ Goto(t, "setNumNodes", "setCount")
    /\ num_nodes' = [num_nodes EXCEPT ![entry[t]] = 1]
    /\ UNCHANGED <<p_t_l_mapper, flags, high, count, id, degree, treeVars, exited,
                   edge, vertex_id, entry, src_index, todo>>

\* meta_data->set_count(high), the index and not the number of vertices
SetCount(t) ==
    /\ Goto(t, "setCount", "return")
    /\ count' = entry[t]
    /\ UNCHANGED <<p_t_l_mapper, flags, high, arrayVars, treeVars, exited, edge,
                   vertex_id, entry, src_index, todo>>

\* The source's index is kept and the destination is asked for; with both,
\* the edge is inserted into the source's tree.
Return(t) ==
    /\ IF src_index[t] = -1
       THEN /\ Goto(t, "return", "find")
            /\ src_index' = [src_index EXCEPT ![t] = entry[t]]
            /\ vertex_id' = [vertex_id EXCEPT ![t] = edge[t][2]]
       ELSE /\ Goto(t, "return", "insert")
            /\ UNCHANGED <<src_index, vertex_id>>
    /\ UNCHANGED <<p_t_l_mapper, flags, high, count, arrayVars, treeVars, exited,
                   edge, entry, todo>>

-----------------------------------------------------------------------------
(* What insert_edge_parallel then does to the entry of the source.         *)

\* The edge goes into the tree; the one that finds the root full and without
\* children makes them.
InsertEdge(t) ==
    LET i == src_index[t] IN
    /\ pc[t] = "insert"
    /\ stored' = [stored EXCEPT ![i] = @ + 1]
    /\ IF stored[i] >= MAX_ENTRY_NUM /\ nodes[i] = 1
       THEN /\ Goto(t, "insert", "addNumNodes")
            /\ nodes' = [nodes EXCEPT ![i] = @ + NUM_BRANCH]
       ELSE /\ Goto(t, "insert", "addDegree")
            /\ UNCHANGED nodes
    /\ UNCHANGED <<p_t_l_mapper, flags, high, count, arrayVars, exited, edge,
                   vertex_id, entry, src_index, todo>>

\* num_nodes.fetch_add(get_num_branch())
AddNumNodes(t) ==
    /\ Goto(t, "addNumNodes", "addDegree")
    /\ num_nodes' = [num_nodes EXCEPT ![src_index[t]] = @ + NUM_BRANCH]
    /\ UNCHANGED <<p_t_l_mapper, flags, high, count, id, degree, treeVars, exited,
                   edge, vertex_id, entry, src_index, todo>>

\* Mutant: the degree of the destination is counted.
AddDegreeOfDst(t) ==
    /\ Goto(t, "addDegree", "idle")
    /\ degree' = [degree EXCEPT ![entry[t]] = @ + 1]
    /\ UNCHANGED <<p_t_l_mapper, flags, high, count, id, num_nodes, treeVars,
                   exited, edge, vertex_id, entry, src_index, todo>>

\* degree.fetch_add(1)
AddDegree(t) ==
    /\ Goto(t, "addDegree", "idle")
    /\ degree' = [degree EXCEPT ![src_index[t]] = @ + 1]
    /\ UNCHANGED <<p_t_l_mapper, flags, high, count, id, num_nodes, treeVars,
                   exited, edge, vertex_id, entry, src_index, todo>>

-----------------------------------------------------------------------------
AllDone == todo = {} /\ \A t \in Threads : pc[t] = "idle"
Terminated == AllDone /\ UNCHANGED vars

ThreadStep(t) ==
    /\ ~exited
    /\ UNCHANGED batch
    /\ \/ TakeEdge(t) \/ Find(t) \/ Lock(t) \/ FindAgain(t) \/ AllocEntry(t)
       \/ Publish(t) \/ Unlock(t) \/ SetId(t) \/ SetNumNodes(t) \/ SetCount(t)
       \/ Return(t) \/ InsertEdge(t) \/ AddNumNodes(t) \/ AddDegree(t)

Next == (\E t \in Threads : ThreadStep(t)) \/ Terminated

Spec == Init /\ [][Next]_vars
FairSpec == Spec /\ \A t \in Threads : WF_vars(ThreadStep(t))

-----------------------------------------------------------------------------
(* Properties. *)

PC == {"idle", "find", "lock", "findAgain", "alloc", "publish", "unlockNew",
       "unlockOld", "setId", "setNumNodes", "setCount", "return", "insert",
       "addNumNodes", "addDegree"}

\* The types of the index, of the array and of the threads' variables.  No
\* thread is given an entry past the end of the array, and none finds the array
\* full and calls exit(1): there are as many entries as ids, and threads that
\* race for one id do not take two.
TypeOK ==
    /\ p_t_l_mapper \in [Physical -> Entry \cup {-1}]
    /\ flags \in [Physical -> BOOLEAN]
    /\ high \in 0 .. num_vertices
    /\ count \in Entry \cup {0}
    /\ id \in [Entry -> Nat]
    /\ num_nodes \in [Entry -> Nat] /\ degree \in [Entry -> Nat]
    /\ stored \in [Entry -> Nat] /\ nodes \in [Entry -> Nat]
    /\ exited = FALSE
    /\ pc \in [Threads -> PC]
    /\ edge \in [Threads -> batch \cup {<<>>}]
    /\ vertex_id \in [Threads -> Nat]
    /\ entry \in [Threads -> Entry \cup {-1}]
    /\ src_index \in [Threads -> Entry \cup {-1}]
    /\ batch \in Inputs /\ todo \subseteq batch

Mapped == {v \in Physical : find_vertex(v) # -1}

\* A physical id gets one entry and an entry one physical id, whatever
\* threads ask for it at the same time: the entries taken are the ones
\* mapped and the ones about to be published by the thread with the lock.
OneEntryPerVertex ==
    LET publishing == {t \in Threads : pc[t] = "publish"} IN
    /\ \A v, w \in Mapped : v # w => find_vertex(v) # find_vertex(w)
    /\ \A t \in publishing : /\ find_vertex(vertex_id[t]) = -1
                             /\ \A v \in Mapped : find_vertex(v) # entry[t]
    /\ \A t, u \in publishing :
          t # u => entry[t] # entry[u] /\ vertex_id[t] # vertex_id[u]
    /\ Cardinality(Mapped) + Cardinality(publishing) = high

\* A logical id is for good: trees and adjacency lists store it.
MappingStays ==
    [][\A v \in Mapped : p_t_l_mapper'[v] = p_t_l_mapper[v]]_vars

\* An edge is inserted from the entry of its source and with the logical id
\* of its destination, although a third thread may have made either.
EndpointsRight ==
    \A t \in Threads : pc[t] \in {"insert", "addNumNodes", "addDegree"} =>
       /\ src_index[t] = find_vertex(edge[t][1])
       /\ entry[t] = find_vertex(edge[t][2])

\* check_one_ingestion (apps/ingestion.h:21-29): after the batch the vertices
\* of every edge are mapped and their entries carry their ids; and the degree
\* of every vertex counts its edges.
BatchChecked ==
    AllDone =>
    /\ \A e \in batch : e[1] \in Mapped /\ e[2] \in Mapped
    /\ \A v \in Mapped : id[find_vertex(v)] = v
    /\ \A i \in Entry : degree[i] = stored[i]
    /\ \A v \in Physical :
          v \in Mapped =>
             stored[find_vertex(v)] = Cardinality({e \in batch : e[1] = v})

\* After the batch num_nodes is the number of nodes of the tree: the queue of
\* a traversal has num_nodes - 1 places and a tree that does not fit is an
\* error (inc/ntgraph.h:424).
NumNodesExact ==
    AllDone => \A v \in Mapped : num_nodes[find_vertex(v)] = nodes[find_vertex(v)]

\* The spin locks are released and the batch ends.
BatchEnds == <>AllDone
=============================================================================
