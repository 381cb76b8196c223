------------------------------ MODULE EdgeTree ------------------------------
(***************************************************************************)
(* ntgraph::insert_edge, delete_edge and the readers of the build with     *)
(* NO_CONCURRENT (src/edge.cc), on the tree of one source vertex.          *)
(*                                                                         *)
(* Nodes, the pool's cursor and the vertex entry live in a file mapped     *)
(* MAP_SHARED.  One action is one store into that file, so that Crash may  *)
(* come between any two: the stores made stay, the locals of the call are  *)
(* gone, and the next process opens the file and goes on.  The searches    *)
(* store nothing and are part of the action that uses them.                *)
(*                                                                         *)
(* Nodes are numbered in the order in which the pool hands them out; 0 is  *)
(* the root.                                                               *)
(***************************************************************************)
EXTENDS Integers, FiniteSets, Sequences

CONSTANTS
    MAX_ENTRY_NUM,  \* slots of a node
    BRANCH_BITS,    \* bits of the key that select a child (2 in the code)
    Key,            \* the logical ids of the destination vertices
    HASH_SIZE,      \* the fingerprints there are (256: one byte)
    DEGREE_SIZE,    \* the values of degree_t (2^32)
    Capacity,       \* the nodes the pool has room for
    MaxDegree,      \* bound: no insertion starts at this degree
    CrashPoints     \* the places where the process may crash

ASSUME ConstantsAssumption ==
    /\ MAX_ENTRY_NUM \in Nat \ {0}
    /\ BRANCH_BITS \in Nat
    /\ Key \subseteq Nat
    /\ HASH_SIZE \in Nat \ {0}
    /\ DEGREE_SIZE \in Nat \ {0}
    /\ Capacity \in Nat

VARIABLES
    bitmap, id, fgpt,       \* per node: the slots
    valid, child, level,    \* per node: is_offset_valid, first child, node_lv
    next,                   \* pmem_pool_cur, counted in nodes
    numNodes, degree,       \* the vertex entry
    pc, op, key,            \* the call
    cur, k, last,           \* its locals n, high or k, last
    mine,                   \* first_child of branch_out
    result                  \* what the last call returned, -1 for nothing

slotVars == <<bitmap, id, fgpt>>
treeVars == <<valid, child, level>>
counters == <<numNodes, degree>>
locals == <<cur, k, last, mine>>
callVars == <<op, key, locals>>
vars == <<bitmap, id, fgpt, valid, child, level, next, numNodes, degree,
          pc, op, key, cur, k, last, mine, result>>

-----------------------------------------------------------------------------
Slots == 0 .. MAX_ENTRY_NUM - 1
Node == 0 .. next - 1
NUM_BRANCH == 2 ^ BRANCH_BITS   \* get_num_branch
Children(first) == first .. first + NUM_BRANCH - 1

hashcode(x) == x % HASH_SIZE

\* index_branch: BRANCH_BITS bits of the key per level of the tree.
Branch(x, lv) == (x \div 2 ^ (lv * BRANCH_BITS)) % 2 ^ BRANCH_BITS

\* bitmap.first_zero(): the lowest slot whose bit is clear, -1 if none is.
first_zero(n) ==
    IF bitmap[n] = Slots THEN -1
    ELSE CHOOSE i \in Slots \ bitmap[n] : \A j \in Slots \ bitmap[n] : i <= j

\* find_key: the lowest slot that is set, has the fingerprint and the id.
Matches(n, x) ==
    {i \in bitmap[n] : fgpt[n][i] = hashcode(x) /\ id[n][i] = x}
find_key(n, x) ==
    IF Matches(n, x) = {} THEN -1
    ELSE CHOOSE i \in Matches(n, x) : \A j \in Matches(n, x) : i <= j

\* The nodes a search for x visits while it finds nothing.
OnPath(x) ==
    LET visited[n \in Node] ==
           \/ n = 0
           \/ \E m \in 0 .. n - 1 :
                 /\ valid[m]
                 /\ n = child[m] + Branch(x, level[m])
                 /\ visited[m]
    IN  {n \in Node : visited[n]}

\* find_edge_t returns 1
find_edge_t(x) == \E n \in OnPath(x) : find_key(n, x) >= 0

\* The first node on the path that has x: children come after their parent.
IsHolder(n, x) ==
    /\ n \in OnPath(x) /\ find_key(n, x) >= 0
    /\ \A m \in OnPath(x) : find_key(m, x) >= 0 => n <= m

\* The slot a deletion takes the entry to move from.
LastSlot(n) ==
    IF first_zero(n) = -1 THEN MAX_ENTRY_NUM - 1 ELSE first_zero(n) - 1

\* edges[-1].id: the four bytes before edges are the last fingerprints.
BeforeEdges(n) ==
    IF \A i \in Slots : i >= MAX_ENTRY_NUM - 4 => fgpt[n][i] = 0
    THEN {0} ELSE Key

\* A function over the nodes that exist, extended to the nodes of a new
\* allocation: the pool file is sparse, what was never written reads as zero.
Extended(f, value) ==
    [n \in 0 .. next + NUM_BRANCH - 1 |-> IF n < next THEN f[n] ELSE value]

\* The call is over: its locals are gone.
NoLocals == cur' = 0 /\ k' = -1 /\ last' = -1 /\ mine' = 0

Goto(from, to) == pc = from /\ pc' = to

Init ==
    /\ bitmap = [n \in {0} |-> {}]
    /\ id = [n \in {0} |-> [i \in Slots |-> 0]]
    /\ fgpt = [n \in {0} |-> [i \in Slots |-> 0]]
    /\ valid = [n \in {0} |-> FALSE]
    /\ child = [n \in {0} |-> 0]
    /\ level = [n \in {0} |-> 0]
    /\ next = 1
    /\ numNodes = 1
    /\ degree = 0
    /\ pc = "idle"
    /\ op = "none"
    /\ key = 0
    /\ cur = 0
    /\ k = -1
    /\ last = -1
    /\ mine = 0
    /\ result = -1

-----------------------------------------------------------------------------
(* insert_edge                                                             *)

\* A call for some destination; its vertex and the source's are there.
Start ==
    /\ \/ op' = "insert" /\ Goto("idle", "find") /\ degree # MaxDegree
       \/ op' = "delete" /\ Goto("idle", "search")
    /\ key' \in Key
    /\ result' = -1
    /\ UNCHANGED <<slotVars, treeVars, next, counters, locals>>

\* Mutant: not looked for (NO_CHECK_BEFORE_INSERT).
FindEdgeNever ==
    /\ Goto("find", "choose")
    /\ UNCHANGED <<slotVars, treeVars, next, counters, callVars, result>>

\* if (find_edge_t(n, dst_index) == 1) return 0
FindEdge ==
    /\ IF find_edge_t(key)
       THEN Goto("find", "return") /\ result' = 0
       ELSE Goto("find", "choose") /\ UNCHANGED result
    /\ UNCHANGED <<slotVars, treeVars, next, counters, callVars>>

\* Mutant: the bit is set when the slot is chosen.
ChooseSlotSetsBit ==
    /\ Goto("choose", "storeId")
    /\ first_zero(cur) # -1
    /\ k' = first_zero(cur)
    /\ bitmap' = [bitmap EXCEPT ![cur] = @ \cup {first_zero(cur)}]
    /\ UNCHANGED <<id, fgpt, treeVars, next, counters, op, key, cur, last, mine,
                   result>>

\* high = n->first_zero(), and there is one
ChooseSlot ==
    /\ Goto("choose", "storeId")
    /\ first_zero(cur) # -1
    /\ k' = first_zero(cur)
    /\ UNCHANGED <<slotVars, treeVars, next, counters, op, key, cur, last, mine,
                   result>>

\* The node is full and has children: n = n->index_branch_addr(dst_index)
Descend ==
    /\ pc \in {"choose", "descend"} /\ pc' = "choose"
    /\ first_zero(cur) = -1
    /\ valid[cur]
    /\ cur' = child[cur] + Branch(key, level[cur])
    /\ UNCHANGED <<slotVars, treeVars, next, counters, op, key, k, last, mine,
                   result>>

\* branch_out: alloc stores the pool's new offset.
Alloc ==
    /\ Goto("choose", "initChildren")
    /\ first_zero(cur) = -1
    /\ ~valid[cur]
    /\ next + NUM_BRANCH <= Capacity
    /\ mine' = next
    /\ next' = next + NUM_BRANCH
    /\ bitmap' = Extended(bitmap, {})
    /\ id' = Extended(id, [i \in Slots |-> 0])
    /\ fgpt' = Extended(fgpt, [i \in Slots |-> 0])
    /\ valid' = Extended(valid, FALSE)
    /\ child' = Extended(child, 0)
    /\ level' = Extended(level, 0)
    /\ UNCHANGED <<counters, op, key, cur, k, last, result>>

\* alloc: "run out of memory", exit(1); the next process opens the file.
AllocFails ==
    /\ Goto("choose", "idle")
    /\ first_zero(cur) = -1
    /\ ~valid[cur]
    /\ next + NUM_BRANCH > Capacity
    /\ NoLocals
    /\ UNCHANGED <<slotVars, treeVars, next, counters, op, key, result>>

\* The children's node_lv; their other fields are as the file has them.
InitChildren ==
    /\ Goto("initChildren", "storeChild")
    /\ level' = [n \in Node |-> IF n \in Children(mine)
                                THEN level[cur] + 1 ELSE level[n]]
    /\ UNCHANGED <<slotVars, valid, child, next, counters, callVars, result>>

\* first_child_offset = first_child - node_start
StoreChild ==
    /\ Goto("storeChild", "storeValid")
    /\ child' = [child EXCEPT ![cur] = mine]
    /\ UNCHANGED <<slotVars, valid, level, next, counters, callVars, result>>

\* is_offset_valid = 1
StoreValid ==
    /\ Goto("storeValid", "addNumNodes")
    /\ valid' = [valid EXCEPT ![cur] = TRUE]
    /\ UNCHANGED <<slotVars, child, level, next, counters, callVars, result>>

\* Mutant: one node is counted for a branch_out.
AddNumNodesOne ==
    /\ Goto("addNumNodes", "descend")
    /\ numNodes' = numNodes + 1
    /\ UNCHANGED <<slotVars, treeVars, next, degree, callVars, result>>

\* src_vertex->add_num_nodes(n->get_num_branch())
AddNumNodes ==
    /\ Goto("addNumNodes", "descend")
    /\ numNodes' = numNodes + NUM_BRANCH
    /\ UNCHANGED <<slotVars, treeVars, next, degree, callVars, result>>

StoreId ==
    /\ Goto("storeId", "storeFgpt")
    /\ id' = [id EXCEPT ![cur][k] = key]
    /\ UNCHANGED <<bitmap, fgpt, treeVars, next, counters, callVars, result>>

StoreFgpt ==
    /\ Goto("storeFgpt", "setBit")
    /\ fgpt' = [fgpt EXCEPT ![cur][k] = hashcode(key)]
    /\ UNCHANGED <<bitmap, id, treeVars, next, counters, callVars, result>>

\* n->bitmap.set(high)
SetBit ==
    /\ Goto("setBit", "addDegree")
    /\ bitmap' = [bitmap EXCEPT ![cur] = @ \cup {k}]
    /\ UNCHANGED <<id, fgpt, treeVars, next, counters, callVars, result>>

\* src_vertex->add_degree(); return 1
AddDegree ==
    /\ Goto("addDegree", "return")
    /\ degree' = (degree + 1) % DEGREE_SIZE
    /\ result' = 1
    /\ UNCHANGED <<slotVars, treeVars, next, numNodes, callVars>>

-----------------------------------------------------------------------------
(* delete_edge                                                             *)

\* Mutant: the degree goes down although there is no such edge.
SearchCounts ==
    /\ IF find_edge_t(key)
       THEN /\ Goto("search", "clearBit")
            /\ \E n \in Node :
                  /\ IsHolder(n, key)
                  /\ cur' = n /\ k' = find_key(n, key) /\ last' = LastSlot(n)
            /\ UNCHANGED <<result, degree>>
       ELSE /\ Goto("search", "return")
            /\ result' = 0
            /\ degree' = (degree - 1) % DEGREE_SIZE
            /\ UNCHANGED <<cur, k, last>>
    /\ UNCHANGED <<slotVars, treeVars, next, numNodes, op, key, mine>>

\* The walk down to the node that has the edge; last is worked out there.
Search ==
    /\ IF find_edge_t(key)
       THEN /\ Goto("search", "clearBit")
            /\ \E n \in Node :
                  /\ IsHolder(n, key)
                  /\ cur' = n /\ k' = find_key(n, key) /\ last' = LastSlot(n)
            /\ UNCHANGED result
       ELSE /\ Goto("search", "return")
            /\ result' = 0
            /\ UNCHANGED <<cur, k, last>>
    /\ UNCHANGED <<slotVars, treeVars, next, counters, op, key, mine>>

\* Mutant: nothing is moved into the hole.
ClearBitOnly ==
    /\ Goto("clearBit", "subDegree")
    /\ bitmap' = [bitmap EXCEPT ![cur] = @ \ {k}]
    /\ UNCHANGED <<id, fgpt, treeVars, next, counters, callVars, result>>

\* cur->bitmap.clear(k), and the end of it if k is the last entry
ClearBit ==
    /\ Goto("clearBit", IF k = last THEN "subDegree" ELSE "copyEdge")
    /\ bitmap' = [bitmap EXCEPT ![cur] = @ \ {k}]
    /\ UNCHANGED <<id, fgpt, treeVars, next, counters, callVars, result>>

\* src_vertex->add_degree(-1); return 1
SubDegree ==
    /\ Goto("subDegree", "return")
    /\ degree' = (degree - 1) % DEGREE_SIZE
    /\ result' = 1
    /\ UNCHANGED <<slotVars, treeVars, next, numNodes, callVars>>

\* cur->edges[k] = cur->edges[last]; last is -1 if slot 0 was free already
CopyEdge ==
    /\ Goto("copyEdge", "copyFgpt")
    /\ \E x \in IF last = -1 THEN BeforeEdges(cur) ELSE {id[cur][last]} :
          id' = [id EXCEPT ![cur][k] = x]
    /\ UNCHANGED <<bitmap, fgpt, treeVars, next, counters, callVars, result>>

\* Mutant: the fingerprint stays.
CopyFgptForgotten ==
    /\ Goto("copyFgpt", "update")
    /\ UNCHANGED <<slotVars, treeVars, next, counters, callVars, result>>

\* cur->fgpt[k] = cur->fgpt[last]; the byte before fgpt is padding
CopyFgpt ==
    /\ Goto("copyFgpt", "update")
    /\ fgpt' = [fgpt EXCEPT ![cur][k] = IF last = -1 THEN 0 ELSE fgpt[cur][last]]
    /\ UNCHANGED <<bitmap, id, treeVars, next, counters, callVars, result>>

\* Mutant: the entry that was moved stays where it was, too.
UpdateKeepsLast ==
    /\ Goto("update", "return")
    /\ bitmap' = [bitmap EXCEPT ![cur] = @ \cup {k}]
    /\ result' = 1
    /\ UNCHANGED <<id, fgpt, treeVars, next, counters, callVars>>

\* bitmap.update: last off and k on in one store; return 1.  1 << -1 is the
\* top bit on this machine.
Update ==
    /\ Goto("update", "return")
    /\ LET off == IF last = -1 THEN MAX_ENTRY_NUM - 1 ELSE last IN
          bitmap' = [bitmap EXCEPT ![cur] = (@ \ {off}) \cup {k}]
    /\ result' = 1
    /\ UNCHANGED <<id, fgpt, treeVars, next, counters, callVars>>

-----------------------------------------------------------------------------
Return ==
    /\ Goto("return", "idle")
    /\ NoLocals
    /\ UNCHANGED <<slotVars, treeVars, next, counters, op, key, result>>

\* The process dies; the constructor on an old file touches neither the nodes
\* nor the counters ("recover degree .." is a comment).
Crash ==
    /\ pc \in CrashPoints
    /\ pc' = "idle"
    /\ op' = "none"
    /\ key' = 0
    /\ result' = -1
    /\ NoLocals
    /\ UNCHANGED <<slotVars, treeVars, next, counters>>

Insert == \/ FindEdge \/ ChooseSlot \/ Descend \/ Alloc \/ AllocFails
          \/ InitChildren \/ StoreChild \/ StoreValid \/ AddNumNodes
          \/ StoreId \/ StoreFgpt \/ SetBit \/ AddDegree

Delete == \/ Search \/ ClearBit \/ SubDegree
          \/ CopyEdge \/ CopyFgpt \/ Update

Next == Start \/ Insert \/ Delete \/ Return \/ Crash

Spec == Init /\ [][Next]_vars

-----------------------------------------------------------------------------
(* The readers: they store nothing and run between two calls.              *)

\* The children of a node in the order of their addresses.
ChildSeq(n) == [j \in 1 .. NUM_BRANCH |-> child[n] + j - 1]

\* The queue of get_adj_edges_l after f nodes have been taken from it.
Queue ==
    LET after[f \in 0 .. next] ==
           IF f = 0 THEN IF valid[0] THEN ChildSeq(0) ELSE <<>>
           ELSE LET q == after[f - 1] IN
                IF f <= Len(q) /\ valid[q[f]] THEN q \o ChildSeq(q[f]) ELSE q
    IN  after[next]

\* memcpy of the first get_num_edges() entries, free slots or not
FirstEntries(n) ==
    [i \in 1 .. Cardinality(bitmap[n]) |-> id[n][i - 1]]

\* get_adj_edges_l: num_nodes decides whether the children are looked at, and
\* sizes the queue, which must not overflow.
QueueFits == numNodes > 1 => Len(Queue) <= numNodes - 1
AdjEdges ==
    LET nodes == <<0>> \o IF numNodes <= 1 THEN <<>> ELSE Queue
        upTo[j \in 0 .. Len(nodes)] ==
           IF j = 0 THEN <<>> ELSE upTo[j - 1] \o FirstEntries(nodes[j])
    IN  upTo[Len(nodes)]

\* get_out_degree_l: the bits of every node below the root, whatever the
\* counters of the vertex say.
Reachable == {0} \cup {Queue[j] : j \in 1 .. Len(Queue)}
OutDegree ==
    LET upTo[n \in 0 .. next] ==
           IF n = 0 THEN 0
           ELSE upTo[n - 1] + IF n - 1 \in Reachable
                              THEN Cardinality(bitmap[n - 1]) ELSE 0
    IN  upTo[next]

-----------------------------------------------------------------------------
(* Properties. *)

PC == {"idle", "find", "choose", "initChildren", "storeChild", "storeValid",
       "addNumNodes", "descend", "storeId", "storeFgpt", "setBit",
       "addDegree", "search", "clearBit", "subDegree", "copyEdge",
       "copyFgpt", "update", "return"}

\* The types of the tree in the file and of the locals of a call.
TypeOK ==
    /\ next \in Nat \ {0}
    /\ bitmap \in [Node -> SUBSET Slots]
    /\ id \in [Node -> [Slots -> Nat]]
    /\ fgpt \in [Node -> [Slots -> Nat]]
    /\ valid \in [Node -> BOOLEAN]
    /\ child \in [Node -> Nat]
    /\ level \in [Node -> Nat]
    /\ numNodes \in Nat
    /\ degree \in 0 .. DEGREE_SIZE - 1
    /\ pc \in PC
    /\ op \in {"none", "insert", "delete"}
    /\ key \in Nat
    /\ cur \in Node
    /\ k \in Slots \cup {-1}
    /\ last \in Slots \cup {-1}
    /\ mine \in Nat
    /\ result \in {-1, 0, 1}

Stored == {x \in Key : find_edge_t(x)}
AtRest == pc = "idle"

\* num_nodes is the number of nodes, or has been recalculated
\* (inc/vertex_index.h:65, inc/ntgraph.h:345).
NumNodesExact == AtRest => numNodes = Cardinality(Reachable)

\* What get_adj_edges_l copies is the set of edges, each of them once and
\* nothing else, as long as num_nodes counts the nodes: it takes the first
\* entries of each node, so a deletion must leave no hole, and its queue of
\* num_nodes - 1 places must have room for all nodes below the root.
AdjacencyExact ==
    AtRest /\ NumNodesExact =>
    /\ QueueFits
    /\ Len(AdjEdges) = Cardinality(Stored)
    /\ {AdjEdges[j] : j \in 1 .. Len(AdjEdges)} = Stored

\* The callers of get_adj_edges_l make a buffer of degree entries for it
\* (apps/bfs.h:75): the edges copied must fit, insertions, deletions and
\* repeated calls in any order.
DegreeCovers == AtRest => Len(AdjEdges) <= degree

\* get_out_degree_l counts the edges that a search finds; it looks at the
\* bitmaps and the links alone and so is right after a crash, too.
OutDegreeExact == AtRest => OutDegree = Cardinality(Stored)

\* After a deletion the edge is not found (apps/deletion.h:18-21).
DeletedGone ==
    AtRest /\ op = "delete" /\ result # -1 => ~find_edge_t(key)

\* degree is the degree: test/test_edge_iterator.cc:59 compares the two.
DegreeExact == AtRest => degree = Cardinality(Stored)

\* insert_edge takes effect when it sets the bit of its slot, delete_edge when
\* it clears one; all other stores, those of a branch_out and of moving an
\* entry included, leave the set of edges alone, and a crash leaves it as it
\* was before or after the call.
NoCall == <<>>
Edges == INSTANCE EdgeStore WITH
            edges <- Stored,
            call <- IF pc = "idle" THEN NoCall ELSE <<op, key>>,
            answer <- IF pc \in {"addDegree", "subDegree", "copyEdge",
                                 "copyFgpt", "update"} THEN 1 ELSE result

ImplementsEdgeStore == Edges!Spec
=============================================================================
