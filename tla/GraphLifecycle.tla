--------------------------- MODULE GraphLifecycle ---------------------------
(***************************************************************************)
(* What stays of a graph from one process to the next, in the build with   *)
(* NO_CONCURRENT: manage_meta_data, the vertex array and the trees are in  *)
(* the pool file; high and p_t_l_mapper are in memory and are made again   *)
(* from count and the ids of the entries when an old file is opened.       *)
(*                                                                         *)
(* One action is one store into the file, with the accesses to memory      *)
(* around it.  A process ends by the destructor of ntgraph, by exit(1),    *)
(* which runs no destructor, or by a crash.  The insertion of an edge      *)
(* into the tree of its source is one step here; EdgeTree shows that a     *)
(* crash does not split it.                                                *)
(***************************************************************************)
EXTENDS Integers, FiniteSets

CONSTANTS
    num_vertices,   \* entries of the vertex array, places of p_t_l_mapper
    CrashPoints     \* the places where the process may crash

ASSUME ConstantsAssumption == num_vertices \in Nat

\* The physical ids that p_t_l_mapper has a place for; it is not checked.
Physical == 0 .. num_vertices - 1

VARIABLES
    offset,         \* the last part of the file that is allocated
    alignment,      \* node_alignment_size has been stored
    count, crashed, \* manage_meta_data
    id, edges,      \* per entry: its vertex id, the entries its edges lead to
    high, p_t_l_mapper,             \* vertex_index, in memory
    pc, edge, side, entry,          \* the call that runs; side of the edge
    made, inserted, \* history: vertices and edges whose insertion is over
    ended, died     \* history: how the last process ended; some process died

metaVars == <<offset, alignment, count, crashed>>
fileVars == <<metaVars, id, edges>>
indexVars == <<high, p_t_l_mapper>>
callVars == <<edge, side, entry>>
history == <<made, inserted, ended, died>>
vars == <<offset, alignment, count, crashed, id, edges, high, p_t_l_mapper,
          pc, edge, side, entry, made, inserted, ended, died>>

-----------------------------------------------------------------------------
Entry == 0 .. num_vertices - 1
Unmapped == [v \in Physical |-> -1]
Mapped == {v \in Physical : p_t_l_mapper[v] # -1}

Goto(from, to) == pc = from /\ pc' = to

\* Memory is gone; what is in it when the next process starts is made anew.
NoMemory ==
    /\ high' = 0
    /\ p_t_l_mapper' = Unmapped
    /\ edge' = <<0, 0>> /\ side' = 2 /\ entry' = -1

Init ==
    /\ offset = "nothing"
    /\ alignment = FALSE
    /\ count = 0
    /\ crashed = 0
    /\ id = [i \in Entry |-> 0]
    /\ edges = [i \in Entry |-> {}]
    /\ high = 0
    /\ p_t_l_mapper = Unmapped
    /\ pc = "down"
    /\ edge = <<0, 0>> /\ side = 2 /\ entry = -1
    /\ made = {}
    /\ inserted = {}
    /\ ended = "never" /\ died = FALSE

-----------------------------------------------------------------------------
(* The constructors.                                                       *)

\* pmem_pool_allocator::init on a new file
InitPool ==
    /\ Goto("down", "allocVertices")
    /\ offset = "nothing"
    /\ offset' = "meta"
    /\ UNCHANGED <<alignment, count, crashed, id, edges, indexVars, callVars,
                   history>>

\* ntgraph: a pool that has the meta data only is new
OpenNew ==
    /\ Goto("down", "allocVertices")
    /\ offset = "meta"
    /\ UNCHANGED <<fileVars, indexVars, callVars, history>>

AllocVertices ==
    /\ Goto("allocVertices", "allocAlignment")
    /\ offset' = "vertices"
    /\ UNCHANGED <<alignment, count, crashed, id, edges, indexVars, callVars,
                   history>>

AllocAlignment ==
    /\ Goto("allocAlignment", "setAlignment")
    /\ offset' = "alignment"
    /\ UNCHANGED <<alignment, count, crashed, id, edges, indexVars, callVars,
                   history>>

SetAlignment ==
    /\ Goto("setAlignment", "allocRoots")
    /\ alignment' = TRUE
    /\ UNCHANGED <<offset, count, crashed, id, edges, indexVars, callVars,
                   history>>

AllocRoots ==
    /\ Goto("allocRoots", "setCrashed")
    /\ offset' = "roots"
    /\ UNCHANGED <<alignment, count, crashed, id, edges, indexVars, callVars,
                   history>>

\* set_crashed(1): the last store of the constructor on a new pool
SetCrashed ==
    /\ Goto("setCrashed", "run")
    /\ crashed' = 1
    /\ UNCHANGED <<offset, alignment, count, id, edges, indexVars, callVars,
                   history>>

\* re_map: the ids of the first h entries; the last entry with an id counts
Remapped(h) ==
    [v \in Physical |->
        LET of == {i \in Entry : i < h /\ id[i] = v}
        IN  IF of = {} THEN -1 ELSE CHOOSE i \in of : \A j \in of : j <= i]

\* Mutant: one entry is left out.
OpenOldOneLess ==
    /\ Goto("down", "run")
    /\ offset \notin {"nothing", "meta"}
    /\ high' = IF count > num_vertices THEN num_vertices ELSE count
    /\ p_t_l_mapper' = Remapped(high' - 1)
    /\ made' = {v \in Physical : p_t_l_mapper'[v] # -1}
    /\ UNCHANGED <<fileVars, callVars, inserted, ended, died>>

\* An old pool: high = count, re_map.  The crashed flag is looked at, nothing
\* is done about it, and it is not set again.
OpenOld ==
    /\ Goto("down", "run")
    /\ offset \notin {"nothing", "meta"}
    /\ high' = IF count > num_vertices THEN num_vertices ELSE count
    /\ p_t_l_mapper' = Remapped(high')
    /\ made' = {v \in Physical : p_t_l_mapper'[v] # -1}
    /\ UNCHANGED <<fileVars, callVars, inserted, ended, died>>

-----------------------------------------------------------------------------
(* insert_edge: insert_vertex of the destination, then of the source.      *)

InsertEdge ==
    /\ Goto("run", "find")
    /\ \E s, d \in Physical : edge' = <<s, d>>
    /\ side' = 2
    /\ UNCHANGED <<fileVars, indexVars, entry, history>>

\* insert_vertex returns: on to the source, then to the source's tree.
Returned == IF side = 2 THEN pc' = "find" /\ side' = 1
                        ELSE pc' = "tree" /\ UNCHANGED side

\* find_vertex
Find ==
    /\ pc = "find"
    /\ IF p_t_l_mapper[edge[side]] # -1
       THEN Returned
       ELSE pc' = "take" /\ UNCHANGED side
    /\ UNCHANGED <<fileVars, indexVars, edge, entry, history>>

\* high++, and the entry is one of the array
TakeEntry ==
    /\ Goto("take", "setId")
    /\ high' = high + 1
    /\ entry' = high
    /\ UNCHANGED <<fileVars, p_t_l_mapper, edge, side, history>>

\* "the vertex array compaction is needed": exit(1), no destructor
NoEntry ==
    /\ Goto("take", "down")
    /\ NoMemory
    /\ ended' = "died" /\ died' = TRUE
    /\ UNCHANGED <<fileVars, made, inserted>>

\* alloc_entry and the check of the array's end
AllocEntry == IF high < num_vertices THEN TakeEntry ELSE NoEntry

\* vertices[high].set_id(vertex_id)
SetId ==
    /\ Goto("setId", "setCount")
    /\ id' = [id EXCEPT ![entry] = edge[side]]
    /\ UNCHANGED <<metaVars, edges, indexVars, callVars, history>>

\* Mutant: the count is left to the destructor.
SetCountNever ==
    /\ pc = "setCount"
    /\ p_t_l_mapper' = [p_t_l_mapper EXCEPT ![edge[side]] = entry]
    /\ made' = made \cup {edge[side]}
    /\ Returned
    /\ UNCHANGED <<fileVars, high, edge, entry, inserted, ended, died>>

\* p_t_l_mapper[vertex_id] = high; meta_data->set_count(high): the index of
\* the entry, which is one less than the number of entries taken.
SetCount ==
    /\ pc = "setCount"
    /\ p_t_l_mapper' = [p_t_l_mapper EXCEPT ![edge[side]] = entry]
    /\ count' = entry
    /\ made' = made \cup {edge[side]}
    /\ Returned
    /\ UNCHANGED <<offset, alignment, crashed, id, edges, high, edge, entry,
                   inserted, ended, died>>

\* The edge goes into the tree whose root is the source's entry.
StoreEdge ==
    /\ Goto("tree", "run")
    /\ edges' = [edges EXCEPT ![p_t_l_mapper[edge[1]]] =
                    @ \cup {p_t_l_mapper[edge[2]]}]
    /\ inserted' = inserted \cup {edge}
    /\ UNCHANGED <<metaVars, id, indexVars, callVars, made, ended, died>>

-----------------------------------------------------------------------------
(* The end of a process.                                                   *)

\* ~ntgraph: set_crashed(0) ...
ClearCrashed ==
    /\ Goto("run", "lastCount")
    /\ crashed' = 0
    /\ UNCHANGED <<offset, alignment, count, id, edges, indexVars, callVars,
                   history>>

\* Mutant: the destructor stores no count.
LastCountNever ==
    /\ Goto("lastCount", "down")
    /\ NoMemory
    /\ ended' = "closed"
    /\ UNCHANGED <<fileVars, made, inserted, died>>

\* ... then set_count(count_vertex())
LastCount ==
    /\ Goto("lastCount", "down")
    /\ count' = high
    /\ NoMemory
    /\ ended' = "closed"
    /\ UNCHANGED <<offset, alignment, crashed, id, edges, made, inserted, died>>

\* The process is killed; the file has the stores made so far.
Crash ==
    /\ pc \in CrashPoints
    /\ pc' = "down"
    /\ NoMemory
    /\ ended' = "died" /\ died' = TRUE
    /\ UNCHANGED <<fileVars, made, inserted>>

Construct == \/ InitPool \/ OpenNew \/ AllocVertices \/ AllocAlignment
             \/ SetAlignment \/ AllocRoots \/ SetCrashed \/ OpenOld

Call == \/ InsertEdge \/ Find \/ AllocEntry \/ SetId \/ SetCount \/ StoreEdge

End == ClearCrashed \/ LastCount \/ Crash

Next == Construct \/ Call \/ End

Spec == Init /\ [][Next]_vars

-----------------------------------------------------------------------------
(* Properties. *)

PC == {"down", "allocVertices", "allocAlignment", "setAlignment",
       "allocRoots", "setCrashed", "run", "find", "take", "setId",
       "setCount", "tree", "lastCount"}

\* The types of the file, of the index in memory and of the call.
TypeOK ==
    /\ offset \in {"nothing", "meta", "vertices", "alignment", "roots"}
    /\ alignment \in BOOLEAN
    /\ count \in 0 .. num_vertices
    /\ crashed \in {0, 1}
    /\ id \in [Entry -> Nat]
    /\ edges \in [Entry -> SUBSET Entry]
    /\ high \in 0 .. num_vertices
    /\ p_t_l_mapper \in [Physical -> Entry \cup {-1}]
    /\ pc \in PC
    /\ edge \in Nat \X Nat
    /\ side \in {1, 2}
    /\ entry \in Entry \cup {-1}
    /\ made \subseteq Physical
    /\ inserted \subseteq Physical \X Physical
    /\ ended \in {"never", "closed", "died"} /\ died \in BOOLEAN

\* The entries below high carry the ids that the index maps to them, however
\* the process before this one ended: a vertex has one entry and an entry one
\* vertex, before and after re_map.
IndexMatchesArray ==
    pc \in {"run", "find"} =>
    /\ \A v \in Mapped : p_t_l_mapper[v] < high /\ id[p_t_l_mapper[v]] = v
    /\ Cardinality(Mapped) = high

\* Opening a file after a crash or an exit loses the vertex inserted last and
\* no other: the count in the file is one less than the vertices there are.
OneForgotten ==
    [][pc = "down" /\ pc' = "run" => Cardinality(made \ made') <= 1]_vars

\* The edges a reader reports, by vertex ids.
Reported == UNION {{<<v, id[j]>> : j \in edges[p_t_l_mapper[v]]} : v \in Mapped}

\* As long as every process has ended by the destructor, the graph that is
\* read between two calls is the one that was inserted, over any number of
\* processes: the last vertex, which the count in the file leaves out while
\* the process runs, and its edges are there again.
GraphExact == pc = "run" /\ ~died => Reported = inserted

\* "when the variable count is persisted, the vertex inserted is also
\* persisted" (inc/vertex_index.h:354): the edges reported for a vertex are
\* edges that were inserted for it, whatever happened.
EdgesOwned == pc = "run" => Reported \subseteq inserted

\* "the system has crashed" (inc/ntgraph.h:344): the constructor can tell that
\* the process before it did not get to its destructor.
CrashNoticed == pc = "run" /\ ended = "died" => crashed = 1

\* "preassign nvm memory for all vertices" (inc/ntgraph.h:306): edges are
\* inserted only into a pool that has its root nodes.
RootsAllocated == pc = "run" => offset = "roots" /\ alignment
=============================================================================
