# FTGraph in TLA+

FTGraph (`ntgraph` in the code) is a C++ library and benchmark for dynamic
graphs in non-volatile memory. The edges of each source vertex are the entries
of a *fingerprint tree*: nodes of up to 64 slots, each slot with a one-byte
fingerprint and a bit that says whether the slot counts. A full node gets a
block of children, and two bits of the destination's id select the child. The
nodes live in a memory-mapped pool file, so the order of the stores decides
what a process finds that opens the file after another one died; in the
concurrent build it also decides what other threads see.

This directory is a TLA+ development of that code: specifications
translated from the source, TLC configurations for small instances, and proofs
checked by TLAPS. Line numbers below and in `PROJECT.json` refer to the
repository; `PROJECT.json` maps every definition to the lines it models.

## 1. Inventory

| component | source | state | operations |
|---|---|---|---|
| insertion in parallel | `src/edge.cc`, `inc/tree_node.h`, `common/bitmap_util.h`, `common/version_lock.h` | per node `locate_map`, `bitmap`, `edges`, `fgpt`, `lock`, `is_offset_valid`, `first_child_offset`, `node_lv` | `insert_edge_parallel`, `find_key`, `try_locate_entry`, `set_entry`, `branch_out` |
| edge operations, one thread | same, with `NO_CONCURRENT` | the same without lock and `locate_map`; `degree`, `num_nodes` of the vertex | `find_edge_t`, `insert_edge`, `delete_edge`, `get_adj_edges_l`, `get_out_degree_l` |
| vertex index | `inc/vertex_index.h` | the vertex array (pool), `high`, `p_t_l_mapper`, `flags` (memory) | `insert_vertex`, `insert_vertex_parallel`, `re_map`, `add_degree`, `add_num_nodes` |
| pool allocator | `inc/pmem_pool_manage.h` | `manage_meta_data` (`offset`, `node_alignment_size`, `count`, `crashed`), `pmem_pool_cur` | `init`, `alloc` |
| life cycle | `inc/ntgraph.h` | what the constructor lays out in the pool | constructor on a new and on an old pool, destructor |
| edge lists | `inc/tree_node.h`, `inc/vertex_index.h` | chains of edge arrays in DRAM (build option `EDGELIST`) | `insert_el`, `init_edgelist` |
| iterators, edge maps | `inc/ntgraph.h`, `apps/map.h`, `apps/vertex_subset.h` | queue of nodes and position; frontier as a list or a bit array | `sbtree_iterator`, `iterator2`, `edge_map` |
| ingestion, deletion | `apps/ingestion.h`, `apps/deletion.h` | a batch of edges, divided among OpenMP threads | `batch_ingestion`, `check_one_ingestion`, `batch_deletion` |
| algorithms | `apps/*.h` | per-vertex arrays | BFS, connected components, Bellman-Ford, Dijkstra, page rank, hop counts, degrees |
| B-tree baseline | `common/btree.h`, `inc/ntgraph_btree.h` | a B-tree per vertex, in memory | insert, split, find, remove |
| drivers, timers, tests, tools | `apps/graph_benchmark*.cc`, `common/timer.h`, `test/`, `tools/` | none of the graph's | |

**How they interact.** A driver creates a `pmem_pool_allocator` and an `ntgraph`
on it, reads a file into batches and has threads call `insert_edge*` for each
edge. An insertion calls the vertex index for the two vertices of the edge; the *logical* ids it gets are entries of the vertex array. The
source's logical id selects a root node, the destination's is the key. Walking
down the tree the insertion calls `branch_out`, which calls `alloc`, and adds
to the two counters of the source's entry. Traversals read the tree directly
and size their buffers with those counters. Algorithms use traversals only.

**What is hard.** Threads meet at a node in three places: claiming a slot
(compare-and-swap on `locate_map`), publishing it (`bitmap`) and giving a full
node its children (`version_lock`); at the vertex index (spin lock per physical
id) and in `alloc` (mutex). The file is written in place, with no log, and must
make sense after a crash at any store. Counters are kept apart from what they count, and
buffers and queues depend on them. Deletion moves entries. `hazards` in
`PROJECT.json` lists each of these at its line.

**What makes each part correct.**
* Insertion in parallel: an edge is stored at most once and can be found from
  its publication on; a node has one writer and one set of children; every
  thread gets through; the counters are right after a batch.
* Edge operations: each call is one atomic change of a set of edges, crash or
  not; a reader copies each edge exactly once, within the buffers it has.
* Vertex index: one entry per vertex for ever, the edge goes between the right
  entries, and a batch of ids the index has room for never finds the array full.
* Pool and life cycle: what is read from a pool after it is opened again is
  what was inserted; a crash is noticed; the index agrees with the array.
* Traversals and edge lists: each edge once, wherever the tree ends and the
  chain of arrays begins.
* B-tree: a set of keys, in the shape of a B-tree after every split, loan and merge.
* Ingestion: the graph has the file's edges, whatever the batches and shares.
* Algorithms: equal to a short reference definition, in a bounded number of rounds.

## 2. Modules

| module | models | extends / instantiates |
|---|---|---|
| `ParallelInsert` | `insert_edge_parallel` and all it calls, one action per access to shared memory | `EdgeSet` |
| `EdgeSet` | what concurrent insertion promises: a set of edges that grows, and a degree that lags behind | |
| `MCParallelInsert` | inputs and symmetry for TLC | `ParallelInsert` |
| `ParallelTreeProofs` | proofs: types, one writer per node, the write lock, the shape of the tree, what stays, the counters; what is published can be found, and once; the tree implements `EdgeSet` | `ParallelInsert`, `NumberLemmas` |
| `VertexIndex` | `insert_vertex_parallel`, the vertex counters, and what threads of a batch do with them | |
| `MCVertexIndex` | inputs and symmetry for TLC | `VertexIndex` |
| `VertexIndexProofs` | proofs: the index, the endpoints, a batch | `VertexIndex` |
| `EdgeTree` | `insert_edge`, `delete_edge` and the readers of the sequential build, one action per store into the pool, crashes | `EdgeStore` |
| `EdgeStore` | what the sequential calls promise: each is atomic, also when the process dies in it | |
| `EdgeTreeProofs` | proofs: types, the tree implements `EdgeStore`, what the readers return, what the counters count | `EdgeTree`, `NumberLemmas` |
| `GraphLifecycle` | constructor, sequential `insert_vertex`, destructor, exit and crash, over any number of processes | |
| `GraphLifecycleProofs` | proofs: the index, the graph and what a crash forgets | `GraphLifecycle` |
| `EdgeList` | the build with `EDGELIST`: the tree by nodes, the chain of arrays, the readers and iterators of both builds | |
| `EdgeListProofs` | proofs: the chain of arrays, and what every reader returns | `EdgeList`, `NumberLemmas` |
| `BTreeNode` | the member functions of a B-tree node, as operators on trees | |
| `BTree` | `btree` as its callers use it | `BTreeNode`, `KeySet` |
| `KeySet` | what a B-tree promises: a set of keys | |
| `GraphBTree` | the graph of the baseline: index, one B-tree a vertex, destructor and constructor | `BTreeNode` |
| `Ingestion` | reading a file in batches into one of three builds, checking, deleting again | |
| `IngestionProofs` | proofs: the threads' shares, no edge is lost between the file and the graph | `Ingestion` |
| `BaselineIngestion` | the same with the baseline's graph beside the set of edges | `Ingestion`, `GraphBTree` |
| `MCIngestion` | the lines of the files | `BaselineIngestion` |
| `EdgeMap` | vertex subsets, the maps over edges and the functors of three algorithms | |
| `Analytics` | the graph algorithms, one action each | `EdgeMap` |
| `MCAnalytics` | the graphs they run on | `Analytics` |
| `AnalyticsProofs` | proofs: what the searches from a source find, and in how many rounds; ranks, components and counts; edge maps | `Analytics`, `NumberLemmas` |
| `NumberLemmas` | lemmas that several proofs rest on: least elements, recursion on a number, loops that go down, induction over a set, powers of two | |
The modules meet where one leaves off: a call that `ParallelInsert` or
`EdgeTree` takes apart is one step of `EdgeSet` or `EdgeStore` and one step of
`Ingestion` and `EdgeList`; the lists that `EdgeList` shows the readers to
return are what `Analytics` starts from.

### ParallelInsert

The tree of one source vertex and the threads that insert into it. Nodes are
numbered in the order in which the pool hands them out, 0 is the root;
`locate[n]` and `bitmap[n]` are `locate_map` and `bitmap` as sets of slots,
`id[n]` and `fgpt[n]` are `edges[].id` and `fgpt[]`, `version[n]` is the
`version_lock`, `valid[n]` is `is_offset_valid`, `child[n]` is
`first_child_offset` counted in nodes. `next` is `pmem_pool_cur`. `pc[t]` names
the next access of thread `t` to shared memory and its locals are `key`, `cur`
(`n`), `oldBm`, `oldVer`, `seen`, `loaded`, `high`, `mine`.

`Begin` starts a call with any edge still to be inserted, which covers every
division of a batch among threads. Then `LoadLocate`, `GetReadLock` and `CompareMaps`
load the two maps and the version and compare them; `LoadFgpt` is the vector
comparison of `find_key`, `FoundFallsThrough` and `NotFound` its two outcomes; `TryLoad` and
`TryCas` are `try_locate_entry`, the compare-and-swap on `locate_map`; `StoreId`,
`StoreFgpt`, `SetEntry` fill the slot in and publish it; `ReadUnlock`, `GetWriteLock`,
`CheckValid`, `AllocCheck`, `AllocBump`, `Link` and `ReleaseWriteLock` are the way through
`branch_out` with `alloc`; `AddNumNodes` and `AddDegree` raise the counters
and `Descend` goes on with the child.

Reading notes. `find_key` compares all fingerprints in one vector instruction
(`LoadFgpt`) and the ids of those that matched afterwards; the ids are compared
in one step here, since a slot inside both maps does not change before the
first deletion and this build has none in parallel. `high` is not initialised
when a call finds its edge stored and leaves its loop: the model takes any slot.
`link` and `reset_version` of the children happen before `is_offset_valid` is
stored and nobody reaches the children earlier, so they are one step. The memory
model is that of x86: plain stores are seen in program order, and the locked
instruction at the end of a call makes all earlier ones visible;
compare-and-swap has no spurious failure there.

### VertexIndex

`p_t_l_mapper`, `flags`, `high` and the entries with `id`, `num_nodes`,
`degree`, and threads that take edges from a batch, index the source, then the
destination, then raise the counters as `insert_edge_parallel` would. The tree is
reduced to how many slots it has, so that `branch_out` happens when they are used up.
`p_t_l_mapper` and `flags` have `num_vertices` places and the code looks an id up in
them unchecked: `Physical` are the ids they have a place for, and another one, which is
undefined behaviour, is outside of the model. There are as many entries as such ids, so
that `exit(1)` in `AllocEntry` would mean that one id took two; `TypeOK` says it does not happen.

### EdgeTree

The same tree in the sequential build, and a process that may die. A call is
`Start`, then one action per store: `ChooseSlot` and `Descend` walk, `Alloc`,
`InitChildren`, `StoreChild`, `StoreValid` and `AddNumNodes` are the branching
out, `StoreId`, `StoreFgpt`, `SetBit`, `AddDegree` the insertion; `Search`,
`ClearBit`, `SubDegree`, `CopyEdge`, `CopyFgpt`, `Update`, `Return` are
`delete_edge`, which clears the slot `k`, moves the node's last entry there and
then replaces the bit of the last by that of `k`. `AdjEdges` and `OutDegree` are
`get_adj_edges_l` and `get_out_degree_l` as functions of the state. `Crash` forgets the locals and
leaves the file as it is (`MAP_SHARED`: what a process has stored survives the
process, in program order; power failure is not modelled, since
`PERSISTED` and `CLWB_SFENCE` are off in `apps/config.h`).

Reading notes. `edges[-1]`, `fgpt[-1]` and a shift by -1, which follow a crash
in a deletion, are modelled as this build behaves: they read the bytes before
the arrays and the shift counts modulo the width. `scale_up` cannot be reached because
the constructor and `branch_out` make nodes with `size_lv` 2. The stack of 200
nodes in `get_out_degree_l` is never full: a level adds three at most and there
are 16 levels. Keys are distinct in all bits a tree can use, so `get_bits`
never runs past them.

### GraphLifecycle

The pool file (`offset` as the last part allocated, `alignment`, `count`,
`crashed`, and per entry its `id` and the `edges` below it), the index in memory
(`high`, `p_t_l_mapper`), and one process at a time. `InitPool`, `OpenNew`,
`AllocVertices`, `AllocAlignment`, `SetAlignment`, `AllocRoots`, `SetCrashed`
are the constructor on a new pool, `OpenOld` on an old one (with `re_map`).
`InsertEdge`, `Find`, `AllocEntry` (`TakeEntry`, or `NoEntry` on a full array, which
the ids of `Physical` never find), `SetId`, `SetCount`, `StoreEdge` are a call,
`ClearCrashed` and `LastCount` the destructor. `Crash` may happen at the places in
`CrashPoints`. The vertex array's size is taken not to be a multiple of
`ALIGNMENT_SIZE`, so that there is an alignment; `num_nodes` and `degree` are left to the other modules.

### EdgeList

The tree of one vertex, a node named by the branches that lead to it, with the ids in
its slots; `chain` is `first_el`, `next_el`, … with the capacity of each array.
`InsertEdge` and `DeleteEdge` are the sequential calls as one step (`EdgeTree`
has their stores); an edge that lands on level `EL_START_LV` or below goes to
the chain too (`insert_el`), and a deletion leaves it there. `Restart` is
`re_map` with `init_edgelist` in the next process. `get_adj_edges_array`,
`get_adj_edges_plain`, `iterator2` and `sbtree_iterator` are the readers; `Seen`
is the loop over an iterator. They go through `Queue`, the nodes below the root in the
order in which the code's queue gets them, and are compared with `TreeEdges`, which
is what a search down the path of each key finds. `stale` is a ghost: what was deleted from the tree
since the last start and is still read from the chain. The vector form of
`get_adj_edges_l` in this build returns the root's edges only and is left out.

### BTreeNode, BTree, KeySet

A node is a record `[leaf, keys, kids]`; offsets in the pool are replaced by
the subtrees they lead to, since no node has two parents. Each function of the
class is an operator with its name that returns the subtree as the function
leaves it, with the position arithmetic of the code (`merge` puts the middle key at
`MIN_KEYS`, whatever the left child holds). `insert` is both `btree::insert` and the
second half of `ntgraph_btree.h`'s `insert_edge`. `BTree` inserts a key only when `find` has not
found it, as `insert_edge` does. `node::remove` returns whether the search
ended at once in a leaf, so `KeySet` lets `Remove` answer anything for a key that is not there.

### Ingestion, GraphBTree, BaselineIngestion, MCIngestion

`Ingestion` reads a file (`ReadLine`: one round of the loop with the
batch it may start; `EndOfFile`: the batch after the loop), lets threads insert
(`InsertEdge(t)`, by `Shares`), joins them (`Join`), ends the batch with what the `CHECK`
build asserts (`EndBatch`), and, in the sequential build, goes over the same file again with
`DeleteEdge` (`StartDeletion`). The graph is the set `stored`, and a call is one
step that adds or removes an edge: that is what `EdgeStore` promises of the sequential
build, and `EdgeSet` of the parallel one as long as the edge is new. An edge that is
there already is `FallThrough` in the parallel build, since the call goes on below its loop
(`edge.cc:133-137` to 229-253, `insert_lost`): any other edge of that source may be gone
afterwards, and its source may be in `broken`, the sources with a node whose `bitmap` has a bit that
`locate_map` lacks. A later call for a source in `broken` may come to that node and
spin there (`Spin`). So the files with an edge twice are explored in all builds, and
`Supported` says for which the properties are claimed: all files in the builds that look before they
insert, and those with `NoEdgeTwice` (no line twice, no edge in both directions of an undirected
file, no undirected self-loop) in the parallel one. `GraphBTree` has the baseline's graph as a record and
its functions as operators, and `BaselineIngestion` runs it beside `stored`:
`InsertOne` is `InsertEdge` with the call of `insert_edge`, `ReadVertex` and `Reopen`
follow at the end of the file, and `BaselineSound` says among others that the
B-trees hold the edges of `stored`.
A file has a flag for the newline at its end: without it the loop leaves
the last line out (`ingestion.h:188`), and `FileEdges` says so.

### EdgeMap, Analytics, MCAnalytics

`EdgeMap` has the vertex subset (`all`, a queue, or a bit array), the change
between representations, `edgeMap` with its choice of sparse or dense, and a
functor as two operators. `parallel_for` is a plain `for` and there is one worker, so a
map is a fold in the order of the loop, and an update within a round sees those before it.
A loop the proofs speak of is written with `ForEach`, a fold as a recursive function.
`Analytics` calls one algorithm on one graph; a step is a round of its outer loop.
The forms `2`, `3` and `5` of an algorithm differ in how they read a list
(array, two iterators) and in whether they skip vertices without edges; forms
that are the same otherwise share an action. `phys` and `find_vertex` keep
physical and logical ids apart, `degree` may be above the list's length, as
`EdgeTree` shows after deletions. Ranks are integers, multiples of 1 / `UNIT`.

`main` names the sources of searches by physical ids, so `source` is one. `test_bfs*` and
`bellman_ford*` convert it (`find_vertex`); `dijkstra`, `BFS_with_edge_map` and `SSSP_BF` do not
(`graph_benchmark.cc:444, 501` pass the same ids) and start from the vertex that has this
number as its logical id, or from none. `apps/config.h:45` leaves
`EDGEMAP` off and says it "has bug !"; which one is not said. The missing conversion
is one, and the dense maps on directed graphs are another. `test_two_hop` hands logical ids to
`get_adj_edges`, which takes physical ones and ends the process at one without a vertex
(`edge.cc:399-403`): its result is then "exit".

## 3. What the runs check

All runs are in `PROJECT.json`; a run is `tlc -config <run>.cfg <module>`. For
each property of a passing run a *mutant* is listed, a plausible bug in one
definition under which TLC finds the property violated. The mutants are the operators
with `\* Mutant` above them.

| run | instance | shows |
|---|---|---|
| `insert_batch` | 3 fair threads, 3 edges, 1 slot | `TypeOK`; what is published can be found (`PublishedFindable`); `ChildrenApart`; after the batch `CountersExact`; `BatchEnds`; the tree implements `EdgeSet` |
| `insert_same` | 3 threads, 3 edges and one of them twice, 2 slots, the pool runs out | `OneWriterPerNode`, `ClaimedOnce`, `BranchOutExclusive`, `PublishedStays`, up to the first call that finds its edge stored |
| `insert_lost` | an edge twice | violated: `IngestedFound` |
| `vertex_batch` | 3 fair threads; batches of 3 edges between all the ids there are places for | `TypeOK` (no entry past the end, no exit for a full array), `OneEntryPerVertex`, `EndpointsRight`, `BatchChecked`, `BatchEnds` |
| `edge_ops` | 4 keys, 2 slots, the pool runs out, crashes where the counters agree with the tree | `NumNodesExact`, `AdjacencyExact`, `DegreeCovers`, `OutDegreeExact`; the calls implement `EdgeStore` |
| `edge_crash` | 4 keys, 1 slot, 3 levels, crashes at every store | `AdjacencyExact`; the calls implement `EdgeStore` |
| `edge_ghost` | crash in a deletion | violated: `DeletedGone` |
| `life` | 3 vertices, 3 entries, crashes at every store of a call and of the destructor | `IndexMatchesArray`; without a crash the graph read is the graph inserted, over any number of processes (`GraphExact`); at most one vertex is forgotten (`OneForgotten`) |
| `btree` | 10 keys, 1 to 3 keys a node, 3 levels | `WellFormed`; `find`, `traverse`, `sum`, `get_num_nodes` and the iterator agree (`ReadersAgree`); the tree implements `KeySet` |
| `ingest` | files of up to 4 lines of 6 edges, any of them more than once, batches of 3, 1 or 2 threads, 3 builds | of the files a build supports: the graph has the file's edges and after the deletion none (`IngestedExact`); each batch is found (`BatchFound`); the file is read to its end (`LoadEnds`). Index and trees of the baseline agree, also after readers and another start (`BaselineSound`) |
| `edge_list` | 5 keys, 1 slot, 3 levels, `EL_START_LV` 1, 2 and 3, arrays of 1 and 2 edges | each reader returns each edge once, and besides only the stale ones (`ReadersExact`); the arrays are full but the last and never overfull (`ChainPacked`) |
| `analytics` | all undirected graphs of up to 4 vertices, all directed ones of 3, some of 6; every vertex as source, by its physical id | `DistancesExact`, `ComponentsExact`, `RanksExact`, `CountsExact` against reference definitions; between rounds the frontier is what it must be (`FrontierSound`); no more rounds than vertices (`RoundsBounded`) |

That a batch's edges are all found at its end in `insert_batch` is not a property of
its own: the last state of a run that implements `EdgeSet` has all edges in its tree.

**The disagreements.** Two runs show the code doing something else than a
comment or an assertion says, and `findings` quotes them: inserting
an edge that is already there writes over another entry of the node in the
parallel build (`src/edge.cc:134`, `insert_lost`); after a crash in a deletion a later
one may leave its edge in the tree (`src/edge.cc:287`, `edge_ghost`). Each checks the property that
should hold. More configurations, which are not among the runs, show the same kind of thing:

| configuration | module | violated property | what the code does |
|---|---|---|---|
| `pool_end.cfg` | `MCParallelInsert` | `WithinPool` | two threads both pass the bounds check of `alloc`, made before the mutex |
| `vertex_nodes.cfg` | `MCVertexIndex` | `NumNodesExact` | `num_nodes = 1` is stored after the vertex is visible to other threads |
| `edge_degree.cfg` | `EdgeTree` | `DegreeExact` | `delete_edge` lowers the degree only when the entry was the last of its node |
| `edge_nodes.cfg` | `EdgeTree` | `NumNodesExact` | `num_nodes`, which "can be recalculated after a crash", is not |
| `life_count.cfg` | `GraphLifecycle` | `EdgesOwned` | after a crash the last vertex's entry is given away with its edges |
| `life_flag.cfg` | `GraphLifecycle` | `CrashNoticed` | the crashed flag is not set again for an old pool |
| `life_roots.cfg` | `GraphLifecycle` | `RootsAllocated` | a crash in the constructor leaves a pool that passes for a complete one |

Some properties say what the code does rather than what one might want of it:
`IngestedExact` leaves out the last line of a file without a newline, and with
`BatchFound` and `LoadEnds` is about files without an edge twice in the parallel
build (`insert_lost` shows what one does);
`ReadersExact` lets the readers of the edge lists return deleted edges;
`DistancesExact` (for `dijkstra` and the edge maps) and `CountsExact` (for `test_two_hop`) take graphs
where physical and logical ids agree, because these mix them up; and edge
maps run on undirected graphs, because `EdgeMapDense` takes out-edges for in-edges.

**Bounds.** One or two slots per node instead of 64 make nodes full, and
`branch_out`, descents and deeper trees happen with three or four keys; `BRANCH_BITS`
1 gives two children instead of four, and keys below 8 leave three levels to choose
in. `HASH_SIZE` 1 makes all fingerprints collide, 2 makes some differ. Three threads are
enough for one to hold a lock or a claim, one to wait or fail, and one to come
when it is all over. `Capacity` (nodes) is more than the
batch needs in `insert_batch`, and less in the other runs of the tree, where the pool
must run out. `MaxDegree` bounds the degree, which deletion can let grow without
end: `Start` begins no insertion beyond it, so that `edge_ops` has two full nodes
and no more. `DEGREE_SIZE` is the modulus of the degree and is 1 in `edge_crash`,
which does not look at it, so that the states do not multiply and `MaxDegree`
bounds nothing. `CrashPoints` lists where a process may die, by the `pc`
of the step it does not take any more. `edge_ops` leaves out the points between a change of
the tree and that of its counter, after which the counters are wrong for good
(`edge_crash` has them), and those in the moving of an entry, where `edge_ghost` shows what
happens; with one slot per node, in `edge_crash`, no entry is ever moved. `insert_same` has a
constraint that ends a behaviour at the first call that finds its edge;
`insert_lost` is about what follows. Thread symmetry is used where only
safety is checked. In `vertex_batch` two ids are enough: each is source and destination,
three threads race for either, and the array is full in the end. The vertex array of `life` has
three entries, so that a crash can forget one vertex, keep another, and a third comes
after it.

In `btree`, `MIN_KEYS` 2 (64 in the code) lets a node be full with three keys,
and ten keys give three levels, so that splits, loans and merges of inner nodes
happen. In `ingest` a file has up to four lines (`MaxLines`), so that an undirected one fills
two batches and leaves a rest, and an odd batch does not divide evenly by
`THREAD_NUM`; one vertex with an edge to all five makes its B-tree split.
In `edge_list` one slot a node and five keys give three levels;
`EL_START_LV` has each value with which the border lies at another level; arrays of one edge grow
once and are then followed by another; `MaxStale` bounds the deleted edges a chain may hold.
In `analytics` `num_vertices` is above the number of most graphs' vertices, since
some loops go over the capacity and others over the count; the graphs of six vertices are
the smallest on which hooking meets a label that is no root any more, and where a
dense frontier shrinks to a sparse one with vertices behind it. `THRESHOLD` 3 (20)
makes rounds of one vertex sparse and others dense; two iterations of page rank
swap the arrays once and end once.

**Deadlock** is checked in all runs but `ingest`, where the program ends after the last
batch. A finished batch and a returned algorithm
stutter by an action of their own (`Terminated`, `Returned`), so that anything else that
stops is reported; the other modules never stop.

**Fairness.** `FairSpec` is weak fairness of each thread: the threads are OpenMP
threads of one process and the operating system schedules each of
them again and again. Nothing is assumed about which thread wins a lock or a compare-and-swap;
`BatchEnds` holds because a failed attempt means that another thread has
made progress and a batch is finite. `LoadEnds`
of `ingest` assumes weak fairness of `Load`, the steps of a process that runs `main` to its
end; which thread is next is left open. It is enough for the files `LoadEnds` is about: on them
no call spins. The other modules are sequential: a
call has no loop that waits, and that the loops of the algorithms end is the
safety property `RoundsBounded`.

## 4. What is proved

The theorems hold for every value of the constants that satisfies the module's
assumption (`ConstantsAssumption`, `IngestionAssumption`, `EdgeListAssumption`,
`GraphsAssumption`, `RanksAssumption`): any set
of threads and keys, any number of slots, branch bits, fingerprints, vertices and entries,
any capacity, any places to crash, any file, batch size, array size, start level, graph, unit of the ranks and number of iterations
above 0. Where
a theorem has a further hypothesis it is named here. Each one rests on an inductive invariant
that TLC was given as well, on the instances of the runs or on some of their graphs.

| module | theorem | what it says | needs besides |
|---|---|---|---|
| `ParallelTreeProofs` | `TypeCorrect` | `TypeOK` | |
| | `OneWriter` | `OneWriterPerNode` | |
| | `WriteLockExcludes` | `BranchOutExclusive` | |
| | `TreeCorrect` | `ChildrenApart` | |
| | `EntriesStay` | `PublishedStays`, an action property | |
| | `CountersCorrect` | `CountersExact` | |
| | `Findable` | `PublishedFindable` | |
| | `InsertedOnce` | `ClaimedOnce` | |
| | `EdgeSetImplemented` | the tree implements `EdgeSet` | `DistinctEdges` |
| | `DistinctIngested` | no call falls through; after a batch all its edges are found | `DistinctEdges` |
| `VertexIndexProofs` | `TypeCorrect` | `TypeOK`: no entry past the end, no exit | |
| | `OneEntry`, `Endpoints` | `OneEntryPerVertex`, `EndpointsRight` | |
| | `BatchCorrect` | `BatchChecked` | |
| | `MappingForGood` | `MappingStays`, an action property | |
| `GraphLifecycleProofs` | `TypeCorrect`, `IndexCorrect` | `TypeOK`, `IndexMatchesArray` | |
| | `GraphCorrect` | `GraphExact` | |
| | `ForgetsOne` | `OneForgotten`, an action property | |
| `EdgeTreeProofs` | `TypeCorrect` | `TypeOK` | |
| | `EdgeStoreImplemented` | the tree implements `EdgeStore` | `MovesFinish` |
| | `DeletedIsGone` | `DeletedGone` | `MovesFinish` |
| | `OutDegreeCorrect` | `OutDegreeExact` | `MovesFinish` |
| | `AdjacencyCorrect` | `AdjacencyExact` | `MovesFinish` |
| | `NumNodesCorrect` | `NumNodesExact` | `MovesFinish`, no crash at `addNumNodes` |
| | `DegreeSuffices` | `DegreeCovers` | `MovesFinish`, no crash at `addDegree`, `MaxDegree < DEGREE_SIZE` |
| `IngestionProofs` | `SharesPartition` | every edge of a batch is in one thread's share, once | |
| | `LoadInvariant` | no edge is lost between the file and the graph | `Supported`, in the statement |
| | `IngestedExactHolds` | `IngestedExact` | `Supported`, in the property |
| | `BatchFoundHolds` | `BatchFound` | `Supported`, in the property |
| `EdgeListProofs` | `ListInvariant` | the chain has the deep levels and what was deleted from them | |
| | `ChainPackedHolds` | `ChainPacked` | |
| | `ReadersExactHolds` | `ReadersExact` | |
| `AnalyticsProofs` | `SearchInvariant` | what each round of a search has found | `ShortPaths` |
| | `EdgeMapInvariant` | what each round of an edge map has found | `ShortPaths` |
| | `FrontierSoundHolds` | `FrontierSound` | `ShortPaths` |
| | `DistancesExactHolds` | `DistancesExact` | `ShortPaths` |
| | `RoundsBoundedHolds` | `RoundsBounded` | `ShortPaths` |
| | `RanksExactHolds` | `RanksExact` | |
| | `ComponentsExactHolds` | `ComponentsExact` | |
| | `CountsExactHolds` | `CountsExact` | |

Two hypotheses mark where the code stops being correct, and each has a run that
shows what happens without it. `DistinctEdges`: no edge occurs twice in the batch
(`insert_lost` has one that does). `MovesFinish`: no process dies while a deletion
moves an entry, or nodes have one slot so that none is ever moved (`edge_ghost` has
one that dies there). The two counters of a vertex are stored after what they
count, so that a process that dies between the two leaves them behind for good
(`edge_nodes` has one that does, for `num_nodes`; `MaxDegree` is the bound below which `degree` does not
wrap around). Properties of `ParallelInsert` that speak of slots are
themselves limited to behaviours in which no call has fallen through
(`fellThrough`), and the theorems say what the properties say. `Supported` is
the same limit for a file as `DistinctEdges` for a batch. `ShortPaths`, a vertex that
can be reached at all is fewer than `INF` edges away, is a limit of the code: `INF` (1000000,
`dijkstra.h:8`, `bellman_ford.h:9`) is also what a vertex without a way to it has, and
a distance that reached it could not be told apart. It is about distances and not about the number of
vertices, which is above `INF` in the default data set (`graph_benchmark.cc:196`).

**Insertion in parallel.** `TypeOK` alone is not inductive, since `cur` must stay a
node: descending goes to `child[n] + Branch(...)`. `ShapeInv` adds that a valid node's
children are below `next`, that a thread about to link holds a block below `next`,
that a thread about to go down is at a node with children, and that a thread that
writes has chosen a slot. On top of it:

* `ClaimInv` is the argument the whole insertion rests on: the maps are compared
  before the node is searched. From `CompareMaps` on, `oldBm` is within
  `bitmap`, since bits are only added; what a thread loads again lies between
  `oldBm` and `locate`; a compare-and-swap from `oldBm` succeeds only if `locate` is still
  `oldBm`, hence equal to `bitmap`, hence nobody else writes in that node.
* `TreeInv` has four parts that need each other. `LockInv`: the version of a
  node is odd just while one thread is in its `branch_out`. `FullInv`: a node with
  children is full, because the map that was searched was a full bitmap, and bits
  stay. `ChildInv`: the groups of two parents never overlap, and children are one
  level down behind their parent. `FreshInv`: a group allocated and not yet linked
  is nobody else's, has no children and no thread in it; without it a link could
  join two trees.
* `NodesInv` and `DegreeInv` give the counters between the steps: `next` is the
  linked groups and those in the hands of a thread, `num_nodes` lags behind it by the threads about
  to add to it, `degree` behind the published entries by the calls about to return. They are
  statements about cardinalities, and a finished batch has no such threads.
* `EntryInv` is about the way of a key through the tree. A call at a node knows
  that the node is on its key's path and that no node before it holds the key
  (`NotBefore`), that what it searched did not hold it either (`LookedAt`), and what it has
  already stored in its slot (`FilledIn`). The path is a recursive function over the
  nodes; `PathExists` shows that it exists, by giving the set of nodes it comes to,
  and `PathFacts` what it satisfies, by taking a least node. A link makes a path
  longer only by new nodes that are empty (`PathStep`). Two calls for one key cannot both
  claim: one would have to be at a node before the other's, which is full by then
  and does not hold the key, or at the same node, where `ClaimInv` lets one write.
* `UniqueInv`, under `DistinctEdges`: a key is still to be inserted, in one call,
  or published, and only one of these; so nobody ever finds its edge stored. For
  `EdgeSet` the published entries and the published keys are in bijection
  (`EdgesCounted`), `SetEntry` is the insertion, and all steps but it and the two
  ends of a call stutter.

**Vertex index.** `IndexInv` has the lock of a vertex with one thread, one thread an
edge (`ApartInv`), what a call knows (`CallInv`), and the entries below `high`
in bijection with the mapped vertices and the threads that publish (`EntryInv`).
`BatchInv` adds that the id of an entry is set or about to be set, and that `stored` and `degree`
are the cardinalities of the edges in a tree and of those whose call is over. `Batches` are
assumed finite, as those of `ingestion.h` are, for there is no cardinality otherwise.
That the array is never full is a matter of counting: the entries below `high` are in
bijection with ids of `Physical`, the id that is about to get one has none yet, and there are `num_vertices` ids.

**Life cycle.** `LifeInv`: the index and the ids of the filled entries are inverse
to each other, where *filled* leaves out the entry that `insert_vertex` has taken
and not yet entered; the count in the file is the number of filled entries or one
less, whatever step a process died at, and it is this that `re_map` goes by.
`GraphInv` says the same of the edges, as long as no process has died.

**Edge tree.** `StoreInv` is what holds at every store of a call. `EntryInv`: each
used slot has a key of its own, with its fingerprint, in a node on the key's path.
`PrefixInv`: the used slots of a node are the first ones, but for the hole that a deletion is
about to fill, and this is what makes `first_zero() - 1` the last entry; it is not preserved by
a crash in `CopyEdge`, `CopyFgpt` or `Update`, which is why `MovesFinish` is there. `LocalInv`:
the slot an insertion fills is the first free one, and its key is in no node; a
deletion's slot has its key, then a copy of the last entry. `FreshInv` and `CallInv` are
the block not yet linked and the calls. With `FoundIsHeld` (a search finds what some node holds)
the edges change at `SetBit` and `ClearBit` and nowhere else (`HeldStep`), and moving
an entry exchanges one slot of a key for another. `GoneInv` adds what a deletion knows
after `ClearBit`.

**Readers.** `get_adj_edges_l` and `get_out_degree_l` go through the tree with a
queue, in the model recursive functions; `Recursion` shows once that a
function given by its first value and a step exists, and `QueueRuns`, `CopyRuns` and
`OutDegreeCounts` that `Queue`, `AdjEdges` and `OutDegree` are what their loops end with.
`LinkInv` says that a node with children is in the tree itself and that no node is in the
groups of two parents or in one about to be linked. After `f` rounds the queue has the children
of the root and of its first `f` nodes, each once (`Grown`, `Round`); it is shorter than
the nodes are many, so the loop comes to its end, and then a parent outside of the queue
would need another before it (`QueueIsTree`). As no edge is in two nodes (`EntryInv`) and
the used slots of a node are its first ones (`PrefixInv`), the concatenated entries are the
edges without repetition. `CountInv` is `num_nodes` against the nodes of the tree at every
store, `DegreeInv` `degree` against the edges; a deletion that moves an entry does not
subtract, hence an inequality.

**Ingestion.** `LoadInv` has the types, the control (`BatchRead`: the batch comes from the lines
read so far, the threads have work only between start and join), and, of a supported file, `NothingLost`: while the file is read, the
edges of the lines so far are those in the graph and those in `Pending`, the rest of the
shares or the batch; while it is deleted again, what is still in the graph from these lines is
in `Pending`. At the end of a phase nothing is pending. `SharesPartition` is what
carries a batch over to the threads: the code gives each of them `num / THREAD_NUM` edges and
the rest to the last, and that these shares have every position once is arithmetic of a quotient and
its remainder, also when there are fewer edges than threads. In the parallel build `AllNew` says
that the batch has no edge twice, that no position of it is left to two threads, and that what is pending is not
in the graph: `NoEdgeTwice` gives it for each new line (`LineIsNew`) and the shares have each
position once. So no call finds its edge stored and none falls through. A line without a newline at the
end of the file is in none of it, as `FileEdges` says.

**Edge lists.** `ListInv` has the shape of the tree (`Shape`: every node but the root is a
child of one that has all its children), the edges in it (`Entries`: each in one slot, in
a node that its branches lead to), and `ChainInv`: the arrays are packed, and the chain has
each edge as often as it is on the levels from `EL_START_LV` on and in `stale` together. An
edge may be inserted, deleted and inserted again, and is then in the chain twice;
sets would not do, so `Count` counts the positions of an edge in a sequence, and `BagOfSequence`
leads back to the bags of `ReadersExact`. `insert_el` puts an edge behind all others
whatever it does with the arrays (`ChainedInsert`), so `init_edgelist` makes a chain
of exactly the edges it goes over (`ChainedRestart`). `Recursion` shows here too that the
recursive functions exist, which are the flattening of a sequence of sequences, the chain
after so many edges and the queue after so many nodes. `Induction` carries a property of
numbers, given as a set, from each to the next.

The readers differ in where they stop with the tree. The queue is level by level
(`Layered`: the levels of its nodes never go down, and the children of the nodes
taken so far fill it), and with all its nodes taken it has every node below the root
once (`QueueIsTree`). Hence `get_adj_edges_l`, which reads the queue up to the first
node of level `EL_START_LV`, reads all nodes above that level and none from it on;
`iterator2`, which stops filling the queue at the first node with children on
the level above, has filled it with just these (`QueueCut`), and when there is no
such node, the tree ends above `EL_START_LV` and nothing is stale (`NothingDeep`). An
array without an edge would end an iteration early; `ChainPacked` says there is none (`SeenArrays`).

**Graph algorithms.** `Distance` is defined by balls: the vertices at most `k` edges from the
source. A ball that does not grow has grown for the last time (`ReachStable`), and a ball
that has grown `k` times has more than `k` vertices (`ReachSize`), so that every
distance is below the number of vertices (`DistanceFacts`); `ShortPaths` makes it less than `INF`. An id
without a vertex, from which an edge map may start, reaches itself only (`ReachAlone`). A vertex at distance `k + 1` has a
predecessor at distance `k`, and an edge leads at most one further
(`DistancePredecessor`, `DistanceEdge`). The algorithms meet this at the end of a round:

* Breadth first search (`BfsInv`): after `r` passes a vertex has its distance if that is
  at most `r` and -1 otherwise (`Levels`). A pass writes to the array it reads; it
  looks for level `r` and writes `r + 1`, and does not see its own work (`VisitFacts`). It changes something just
  when the ball grows, so it stops when all is found and after `n` passes at the latest.
* Bellman-Ford (`BellmanFordInv`): no entry is below the distance (`Bounds`), and after `r`
  rounds what is at most `r` edges away is right (`Near`). Here a round may see its own work
  and be ahead, whence an inequality. `n - 1` rounds are enough
  (`NearExact`), and so is one without a change (`RelaxStable`). The last pass
  for a negative cycle then finds no edge to shorten (`RelaxExact`).
* Dijkstra's algorithm (`DijkstraInv`): a final vertex has its distance, and its neighbours are
  at most one further (`Settled`). Hence some nearest vertex that is not final has its
  distance already (`NearestOpen`), and it is what the loop chooses. The loop leaves one
  vertex out (`count <= n - 2`); nothing is left to reach it by (`LastOpen`, `SettledExact`).
* Page rank (`RankInv`): at the head of iteration `k` one array has the shares of that
  iteration and the other nothing but zeros, which is what leaving out a reset would break. Pushing along the array
  of edges brings to a vertex the shares of those it has an edge from (`PushPulls`):
  the array is the lists one after the other (`PushAppend`), and a list holds no target twice
  (`PushRow`). The ranks are integers and `div`; how much a rank loses
  to rounding in the code is not part of the statement.
* Connected components (`ComponentInv`): a label is never above its vertex (`Forests`), so that
  the labels are trees. Which vertices are in one tree is said by the sets of
  vertices that are unions of whole trees (`Closed`). Both loops of `Hook` and `Compress` end because they go to lower labels
  (`HookRuns`, `RootRuns`, by `TailRecursion` of `NumberLemmas`). Hooking an edge
  leaves just the closed sets that do not part its ends (`HookFacts`), whatever label it hooks; compressing leaves
  them all (`CompressFacts`). After the last edge the closed sets are those
  that no edge leaves (`Joined`), and with every label at its root two
  vertices have one label just when they are in one component (`JoinedLabels`, `LabelsCount`).
* The queries (`CountInv`): paths are counted by the vertex they start from (`CountBySource`)
  and then by the list they go on with (`TwoHopSlice`), in which no target occurs twice.
  `test_two_hop` takes logical ids for physical ones, and the lists are those of the same vertices,
  and exist for all, only where the ids agree (`ListsAgree`). The rows of the table of `avg_degree` are
  disjoint sets of vertices, whose sizes add up (`DisjointCount`, `TableCount`).
* Edge maps (`EdgeMapInv`): one round, sparse or dense, is a walk of the functor along edges
  that leave the frontier (`EdgeMapWalk`), and each of these edges is on it: a dense round passes over the lists of
  vertices whose `cond` is false, along which the functor would do nothing (`NoRow`).
  A walk is given by what all sets closed under its steps contain, so what the functor keeps
  at an edge it keeps along the round, whatever the order of the edges and
  whichever of the two ways the round went. `ParentsLoop`: after `r` rounds of the search the
  vertices at most `r` away have a parent one edge nearer, and the frontier is those `r` away.
  `PathsLoop`: as for Bellman-Ford, and a vertex outside of the frontier has nothing to
  shorten. `LabelsLoop`: a label lies between the least of its component and all
  ids at most `r` edges away, so `g.n` rounds are enough. `ElementsFacts` says that every
  representation of a vertex subset gives each member once, `ConvertFacts` that
  changing it keeps the members.

The forms that skip vertices of degree 0 skip no edge, since a degree is at least the length
of the list (`EdgesFacts`). The sums run over the vertices found in the one case and over the capacity in
the other, and are the same (`TotalSame`).

**Only model-checked.** Liveness (`BatchEnds`, `LoadEnds`) and anything under
fairness: out of the prover's reach. The B-tree (`WellFormed`, `ReadersAgree` and `ImplementsKeySet` of `BTree`, with `BaselineSound` of
`BaselineIngestion`): it is written with recursive
operators over trees, which the prover does not load, and what it claims needs
induction over that data. All other
properties of the runs that pass are theorems. The properties that the violated configurations above check do not hold.

## 5. Plan

Done, in this order: `ParallelInsert`, `EdgeSet`,
`VertexIndex`, `EdgeStore` and `EdgeTree`, `GraphLifecycle`, `BTreeNode` and `BTree`,
`GraphBTree` and `Ingestion`, `EdgeList`, `EdgeMap` and `Analytics`;
`GraphLifecycleProofs`, `VertexIndexProofs`, `ParallelTreeProofs`,
`EdgeTreeProofs`, `IngestionProofs`, `EdgeListProofs`, `AnalyticsProofs` and the
`NumberLemmas` they share. To come:

1. A process crash in `ParallelInsert` with the next process on the same file.
2. The weighted build, where an edge has a value that a second insertion changes.

## 6. What is not modelled

* The builds with `SEQUENTIAL_MEM`, `WEIGHTED`, and power failure with
  `CLWB_SFENCE`/`PERSISTED`: none is the default; the latter are wrappers of
  cache-line instructions.
* Floating point in page rank (exact integers instead), the random choice of query
  vertices (any set of them), benchmark drivers, timers, command lines,
  test programs and data-set scripts: no state of the graph.
* The edge maps on directed graphs with dense rounds, and the vector form of
  `get_adj_edges_l` with `EDGELIST`: see section 3 and `hazards`.
* Deletion by several threads: `delete_edge` has no lock and `apps/config.h`
  turns `NO_CONCURRENT` on.
* Opening and mapping the pool file, mapping and unmapping the edge lists: system
  calls. The pool file is taken to be there, zero at first and long enough.
