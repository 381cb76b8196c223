--------------------------- MODULE ParallelInsert ---------------------------
(***************************************************************************)
(* ntgraph::insert_edge_parallel (src/edge.cc), the insertion that runs in *)
(* several threads when NO_CONCURRENT is not defined, on the tree of one   *)
(* source vertex.                                                          *)
(*                                                                         *)
(* A node has MAX_ENTRY_NUM slots and two bitmaps.  A thread CLAIMS a slot *)
(* by a compare-and-swap on locate_map, fills in edges[] and fgpt[] with   *)
(* plain stores, and PUBLISHES the slot by setting its bit in bitmap.      *)
(* Readers trust the two maps only when they agree.  A full node gets its  *)
(* children once, under the write side of version_lock.                    *)
(*                                                                         *)
(* One action is one access to shared memory: a load, a store, an atomic   *)
(* read-modify-write.  Nodes are numbered in the order in which the pool   *)
(* hands them out; 0 is the root.                                          *)
(***************************************************************************)
EXTENDS Integers, FiniteSets

CONSTANTS
    Threads,        \* the ingestion threads
    MAX_ENTRY_NUM,  \* slots of a node
    BRANCH_BITS,    \* bits of the key that select a child (2 in the code)
    Key,            \* the logical ids of the destination vertices
    HASH_SIZE,      \* the fingerprints there are (256: one byte)
    Calls,          \* how many times each key is to be inserted
    Capacity        \* the nodes the pool has room for

ASSUME ConstantsAssumption ==
    /\ MAX_ENTRY_NUM \in Nat \ {0}
    /\ BRANCH_BITS \in Nat
    /\ Key \subseteq Nat
    /\ HASH_SIZE \in Nat \ {0}
    /\ Calls \in [Key -> Nat]
    /\ Capacity \in Nat

VARIABLES
    locate, bitmap, id, fgpt,           \* per node: the maps and the slots
    version, valid, child, level,       \* per node: lock and children
    next,           \* pmem_pool_cur, counted in nodes
    numNodes,       \* vertex::num_nodes
    degree,         \* vertex::degree
    exited,         \* the process has called exit(1)
    pc, key, cur,   \* per thread: what it does next, dst_index, n
    oldBm, oldVer,  \* per thread: old_bm, old_version
    seen,           \* per thread: slots whose fingerprint matched in find_key
    loaded,         \* per thread: bm of test_and_set_first_zero
    high,           \* per thread: the slot chosen, -1 for none
    mine,           \* per thread: first node of what alloc returned
    calls,          \* the insertions nobody has started yet
    fellThrough     \* history: some call found its edge already there

slotVars == <<locate, bitmap, id, fgpt>>
treeVars == <<version, valid, child, level>>
poolVars == <<next, exited>>
counters == <<numNodes, degree>>
findVars == <<oldBm, oldVer, seen>>
claimVars == <<loaded, high>>
callVars == <<key, calls>>

vars == <<locate, bitmap, id, fgpt, version, valid, child, level, next,
          numNodes, degree, exited, pc, key, cur, oldBm, oldVer, seen,
          loaded, high, mine, calls, fellThrough>>

-----------------------------------------------------------------------------
Slots == 0 .. MAX_ENTRY_NUM - 1
Node == 0 .. next - 1
NUM_BRANCH == 2 ^ BRANCH_BITS   \* get_num_branch
Children(first) == first .. first + NUM_BRANCH - 1
UnlockedVersion == 2            \* what reset_version stores

\* __builtin_ffsll(~bm) - 1: the lowest slot whose bit is clear.
IsFirstZero(i, bm) == i \in Slots \ bm /\ \A j \in Slots : j < i => j \in bm

IsLocked(v) == v % 2 = 1

hashcode(k) == k % HASH_SIZE

\* Mutant: one bit too many.
BranchWide(k, lv) == (k \div 2 ^ (lv * BRANCH_BITS)) % 2 ^ (BRANCH_BITS + 1)

\* index_branch: BRANCH_BITS bits of the key per level of the tree.
get_bits(number, start, num_bits) == (number \div 2 ^ start) % 2 ^ num_bits
Branch(k, lv) == get_bits(k, lv * BRANCH_BITS, BRANCH_BITS)

\* A function over the nodes that exist, extended to the nodes of a new
\* allocation: the pool file is sparse, what was never written reads as zero.
Extended(f, value) ==
    [n \in 0 .. next + NUM_BRANCH - 1 |-> IF n < next THEN f[n] ELSE value]

Goto(t, from, to) == pc[t] = from /\ pc' = [pc EXCEPT ![t] = to]

Init ==
    /\ locate = [n \in {0} |-> {}]
    /\ bitmap = [n \in {0} |-> {}]
    /\ id = [n \in {0} |-> [i \in Slots |-> 0]]
    /\ fgpt = [n \in {0} |-> [i \in Slots |-> 0]]
    /\ version = [n \in {0} |-> UnlockedVersion]
    /\ valid = [n \in {0} |-> FALSE]
    /\ child = [n \in {0} |-> 0]
    /\ level = [n \in {0} |-> 0]
    /\ next = 1
    /\ numNodes = 1
    /\ degree = 0
    /\ exited = FALSE
    /\ pc = [t \in Threads |-> "idle"]
    /\ key = [t \in Threads |-> 0]
    /\ cur = [t \in Threads |-> 0]
    /\ oldBm = [t \in Threads |-> {}]
    /\ oldVer = [t \in Threads |-> 0]
    /\ seen = [t \in Threads |-> {}]
    /\ loaded = [t \in Threads |-> {}]
    /\ high = [t \in Threads |-> -1]
    /\ mine = [t \in Threads |-> 0]
    /\ calls = Calls
    /\ fellThrough = FALSE

-----------------------------------------------------------------------------
(* The call and the search of one node.                                    *)

\* A thread takes its next edge.  Both end points are vertices already; the
\* search starts at the root; high is not initialised by the code.
Begin(t) ==
    /\ Goto(t, "idle", "loadLocate")
    /\ \E k \in Key :
          /\ calls[k] > 0
          /\ calls' = [calls EXCEPT ![k] = @ - 1]
          /\ key' = [key EXCEPT ![t] = k]
    /\ cur' = [cur EXCEPT ![t] = 0]
    /\ high' = [high EXCEPT ![t] = -1]
    /\ UNCHANGED <<slotVars, treeVars, poolVars, counters, findVars, loaded,
                   mine, fellThrough>>

\* old_bm = n->locate_map.to_uint64()
LoadLocate(t) ==
    /\ Goto(t, "loadLocate", "readLock")
    /\ oldBm' = [oldBm EXCEPT ![t] = locate[cur[t]]]
    /\ UNCHANGED <<slotVars, treeVars, poolVars, counters, oldVer, seen,
                   claimVars, mine, callVars, cur, fellThrough>>

\* old_version = n->get_read_lock(): 0 when a writer holds the lock
GetReadLock(t) ==
    /\ Goto(t, "readLock", "compare")
    /\ oldVer' = [oldVer EXCEPT ![t] =
                    IF IsLocked(version[cur[t]]) THEN 0 ELSE version[cur[t]]]
    /\ UNCHANGED <<slotVars, treeVars, poolVars, counters, oldBm, seen,
                   claimVars, mine, callVars, cur, fellThrough>>

\* old_bm == n->bitmap.to_uint64() && old_version != 0, else start again
CompareMaps(t) ==
    /\ IF oldBm[t] = bitmap[cur[t]] /\ oldVer[t] # 0
       THEN Goto(t, "compare", "loadFgpt")
       ELSE Goto(t, "compare", "loadLocate")
    /\ UNCHANGED <<slotVars, treeVars, poolVars, counters, findVars,
                   claimVars, mine, callVars, cur, fellThrough>>

\* find_key: the fingerprints are loaded and compared with the key's ...
LoadFgpt(t) ==
    /\ Goto(t, "loadFgpt", "matchIds")
    /\ seen' = [seen EXCEPT ![t] =
                  {i \in Slots : fgpt[cur[t]][i] = hashcode(key[t])}]
    /\ UNCHANGED <<slotVars, treeVars, poolVars, counters, oldBm, oldVer,
                   claimVars, mine, callVars, cur, fellThrough>>

\* ... then the bitmap is loaded, and the ids under the mask are compared.
Matched(t) ==
    \E i \in seen[t] \cap bitmap[cur[t]] : id[cur[t]][i] = key[t]

\* "the target edge is found": the loop is left and the code below it writes
\* the entry at high, which is the leftover of a failed try_locate_entry or
\* was never assigned: then any slot may be written.
FoundFallsThrough(t) ==
    /\ Goto(t, "matchIds", "storeId")
    /\ Matched(t)
    /\ \E h \in IF high[t] \in Slots THEN {high[t]} ELSE Slots :
          high' = [high EXCEPT ![t] = h]
    /\ fellThrough' = TRUE
    /\ UNCHANGED <<slotVars, treeVars, poolVars, counters, findVars, loaded,
                   mine, callVars, cur>>

NotFound(t) ==
    /\ ~Matched(t)
    /\ IF oldBm[t] = Slots
       THEN Goto(t, "matchIds", "readUnlock")
       ELSE Goto(t, "matchIds", "tryLoad")
    /\ UNCHANGED <<slotVars, treeVars, poolVars, counters, findVars,
                   claimVars, mine, callVars, cur, fellThrough>>

-----------------------------------------------------------------------------
(* Claiming a slot and filling it.                                         *)

\* test_and_set_first_zero, the load: it may see more bits than old_bm has.
\* A full map gives up and leaves -1 in high.
TryLoad(t) ==
    /\ loaded' = [loaded EXCEPT ![t] = locate[cur[t]]]
    /\ \/ /\ locate[cur[t]] = Slots
          /\ Goto(t, "tryLoad", "loadLocate")
          /\ high' = [high EXCEPT ![t] = -1]
       \/ /\ Goto(t, "tryLoad", "tryCas")
          /\ \E i \in Slots :
                /\ IsFirstZero(i, locate[cur[t]])
                /\ high' = [high EXCEPT ![t] = i]
    /\ UNCHANGED <<slotVars, treeVars, poolVars, counters, findVars, mine,
                   callVars, cur, fellThrough>>

\* Mutant: the map that was loaded last is what the compare-and-swap expects
\* (locate_entry in place of try_locate_entry).
TryCasReloaded(t) ==
    /\ IF locate[cur[t]] = loaded[t]
       THEN /\ Goto(t, "tryCas", "storeId")
            /\ locate' = [locate EXCEPT ![cur[t]] = loaded[t] \cup {high[t]}]
       ELSE /\ Goto(t, "tryCas", "loadLocate")
            /\ UNCHANGED locate
    /\ UNCHANGED <<bitmap, id, fgpt, treeVars, poolVars, counters, findVars,
                   claimVars, mine, callVars, cur, fellThrough>>

\* Mutant: a plain store of the new map.
TryCasBlind(t) ==
    /\ Goto(t, "tryCas", "storeId")
    /\ locate' = [locate EXCEPT ![cur[t]] = loaded[t] \cup {high[t]}]
    /\ UNCHANGED <<bitmap, id, fgpt, treeVars, poolVars, counters, findVars,
                   claimVars, mine, callVars, cur, fellThrough>>

\* The compare-and-swap from old_bm to the map loaded plus the slot.
TryCas(t) ==
    /\ IF locate[cur[t]] = oldBm[t]
       THEN /\ Goto(t, "tryCas", "storeId")
            /\ locate' = [locate EXCEPT ![cur[t]] = loaded[t] \cup {high[t]}]
       ELSE /\ Goto(t, "tryCas", "loadLocate")
            /\ UNCHANGED locate
    /\ UNCHANGED <<bitmap, id, fgpt, treeVars, poolVars, counters, findVars,
                   claimVars, mine, callVars, cur, fellThrough>>

StoreId(t) ==
    /\ Goto(t, "storeId", "storeFgpt")
    /\ id' = [id EXCEPT ![cur[t]][high[t]] = key[t]]
    /\ UNCHANGED <<locate, bitmap, fgpt, treeVars, poolVars, counters,
                   findVars, claimVars, mine, callVars, cur, fellThrough>>

StoreFgpt(t) ==
    /\ Goto(t, "storeFgpt", "setEntry")
    /\ fgpt' = [fgpt EXCEPT ![cur[t]][high[t]] = hashcode(key[t])]
    /\ UNCHANGED <<locate, bitmap, id, treeVars, poolVars, counters,
                   findVars, claimVars, mine, callVars, cur, fellThrough>>

\* n->set_entry(high): the entry becomes visible
SetEntry(t) ==
    /\ Goto(t, "setEntry", "addDegree")
    /\ bitmap' = [bitmap EXCEPT ![cur[t]] = @ \cup {high[t]}]
    /\ UNCHANGED <<locate, id, fgpt, treeVars, poolVars, counters, findVars,
                   claimVars, mine, callVars, cur, fellThrough>>

\* vertices[src_index].add_degree(), and the call returns 1
AddDegree(t) ==
    /\ Goto(t, "addDegree", "idle")
    /\ degree' = degree + 1
    /\ UNCHANGED <<slotVars, treeVars, poolVars, numNodes, findVars,
                   claimVars, mine, callVars, cur, fellThrough>>

-----------------------------------------------------------------------------
(* A full node: branch out and go down.                                    *)

\* release_read_lock(old_version): start again if a writer came by
ReadUnlock(t) ==
    /\ IF version[cur[t]] = oldVer[t]
       THEN Goto(t, "readUnlock", "writeLock")
       ELSE Goto(t, "readUnlock", "loadLocate")
    /\ UNCHANGED <<slotVars, treeVars, poolVars, counters, findVars,
                   claimVars, mine, callVars, cur, fellThrough>>

\* branch_out: get_write_lock spins until the version is even
GetWriteLock(t) ==
    /\ Goto(t, "writeLock", "checkValid")
    /\ ~IsLocked(version[cur[t]])
    /\ version' = [version EXCEPT ![cur[t]] = @ + 1]
    /\ UNCHANGED <<slotVars, valid, child, level, poolVars, counters,
                   findVars, claimVars, mine, callVars, cur, fellThrough>>

\* Mutant: is_offset_valid is not looked at again under the lock.
CheckValidNever(t) ==
    /\ Goto(t, "checkValid", "allocCheck")
    /\ UNCHANGED <<slotVars, treeVars, poolVars, counters, findVars,
                   claimVars, mine, callVars, cur, fellThrough>>

\* Mutant: the early return forgets the lock.
CheckValidKeepsLock(t) ==
    /\ IF valid[cur[t]]
       THEN Goto(t, "checkValid", "descend")
       ELSE Goto(t, "checkValid", "allocCheck")
    /\ UNCHANGED <<slotVars, treeVars, poolVars, counters, findVars,
                   claimVars, mine, callVars, cur, fellThrough>>

\* Another thread was first: release the lock, branch_out returns false.
CheckValid(t) ==
    /\ IF valid[cur[t]]
       THEN Goto(t, "checkValid", "unlockLate")
       ELSE Goto(t, "checkValid", "allocCheck")
    /\ UNCHANGED <<slotVars, treeVars, poolVars, counters, findVars,
                   claimVars, mine, callVars, cur, fellThrough>>

\* alloc: the room left is looked at before the mutex is taken
AllocCheck(t) ==
    /\ IF next + NUM_BRANCH <= Capacity
       THEN Goto(t, "allocCheck", "allocBump") /\ UNCHANGED exited
       ELSE Goto(t, "allocCheck", "allocCheck") /\ exited' = TRUE
    /\ UNCHANGED <<slotVars, treeVars, next, counters, findVars,
                   claimVars, mine, callVars, cur, fellThrough>>

\* alloc: under the mutex the cursor moves; the memory is all zero
AllocBump(t) ==
    /\ Goto(t, "allocBump", "link")
    /\ mine' = [mine EXCEPT ![t] = next]
    /\ next' = next + NUM_BRANCH
    /\ locate' = Extended(locate, {})
    /\ bitmap' = Extended(bitmap, {})
    /\ id' = Extended(id, [i \in Slots |-> 0])
    /\ fgpt' = Extended(fgpt, [i \in Slots |-> 0])
    /\ version' = Extended(version, 0)
    /\ valid' = Extended(valid, FALSE)
    /\ child' = Extended(child, 0)
    /\ level' = Extended(level, 0)
    /\ UNCHANGED <<exited, counters, findVars, claimVars, callVars, cur,
                   fellThrough>>

\* Mutant: the children's locks are not reset.
LinkNoReset(t) ==
    /\ Goto(t, "link", "unlockFirst")
    /\ level' = [n \in Node |-> IF n \in Children(mine[t])
                                THEN level[cur[t]] + 1 ELSE level[n]]
    /\ child' = [child EXCEPT ![cur[t]] = mine[t]]
    /\ valid' = [valid EXCEPT ![cur[t]] = TRUE]
    /\ UNCHANGED <<slotVars, version, poolVars, counters, findVars,
                   claimVars, mine, callVars, cur, fellThrough>>

\* The children are initialised, then first_child_offset and is_offset_valid
\* are stored.  All of it is done under the write lock of n, and no thread
\* reads these fields without having held that lock.
Link(t) ==
    /\ Goto(t, "link", "unlockFirst")
    /\ level' = [n \in Node |-> IF n \in Children(mine[t])
                                THEN level[cur[t]] + 1 ELSE level[n]]
    /\ version' = [n \in Node |-> IF n \in Children(mine[t])
                                  THEN UnlockedVersion ELSE version[n]]
    /\ child' = [child EXCEPT ![cur[t]] = mine[t]]
    /\ valid' = [valid EXCEPT ![cur[t]] = TRUE]
    /\ UNCHANGED <<slotVars, poolVars, counters, findVars, claimVars, mine,
                   callVars, cur, fellThrough>>

\* release_write_lock, by the thread that made the children and by the others
ReleaseWriteLock(t) ==
    /\ \/ Goto(t, "unlockFirst", "addNumNodes")
       \/ Goto(t, "unlockLate", "descend")
    /\ version' = [version EXCEPT ![cur[t]] = @ + 1]
    /\ UNCHANGED <<slotVars, valid, child, level, poolVars, counters,
                   findVars, claimVars, mine, callVars, cur, fellThrough>>

\* Mutant: one node is counted for a branch_out.
AddNumNodesOne(t) ==
    /\ Goto(t, "addNumNodes", "descend")
    /\ numNodes' = numNodes + 1
    /\ UNCHANGED <<slotVars, treeVars, poolVars, degree, findVars,
                   claimVars, mine, callVars, cur, fellThrough>>

\* src_vertex->add_num_nodes(get_num_branch()), by the thread that branched
AddNumNodes(t) ==
    /\ Goto(t, "addNumNodes", "descend")
    /\ numNodes' = numNodes + NUM_BRANCH
    /\ UNCHANGED <<slotVars, treeVars, poolVars, degree, findVars,
                   claimVars, mine, callVars, cur, fellThrough>>

\* n = n->index_branch_addr(node_start, dst_index)
Descend(t) ==
    /\ Goto(t, "descend", "loadLocate")
    /\ cur' = [cur EXCEPT ![t] =
                 child[cur[t]] + Branch(key[t], level[cur[t]])]
    /\ UNCHANGED <<slotVars, treeVars, poolVars, counters, findVars,
                   claimVars, mine, callVars, fellThrough>>

-----------------------------------------------------------------------------
AllDone ==
    /\ \A t \in Threads : pc[t] = "idle"
    /\ \A k \in Key : calls[k] = 0

\* The threads are joined, or exit(1) ended the process.
Terminated == (AllDone \/ exited) /\ UNCHANGED vars

ThreadStep(t) ==
    /\ ~exited
    /\ \/ Begin(t) \/ LoadLocate(t) \/ GetReadLock(t) \/ CompareMaps(t)
       \/ LoadFgpt(t) \/ FoundFallsThrough(t) \/ NotFound(t)
       \/ TryLoad(t) \/ TryCas(t)
       \/ StoreId(t) \/ StoreFgpt(t) \/ SetEntry(t) \/ AddDegree(t)
       \/ ReadUnlock(t) \/ GetWriteLock(t) \/ CheckValid(t)
       \/ AllocCheck(t) \/ AllocBump(t) \/ Link(t) \/ ReleaseWriteLock(t)
       \/ AddNumNodes(t) \/ Descend(t)

Next == (\E t \in Threads : ThreadStep(t)) \/ Terminated

Spec == Init /\ [][Next]_vars
FairSpec == Spec /\ \A t \in Threads : WF_vars(ThreadStep(t))

-----------------------------------------------------------------------------
(* Properties.  A call that finds its edge already stored (fellThrough)    *)
(* goes on to write a slot it does not own; the invariants say what holds  *)
(* as long as no call has done so.                                         *)

PC == {"idle", "loadLocate", "readLock", "compare", "loadFgpt", "matchIds",
       "tryLoad", "tryCas", "storeId", "storeFgpt", "setEntry", "addDegree",
       "readUnlock", "writeLock", "checkValid", "allocCheck", "allocBump",
       "link", "unlockFirst", "unlockLate", "addNumNodes", "descend"}

\* The types of the shared and the local variables of insert_edge_parallel.
TypeOK ==
    /\ next \in Nat \ {0}
    /\ locate \in [Node -> SUBSET Slots]
    /\ bitmap \in [Node -> SUBSET Slots]
    /\ id \in [Node -> [Slots -> Nat]]
    /\ fgpt \in [Node -> [Slots -> Nat]]
    /\ version \in [Node -> Nat]
    /\ valid \in [Node -> BOOLEAN]
    /\ child \in [Node -> Nat]
    /\ level \in [Node -> Nat]
    /\ numNodes \in Nat
    /\ degree \in Nat
    /\ exited \in BOOLEAN
    /\ pc \in [Threads -> PC]
    /\ key \in [Threads -> Nat]
    /\ cur \in [Threads -> Node]
    /\ oldBm \in [Threads -> SUBSET Slots]
    /\ oldVer \in [Threads -> Nat]
    /\ seen \in [Threads -> SUBSET Slots]
    /\ loaded \in [Threads -> SUBSET Slots]
    /\ high \in [Threads -> Slots \cup {-1}]
    /\ mine \in [Threads -> Nat]
    /\ calls \in [Key -> Nat]
    /\ fellThrough \in BOOLEAN

\* Between a successful compare-and-swap and set_entry a thread owns a slot.
Writing(t) == pc[t] \in {"storeId", "storeFgpt", "setEntry"}

\* Inside branch_out, between get_write_lock and release_write_lock.
InBranchOut(t) == pc[t] \in {"checkValid", "allocCheck", "allocBump", "link",
                             "unlockFirst", "unlockLate"}

\* A node has at most one slot that is claimed and not yet published, and one
\* thread that writes it: a claim from a map that agreed with bitmap succeeds
\* only after every earlier claim has been published (insert_edge_parallel,
\* try_locate_entry, set_entry).  So both maps are prefixes of the slots.
IsPrefix(bm) == \A i \in bm : 0 .. i \subseteq bm

OneWriterPerNode ==
    ~fellThrough =>
    /\ \A n \in Node : bitmap[n] \subseteq locate[n]
    /\ \A n \in Node : IsPrefix(locate[n]) /\ IsPrefix(bitmap[n])
    /\ \A n \in Node : \A i \in locate[n] \ bitmap[n] :
          \E t \in Threads : Writing(t) /\ cur[t] = n /\ high[t] = i
    /\ \A t \in Threads :
          Writing(t) => high[t] \in locate[cur[t]] \ bitmap[cur[t]]
    /\ \A t, u \in Threads :
          Writing(t) /\ Writing(u) /\ cur[t] = cur[u] => t = u

\* The nodes a search for k visits, following the children.
OnPath(k) ==
    LET visited[n \in Node] ==
           \/ n = 0
           \/ \E m \in 0 .. n - 1 :
                 /\ valid[m]
                 /\ n = child[m] + Branch(k, level[m])
                 /\ visited[m]
    IN  {n \in Node : visited[n]}

Stores(n, i, k) ==
    i \in bitmap[n] /\ id[n][i] = k /\ fgpt[n][i] = hashcode(k)

\* find_edge_t returns 1
Found(k) == \E n \in OnPath(k) : \E i \in Slots : Stores(n, i, k)

\* Whatever bitmap shows is complete: the fingerprint is the one of the id
\* and the node is one that a search for the id visits, although id,
\* fingerprint and bit are three stores.
PublishedFindable ==
    ~fellThrough =>
       \A n \in Node : \A i \in bitmap[n] :
          Stores(n, i, id[n][i]) /\ n \in OnPath(id[n][i])

\* Concurrent calls for one edge never both insert it: a key is being written
\* by one thread only, is not published before, and is published once.  The
\* compare-and-swap from the map that was searched is what makes it so.
ClaimedOnce ==
    ~fellThrough =>
    /\ \A t, u \in Threads :
          t # u /\ Writing(t) /\ Writing(u) => key[t] # key[u]
    /\ \A n \in Node : \A i \in bitmap[n] :
          /\ \A t \in Threads : Writing(t) => id[n][i] # key[t]
          /\ \A m \in Node : \A j \in bitmap[m] :
                id[n][i] = id[m][j] => n = m /\ i = j

\* version_lock is odd exactly while one thread is in branch_out of the node.
BranchOutExclusive ==
    \A n \in Node :
       LET inside == {t \in Threads : InBranchOut(t) /\ cur[t] = n}
       IN  IF IsLocked(version[n]) THEN \E t \in inside : inside = {t}
                                   ELSE inside = {}

\* A node gets its children once, when it is full, and nobody else's: the
\* children of two nodes are apart, and are one level down with a free lock
\* that find and insert accept (0 would read as locked for ever).
ChildrenApart ==
    \A n \in Node : valid[n] =>
       /\ bitmap[n] = Slots
       /\ \A c \in Children(child[n]) :
             c \in Node /\ level[c] = level[n] + 1 /\ version[c] >= UnlockedVersion
       /\ \A m \in Node : valid[m] /\ m # n =>
             Children(child[n]) \cap Children(child[m]) = {}

\* With nobody in a call: num_nodes is what the traversals size their queue
\* with and must be the nodes of the tree, the tree has every node that was
\* allocated, and degree is the number of edges published.
Published == {p \in Node \X Slots : p[2] \in bitmap[p[1]]}

CountersExact ==
    AllDone /\ ~fellThrough =>
    /\ numNodes = next
    /\ numNodes = 1 + NUM_BRANCH * Cardinality({n \in Node : valid[n]})
    /\ degree = Cardinality(Published)
    /\ locate = bitmap

\* check_one_ingestion: after the batch every edge of it is found
\* (assert(i == 1), apps/ingestion.h:34).
IngestedFound == AllDone => \A k \in Key : Calls[k] > 0 => Found(k)

\* alloc never hands out memory past pmem_pool_end: it says "run out of
\* memory" instead (pmem_pool_manage.h:178-200).
WithinPool == next <= Capacity \/ next = 1

\* What is published stays: no step clears a bit or changes an entry a
\* reader may be looking at.
PublishedStays ==
    [][ ~fellThrough' =>
          \A n \in Node : \A i \in bitmap[n] :
             /\ i \in bitmap'[n]
             /\ id'[n][i] = id[n][i]
             /\ fgpt'[n][i] = fgpt[n][i] ]_vars

\* The tree under its bitmaps and its lock is a set of edges: an insertion is
\* its set_entry, and the degree lags behind by the calls about to return.
Edges == INSTANCE EdgeSet WITH
            edges <- {k \in Key : Found(k)},
            waiting <- {key[t] : t \in {u \in Threads :
                                          pc[u] \notin {"idle", "addDegree"}}},
            returned <- degree

ImplementsEdgeSet == Edges!Spec

\* The batch ends: retries, the spin on the write lock and the wait for
\* another thread's entry do not go on for ever.
BatchEnds == <>(AllDone \/ exited)
=============================================================================
