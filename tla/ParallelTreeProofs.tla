------------------------- MODULE ParallelTreeProofs -------------------------
(***************************************************************************)
(* Proofs about ParallelInsert, for any number of threads, slots, branches *)
(* and keys and for any calls: the types, the one writer of a node, and    *)
(* the tree that insert_edge_parallel builds, with the write side of       *)
(* version_lock, the children of full nodes, the counters and what readers *)
(* have been shown; then the way down the tree: what is published is where *)
(* find_edge_t looks for it, and no key is inserted twice.  For batches in *)
(* which every edge occurs once it follows that insert_edge_parallel       *)
(* implements a set of edges.                                              *)
(***************************************************************************)
EXTENDS ParallelInsert, NumberLemmas, FiniteSetTheorems, FunctionTheorems, TLAPS

-----------------------------------------------------------------------------
(* Types, and the one writer of a node.                                    *)

\* What the types need to be preserved: children are inside the pool's nodes,
\* a thread goes down from a node that has children, and it writes a slot it
\* has chosen.
ShapeInv ==
    /\ \A n \in Node : valid[n] => child[n] + NUM_BRANCH <= next
    /\ \A t \in Threads :
          /\ pc[t] \in {"unlockFirst", "unlockLate", "addNumNodes", "descend"}
                => valid[cur[t]]
          /\ pc[t] = "link" => mine[t] + NUM_BRANCH <= next
          /\ pc[t] \in {"tryCas", "storeId", "storeFgpt", "setEntry"}
                => high[t] \in Slots

TypeInv == TypeOK /\ ShapeInv

LEMMA NumBranchType == NUM_BRANCH \in Nat \ {0}
  BY PowerOfTwo, ConstantsAssumption DEF NUM_BRANCH

\* index_branch yields one of the NUM_BRANCH children.
LEMMA BranchInRange ==
    ASSUME NEW k \in Nat, NEW lv \in Nat
    PROVE  Branch(k, lv) \in 0 .. NUM_BRANCH - 1
  <1>1. lv * BRANCH_BITS \in Nat
    BY ConstantsAssumption
  <1>2. 2 ^ (lv * BRANCH_BITS) \in Nat \ {0}
    BY <1>1, PowerOfTwo
  <1>3. k \div 2 ^ (lv * BRANCH_BITS) \in Nat
    BY <1>2
  <1> QED
    BY <1>3, NumBranchType DEF Branch, get_bits, NUM_BRANCH

\* The initial state has the types.
LEMMA TypeInit == Init => TypeInv
  <1> SUFFICES ASSUME Init PROVE TypeInv
    OBVIOUS
  <1>1. Node = {0}
    BY DEF Init, Node
  <1>2. /\ id \in [Node -> [Slots -> Nat]]
        /\ fgpt \in [Node -> [Slots -> Nat]]
    BY <1>1 DEF Init
  <1>3. /\ locate \in [Node -> SUBSET Slots]
        /\ bitmap \in [Node -> SUBSET Slots]
        /\ version \in [Node -> Nat]
        /\ valid \in [Node -> BOOLEAN]
        /\ child \in [Node -> Nat]
        /\ level \in [Node -> Nat]
    BY <1>1 DEF Init, UnlockedVersion
  <1>4. next \in Nat \ {0} /\ numNodes \in Nat /\ degree \in Nat
    BY DEF Init
  <1>9. exited \in BOOLEAN /\ fellThrough \in BOOLEAN
    BY Zenon DEF Init
  <1>8. calls \in [Key -> Nat]
    BY ConstantsAssumption, Zenon DEF Init
  <1>5. /\ pc \in [Threads -> PC]
        /\ key \in [Threads -> Nat]
        /\ cur \in [Threads -> Node]
        /\ oldBm \in [Threads -> SUBSET Slots]
        /\ oldVer \in [Threads -> Nat]
        /\ seen \in [Threads -> SUBSET Slots]
        /\ loaded \in [Threads -> SUBSET Slots]
        /\ high \in [Threads -> Slots \cup {-1}]
        /\ mine \in [Threads -> Nat]
    BY <1>1 DEF Init, PC
  <1>6. TypeOK
    BY <1>2, <1>3, <1>4, <1>5, <1>8, <1>9 DEF TypeOK
  <1>7. ShapeInv
    BY <1>1 DEF Init, ShapeInv
  <1> QED
    BY <1>6, <1>7 DEF TypeInv

\* A function over the nodes stays one when the pool hands out more nodes.
LEMMA ExtendedType ==
    ASSUME NEW S, NEW f \in [Node -> S], NEW v \in S, next \in Nat
    PROVE  Extended(f, v) \in [0 .. next + NUM_BRANCH - 1 -> S]
  BY NumBranchType DEF Extended, Node

LEMMA ExtendedValue ==
    ASSUME NEW f, NEW v, next \in Nat
    PROVE  /\ \A n \in Node : Extended(f, v)[n] = f[n]
           /\ \A n \in next .. next + NUM_BRANCH - 1 : Extended(f, v)[n] = v
  BY NumBranchType DEF Extended, Node

\* Every step of a thread keeps the types.
LEMMA TypeOKStep ==
    ASSUME TypeInv, NEW t \in Threads, ThreadStep(t)
    PROVE  TypeOK'
  <1> USE DEF TypeInv, TypeOK, ShapeInv, Goto, PC, slotVars, treeVars,
              poolVars, counters,
        findVars, claimVars, callVars
  <1>1. CASE Begin(t)
    <2>1. Node' = Node
      BY <1>1 DEF Begin, Node
    <2>2. key' \in [Threads -> Nat] /\ calls' \in [Key -> Nat]
      BY <1>1, ConstantsAssumption DEF Begin
    <2>3. cur' \in [Threads -> Node] /\ high' \in [Threads -> Slots \cup {-1}]
      BY <1>1 DEF Begin, Node
    <2> QED
      BY <1>1, <2>1, <2>2, <2>3 DEF Begin
  <1>2. CASE LoadLocate(t)
    <2>1. Node' = Node
      BY <1>2 DEF LoadLocate, Node
    <2> QED
      BY <1>2, <2>1 DEF LoadLocate
  <1>3. CASE GetReadLock(t)
    <2>1. Node' = Node
      BY <1>3 DEF GetReadLock, Node
    <2> QED
      BY <1>3, <2>1 DEF GetReadLock
  <1>4. CASE CompareMaps(t)
    <2>1. Node' = Node
      BY <1>4 DEF CompareMaps, Node
    <2> QED
      BY <1>4, <2>1 DEF CompareMaps
  <1>5. CASE LoadFgpt(t)
    <2>1. Node' = Node
      BY <1>5 DEF LoadFgpt, Node
    <2> QED
      BY <1>5, <2>1, ConstantsAssumption DEF LoadFgpt
  <1>6. CASE FoundFallsThrough(t)
    <2>1. Node' = Node
      BY <1>6 DEF FoundFallsThrough, Node
    <2> QED
      BY <1>6, <2>1 DEF FoundFallsThrough
  <1>7. CASE NotFound(t)
    <2>1. Node' = Node
      BY <1>7 DEF NotFound, Node
    <2> QED
      BY <1>7, <2>1 DEF NotFound
  <1>8. CASE TryLoad(t)
    <2>1. Node' = Node
      BY <1>8 DEF TryLoad, Node
    <2>2. PICK i \in Slots \cup {-1}, q \in PC :
             high' = [high EXCEPT ![t] = i] /\ pc' = [pc EXCEPT ![t] = q]
      BY <1>8 DEF TryLoad
    <2>3. high' \in [Threads -> Slots \cup {-1}] /\ pc' \in [Threads -> PC]
      BY <2>2
    <2>4. loaded' \in [Threads -> SUBSET Slots]
      BY <1>8 DEF TryLoad
    <2> QED
      BY <1>8, <2>1, <2>3, <2>4 DEF TryLoad
  <1>9. CASE TryCas(t)
    <2>1. Node' = Node
      BY <1>9 DEF TryCas, Node
    <2>2. high[t] \in Slots
      BY <1>9 DEF TryCas
    <2>3. loaded[t] \cup {high[t]} \in SUBSET Slots
      BY <2>2
    <2>4. CASE locate[cur[t]] = oldBm[t]
      <3>1. locate' \in [Node -> SUBSET Slots]
        BY <1>9, <2>3, <2>4 DEF TryCas
      <3>2. pc' \in [Threads -> PC]
        BY <1>9, <2>4 DEF TryCas
      <3> QED
        BY <1>9, <2>1, <3>1, <3>2 DEF TryCas
    <2>5. CASE locate[cur[t]] # oldBm[t]
      BY <1>9, <2>1, <2>5 DEF TryCas
    <2> QED
      BY <2>4, <2>5
  <1>10. CASE StoreId(t)
    <2>1. Node' = Node
      BY <1>10 DEF StoreId, Node
    <2> QED
      BY <1>10, <2>1 DEF StoreId
  <1>11. CASE StoreFgpt(t)
    <2>1. Node' = Node
      BY <1>11 DEF StoreFgpt, Node
    <2>2. hashcode(key[t]) \in Nat
      BY ConstantsAssumption DEF hashcode
    <2>3. fgpt' \in [Node -> [Slots -> Nat]]
      BY <1>11, <2>2 DEF StoreFgpt
    <2> QED
      BY <1>11, <2>1, <2>3 DEF StoreFgpt
  <1>12. CASE SetEntry(t)
    <2>1. Node' = Node
      BY <1>12 DEF SetEntry, Node
    <2> QED
      BY <1>12, <2>1 DEF SetEntry
  <1>13. CASE AddDegree(t)
    <2>1. Node' = Node
      BY <1>13 DEF AddDegree, Node
    <2> QED
      BY <1>13, <2>1 DEF AddDegree
  <1>14. CASE ReadUnlock(t)
    <2>1. Node' = Node
      BY <1>14 DEF ReadUnlock, Node
    <2> QED
      BY <1>14, <2>1 DEF ReadUnlock
  <1>15. CASE GetWriteLock(t)
    <2>1. Node' = Node
      BY <1>15 DEF GetWriteLock, Node
    <2> QED
      BY <1>15, <2>1 DEF GetWriteLock
  <1>16. CASE CheckValid(t)
    <2>1. Node' = Node
      BY <1>16 DEF CheckValid, Node
    <2> QED
      BY <1>16, <2>1 DEF CheckValid
  <1>17. CASE AllocCheck(t)
    <2>1. Node' = Node
      BY <1>17 DEF AllocCheck, Node
    <2> QED
      BY <1>17, <2>1 DEF AllocCheck
  <1>18. CASE AllocBump(t)
    <2>1. Node' = 0 .. next + NUM_BRANCH - 1 /\ Node \subseteq Node'
      BY <1>18, NumBranchType DEF AllocBump, Node
    <2>2. /\ locate' \in [Node' -> SUBSET Slots]
          /\ bitmap' \in [Node' -> SUBSET Slots]
      BY <1>18, <2>1, ExtendedType DEF AllocBump
    <2>3. [i \in Slots |-> 0] \in [Slots -> Nat]
      OBVIOUS
    <2>4. /\ id' \in [Node' -> [Slots -> Nat]]
          /\ fgpt' \in [Node' -> [Slots -> Nat]]
      BY <1>18, <2>1, <2>3, ExtendedType DEF AllocBump
    <2>5. /\ version' \in [Node' -> Nat]
          /\ child' \in [Node' -> Nat]
          /\ level' \in [Node' -> Nat]
      BY <1>18, <2>1, ExtendedType DEF AllocBump
    <2>6. valid' \in [Node' -> BOOLEAN]
      BY <1>18, <2>1, ExtendedType DEF AllocBump
    <2>7. cur' \in [Threads -> Node']
      BY <1>18, <2>1 DEF AllocBump
    <2>8. /\ next' \in Nat \ {0}
          /\ mine' \in [Threads -> Nat]
          /\ pc' \in [Threads -> PC]
      BY <1>18, NumBranchType DEF AllocBump
    <2> QED
      BY <1>18, <2>2, <2>4, <2>5, <2>6, <2>7, <2>8 DEF AllocBump
  <1>19. CASE Link(t)
    <2>1. Node' = Node
      BY <1>19 DEF Link, Node
    <2>2. level' \in [Node -> Nat] /\ version' \in [Node -> Nat]
      BY <1>19 DEF Link, UnlockedVersion
    <2>3. child' \in [Node -> Nat] /\ valid' \in [Node -> BOOLEAN]
      BY <1>19 DEF Link
    <2> QED
      BY <1>19, <2>1, <2>2, <2>3 DEF Link
  <1>20. CASE ReleaseWriteLock(t)
    <2>1. Node' = Node
      BY <1>20 DEF ReleaseWriteLock, Node
    <2>2. PICK q \in PC : pc' = [pc EXCEPT ![t] = q]
      BY <1>20 DEF ReleaseWriteLock
    <2>3. version' \in [Node -> Nat] /\ pc' \in [Threads -> PC]
      BY <1>20, <2>2 DEF ReleaseWriteLock
    <2> QED
      BY <1>20, <2>1, <2>3 DEF ReleaseWriteLock
  <1>21. CASE AddNumNodes(t)
    <2>1. Node' = Node
      BY <1>21 DEF AddNumNodes, Node
    <2> QED
      BY <1>21, <2>1, NumBranchType DEF AddNumNodes
  <1>22. CASE Descend(t)
    <2>1. Node' = Node
      BY <1>22 DEF Descend, Node
    <2>2. valid[cur[t]] /\ child[cur[t]] + NUM_BRANCH <= next
      BY <1>22 DEF Descend
    <2>3. Branch(key[t], level[cur[t]]) \in 0 .. NUM_BRANCH - 1
      BY BranchInRange
    <2>4. child[cur[t]] \in Nat /\ next \in Nat
      OBVIOUS
    <2>6. child[cur[t]] + Branch(key[t], level[cur[t]]) \in 0 .. next - 1
      BY ONLY <2>2, <2>3, <2>4, NumBranchType
    <2>5. cur' \in [Threads -> Node]
      BY <1>22, <2>6 DEF Descend, Node
    <2> QED
      BY <1>22, <2>1, <2>5 DEF Descend
  <1> QED
    BY <1>1, <1>2, <1>3, <1>4, <1>5, <1>6, <1>7, <1>8, <1>9, <1>10, <1>11,
       <1>12, <1>13, <1>14, <1>15, <1>16, <1>17, <1>18, <1>19, <1>20, <1>21,
       <1>22
    DEF ThreadStep

\* Every step of a thread keeps the shape.
LEMMA ShapeStep ==
    ASSUME TypeInv, NEW t \in Threads, ThreadStep(t)
    PROVE  ShapeInv'
  <1> USE DEF TypeInv, TypeOK, ShapeInv, Goto, slotVars, treeVars, poolVars,
              counters,
        findVars, claimVars, callVars
  <1>1. CASE Begin(t)
    <2>1. Node' = Node
      BY <1>1 DEF Begin, Node
    <2> QED
      BY <1>1, <2>1, ConstantsAssumption DEF Begin
  <1>2. CASE LoadLocate(t)
    <2>1. Node' = Node
      BY <1>2 DEF LoadLocate, Node
    <2> QED
      BY <1>2, <2>1 DEF LoadLocate
  <1>3. CASE GetReadLock(t)
    <2>1. Node' = Node
      BY <1>3 DEF GetReadLock, Node
    <2> QED
      BY <1>3, <2>1 DEF GetReadLock
  <1>4. CASE CompareMaps(t)
    <2>1. Node' = Node
      BY <1>4 DEF CompareMaps, Node
    <2> QED
      BY <1>4, <2>1 DEF CompareMaps
  <1>5. CASE LoadFgpt(t)
    <2>1. Node' = Node
      BY <1>5 DEF LoadFgpt, Node
    <2> QED
      BY <1>5, <2>1, ConstantsAssumption DEF LoadFgpt
  <1>6. CASE FoundFallsThrough(t)
    <2>1. Node' = Node
      BY <1>6 DEF FoundFallsThrough, Node
    <2> QED
      BY <1>6, <2>1 DEF FoundFallsThrough
  <1>7. CASE NotFound(t)
    <2>1. Node' = Node
      BY <1>7 DEF NotFound, Node
    <2> QED
      BY <1>7, <2>1 DEF NotFound
  <1>8. CASE TryLoad(t)
    <2>1. Node' = Node
      BY <1>8 DEF TryLoad, Node
    <2> QED
      BY <1>8, <2>1 DEF TryLoad, IsFirstZero
  <1>9. CASE TryCas(t)
    <2>1. Node' = Node
      BY <1>9 DEF TryCas, Node
    <2> QED
      BY <1>9, <2>1 DEF TryCas
  <1>10. CASE StoreId(t)
    <2>1. Node' = Node
      BY <1>10 DEF StoreId, Node
    <2> QED
      BY <1>10, <2>1 DEF StoreId
  <1>11. CASE StoreFgpt(t)
    <2>1. Node' = Node
      BY <1>11 DEF StoreFgpt, Node
    <2> QED
      BY <1>11, <2>1, ConstantsAssumption DEF StoreFgpt
  <1>12. CASE SetEntry(t)
    <2>1. Node' = Node
      BY <1>12 DEF SetEntry, Node
    <2> QED
      BY <1>12, <2>1 DEF SetEntry
  <1>13. CASE AddDegree(t)
    <2>1. Node' = Node
      BY <1>13 DEF AddDegree, Node
    <2> QED
      BY <1>13, <2>1 DEF AddDegree
  <1>14. CASE ReadUnlock(t)
    <2>1. Node' = Node
      BY <1>14 DEF ReadUnlock, Node
    <2> QED
      BY <1>14, <2>1 DEF ReadUnlock
  <1>15. CASE GetWriteLock(t)
    <2>1. Node' = Node
      BY <1>15 DEF GetWriteLock, Node
    <2> QED
      BY <1>15, <2>1 DEF GetWriteLock
  <1>16. CASE CheckValid(t)
    <2>1. Node' = Node
      BY <1>16 DEF CheckValid, Node
    <2> QED
      BY <1>16, <2>1 DEF CheckValid
  <1>17. CASE AllocCheck(t)
    <2>1. Node' = Node
      BY <1>17 DEF AllocCheck, Node
    <2> QED
      BY <1>17, <2>1 DEF AllocCheck
  <1>18. CASE AllocBump(t)
    <2>1. /\ \A n \in Node : valid'[n] = valid[n] /\ child'[n] = child[n]
          /\ \A n \in Node' \ Node : valid'[n] = FALSE
      <3>1. /\ valid' = Extended(valid, FALSE)
            /\ child' = Extended(child, 0)
            /\ Node' \ Node \subseteq next .. next + NUM_BRANCH - 1
        BY <1>18, NumBranchType DEF AllocBump, Node
      <3>0. next \in Nat
        OBVIOUS
      <3>5. /\ \A n \in Node : Extended(valid, FALSE)[n] = valid[n]
            /\ \A n \in next .. next + NUM_BRANCH - 1 :
                  Extended(valid, FALSE)[n] = FALSE
        BY ONLY <3>0, ExtendedValue
      <3>2. \A n \in Node : valid'[n] = valid[n]
        BY ONLY <3>1, <3>5
      <3>4. \A n \in Node' \ Node : valid'[n] = FALSE
        BY ONLY <3>1, <3>5
      <3>3. \A n \in Node : child'[n] = child[n]
        BY <3>1, ExtendedValue
      <3> QED
        BY <3>2, <3>3, <3>4
    <2>2. next' = next + NUM_BRANCH /\ mine' = [mine EXCEPT ![t] = next]
      BY <1>18 DEF AllocBump
    <2>3. \A n \in Node' : valid'[n] => child'[n] + NUM_BRANCH <= next'
      BY <2>1, <2>2, NumBranchType
    <2>4. \A u \in Threads : cur'[u] = cur[u] /\ cur[u] \in Node /\ high'[u] = high[u]
      BY <1>18 DEF AllocBump
    <2>5. \A u \in Threads : u # t => pc'[u] = pc[u] /\ mine'[u] = mine[u]
      BY <1>18 DEF AllocBump
    <2>6. pc'[t] = "link" /\ mine'[t] = next
      BY <1>18 DEF AllocBump
    <2> QED
      BY <2>1, <2>2, <2>3, <2>4, <2>5, <2>6, NumBranchType
  <1>19. CASE Link(t)
    <2>1. Node' = Node
      BY <1>19 DEF Link, Node
    <2>2. /\ valid' = [valid EXCEPT ![cur[t]] = TRUE]
          /\ child' = [child EXCEPT ![cur[t]] = mine[t]]
          /\ mine[t] + NUM_BRANCH <= next
      BY <1>19 DEF Link
    <2>3. \A n \in Node : valid'[n] => child'[n] + NUM_BRANCH <= next
      BY <2>2
    <2> QED
      BY <1>19, <2>1, <2>2, <2>3 DEF Link
  <1>20. CASE ReleaseWriteLock(t)
    <2>1. Node' = Node
      BY <1>20 DEF ReleaseWriteLock, Node
    <2> QED
      BY <1>20, <2>1 DEF ReleaseWriteLock
  <1>21. CASE AddNumNodes(t)
    <2>1. Node' = Node
      BY <1>21 DEF AddNumNodes, Node
    <2> QED
      BY <1>21, <2>1, NumBranchType DEF AddNumNodes
  <1>22. CASE Descend(t)
    BY <1>22, BranchInRange, NumBranchType DEF Descend, Node
  <1> QED
    BY <1>1, <1>2, <1>3, <1>4, <1>5, <1>6, <1>7, <1>8, <1>9, <1>10, <1>11,
       <1>12, <1>13, <1>14, <1>15, <1>16, <1>17, <1>18, <1>19, <1>20, <1>21,
       <1>22
    DEF ThreadStep


\* TypeInv is an invariant.
LEMMA TypeInvariant == Spec => []TypeInv
  <1>1. TypeInv /\ [Next]_vars => TypeInv'
    <2> SUFFICES ASSUME TypeInv, [Next]_vars PROVE TypeInv'
      OBVIOUS
    <2>1. ASSUME NEW t \in Threads, ThreadStep(t) PROVE TypeInv'
      BY <2>1, TypeOKStep, ShapeStep DEF TypeInv
    <2>2. CASE UNCHANGED vars
      BY <2>2 DEF vars, TypeInv, TypeOK, ShapeInv, Node
    <2> QED
      BY <2>1, <2>2 DEF Next, Terminated
  <1> QED
    BY <1>1, TypeInit, PTL DEF Spec

\* Type correctness of insert_edge_parallel: in particular a thread never
\* leaves the nodes the pool has handed out and writes only slots of a node.
THEOREM TypeCorrect == Spec => []TypeOK
  BY TypeInvariant, PTL DEF TypeInv

-----------------------------------------------------------------------------
(* One writer per node.                                                    *)

\* What a thread knows of the maps of its node: since it has seen them agree
\* bits were only added, and what it loaded again lies between the map it
\* searched and the map as it is.
SearchInv(t) ==
    /\ pc[t] \in {"loadFgpt", "matchIds", "tryLoad", "tryCas"}
          => oldBm[t] \subseteq bitmap[cur[t]]
    /\ pc[t] = "tryCas"
          => /\ oldBm[t] \subseteq loaded[t]
             /\ loaded[t] \subseteq locate[cur[t]]
             /\ IsFirstZero(high[t], loaded[t])

ClaimInv ==
    /\ OneWriterPerNode
    /\ ~fellThrough => \A t \in Threads : SearchInv(t)

LEMMA ClaimInit == Init => ClaimInv
  BY DEF Init, ClaimInv, OneWriterPerNode, SearchInv, Node, IsPrefix, Writing

\* A step of t that leaves the maps alone and neither makes t a writer nor
\* ends its writing keeps the ownership of the slots.
LEMMA OwnersFrame ==
    ASSUME TypeInv, OneWriterPerNode, NEW t \in Threads,
           locate' = locate, bitmap' = bitmap, next' = next,
           fellThrough' = fellThrough,
           \A u \in Threads \ {t} : /\ pc'[u] = pc[u]
                                    /\ cur'[u] = cur[u]
                                    /\ high'[u] = high[u],
           \/ ~Writing(t) /\ ~Writing(t)'
           \/ /\ Writing(t) /\ Writing(t)'
              /\ cur'[t] = cur[t] /\ high'[t] = high[t]
    PROVE  OneWriterPerNode'
  <1>1. Node' = Node
    BY DEF Node
  <1>2. \A u \in Threads :
           /\ Writing(u)' <=> Writing(u)
           /\ Writing(u) => cur'[u] = cur[u] /\ high'[u] = high[u]
    BY DEF Writing
  <1> QED
    BY <1>1, <1>2 DEF OneWriterPerNode, IsPrefix

\* A step that adds no bit, or only adds bits, keeps what the others know.
LEMMA SearchFrame ==
    ASSUME TypeInv, NEW u \in Threads, SearchInv(u),
           bitmap[cur[u]] \subseteq bitmap'[cur[u]],
           locate[cur[u]] \subseteq locate'[cur[u]],
           pc'[u] = pc[u], cur'[u] = cur[u], oldBm'[u] = oldBm[u],
           loaded'[u] = loaded[u], high'[u] = high[u]
    PROVE  SearchInv(u)'
  BY DEF SearchInv, IsFirstZero, Slots

\* Every step of a thread keeps ClaimInv.
LEMMA ClaimStep ==
    ASSUME TypeInv, ClaimInv, NEW t \in Threads, ThreadStep(t)
    PROVE  ClaimInv'
  <1> USE DEF Goto, slotVars, treeVars, poolVars, counters, findVars,
        claimVars, callVars
  <1> SUFFICES ASSUME ~fellThrough' PROVE ClaimInv'
    BY DEF ClaimInv, OneWriterPerNode
  <1>a. ~fellThrough
    BY DEF ThreadStep, Begin, LoadLocate, GetReadLock, CompareMaps, LoadFgpt,
      FoundFallsThrough, NotFound, TryLoad, TryCas, StoreId, StoreFgpt,
      SetEntry, AddDegree, ReadUnlock, GetWriteLock, CheckValid, AllocCheck,
      AllocBump, Link, ReleaseWriteLock, AddNumNodes, Descend
  <1>0. \A u \in Threads : SearchInv(u)
    BY <1>a DEF ClaimInv
  <1>1. CASE Begin(t)
    <2>1. OneWriterPerNode'
      BY <1>1, OwnersFrame DEF ClaimInv, TypeInv, TypeOK, Begin, Writing
    <2>2. \A u \in Threads \ {t} : SearchInv(u)'
      BY <1>1, <1>0, SearchFrame DEF TypeInv, TypeOK, Begin
    <2>3. SearchInv(t)'
      BY <1>1, <1>0 DEF TypeInv, TypeOK, Begin, SearchInv
    <2> QED
      BY <2>1, <2>2, <2>3 DEF ClaimInv
  <1>2. CASE LoadLocate(t)
    <2>1. OneWriterPerNode'
      BY <1>2, OwnersFrame DEF ClaimInv, TypeInv, TypeOK, LoadLocate, Writing
    <2>2. \A u \in Threads \ {t} : SearchInv(u)'
      BY <1>2, <1>0, SearchFrame DEF TypeInv, TypeOK, LoadLocate
    <2>3. SearchInv(t)'
      BY <1>2, <1>0 DEF TypeInv, TypeOK, LoadLocate, SearchInv
    <2> QED
      BY <2>1, <2>2, <2>3 DEF ClaimInv
  <1>3. CASE GetReadLock(t)
    <2>1. OneWriterPerNode'
      BY <1>3, OwnersFrame DEF ClaimInv, TypeInv, TypeOK, GetReadLock, Writing
    <2>2. \A u \in Threads \ {t} : SearchInv(u)'
      BY <1>3, <1>0, SearchFrame DEF TypeInv, TypeOK, GetReadLock
    <2>3. SearchInv(t)'
      BY <1>3, <1>0 DEF TypeInv, TypeOK, GetReadLock, SearchInv
    <2> QED
      BY <2>1, <2>2, <2>3 DEF ClaimInv
  <1>4. CASE CompareMaps(t)
    <2>1. OneWriterPerNode'
      BY <1>4, OwnersFrame DEF ClaimInv, TypeInv, TypeOK, CompareMaps, Writing
    <2>2. \A u \in Threads \ {t} : SearchInv(u)'
      BY <1>4, <1>0, SearchFrame DEF TypeInv, TypeOK, CompareMaps
    <2>3. SearchInv(t)'
      BY <1>4, <1>0 DEF TypeInv, TypeOK, CompareMaps, SearchInv
    <2> QED
      BY <2>1, <2>2, <2>3 DEF ClaimInv
  <1>5. CASE LoadFgpt(t)
    <2>1. OneWriterPerNode'
      BY <1>5, OwnersFrame DEF ClaimInv, TypeInv, TypeOK, LoadFgpt, Writing
    <2>2. \A u \in Threads \ {t} : SearchInv(u)'
      BY <1>5, <1>0, SearchFrame DEF TypeInv, TypeOK, LoadFgpt
    <2>3. SearchInv(t)'
      BY <1>5, <1>0 DEF TypeInv, TypeOK, LoadFgpt, SearchInv
    <2> QED
      BY <2>1, <2>2, <2>3 DEF ClaimInv
  <1>6. CASE FoundFallsThrough(t)
    BY <1>6 DEF FoundFallsThrough
  <1>7. CASE NotFound(t)
    <2>1. OneWriterPerNode'
      BY <1>7, OwnersFrame DEF ClaimInv, TypeInv, TypeOK, NotFound, Writing
    <2>2. \A u \in Threads \ {t} : SearchInv(u)'
      BY <1>7, <1>0, SearchFrame DEF TypeInv, TypeOK, NotFound
    <2>3. SearchInv(t)'
      BY <1>7, <1>0 DEF TypeInv, TypeOK, NotFound, SearchInv
    <2> QED
      BY <2>1, <2>2, <2>3 DEF ClaimInv
  <1>8. CASE TryLoad(t)
    <2>1. OneWriterPerNode'
      BY <1>8, OwnersFrame DEF ClaimInv, TypeInv, TypeOK, TryLoad, Writing
    <2>2. \A u \in Threads \ {t} : SearchInv(u)'
      BY <1>8, <1>0, SearchFrame DEF TypeInv, TypeOK, TryLoad
    <2>3. SearchInv(t)'
      <3>1. oldBm[t] \subseteq locate[cur[t]]
        BY <1>8, <1>0, <1>a DEF ClaimInv, OneWriterPerNode, TypeInv, TypeOK,
          TryLoad, SearchInv
      <3>2. /\ loaded'[t] = locate[cur[t]]
            /\ UNCHANGED <<locate, bitmap, cur, oldBm>>
        BY <1>8 DEF TypeInv, TypeOK, TryLoad
      <3>3. CASE pc'[t] = "loadLocate"
        BY <3>3 DEF SearchInv
      <3>4. CASE /\ pc'[t] = "tryCas"
                 /\ IsFirstZero(high'[t], locate[cur[t]])
        <4>1. oldBm[t] \subseteq bitmap[cur[t]]
          BY <1>8, <1>0 DEF SearchInv, TryLoad
        <4>2. IsFirstZero(high'[t], loaded'[t])
          BY <3>2, <3>4
        <4> QED
          BY <3>1, <3>2, <3>4, <4>1, <4>2 DEF SearchInv, IsFirstZero, Slots
      <3>5. \/ pc'[t] = "loadLocate"
            \/ /\ pc'[t] = "tryCas"
               /\ IsFirstZero(high'[t], locate[cur[t]])
        BY <1>8 DEF TypeInv, TypeOK, TryLoad
      <3> QED
        BY <3>3, <3>4, <3>5
    <2> QED
      BY <2>1, <2>2, <2>3 DEF ClaimInv
  <1>9. CASE TryCas(t)
    <2> DEFINE n == cur[t]
    <2>1. CASE locate[n] # oldBm[t]
      <3>1. OneWriterPerNode'
        BY <1>9, <2>1, OwnersFrame
        DEF ClaimInv, TypeInv, TypeOK, TryCas, Writing
      <3>2. \A u \in Threads \ {t} : SearchInv(u)'
        BY <1>9, <2>1, <1>0, SearchFrame DEF TypeInv, TypeOK, TryCas
      <3>3. SearchInv(t)'
        BY <1>9, <2>1 DEF TypeInv, TypeOK, TryCas, SearchInv
      <3> QED
        BY <3>1, <3>2, <3>3 DEF ClaimInv
    <2>2. CASE locate[n] = oldBm[t]
      <3>1. /\ bitmap[n] = locate[n]
            /\ loaded[t] = locate[n]
            /\ IsFirstZero(high[t], locate[n])
        <4>1. bitmap[n] \subseteq locate[n] /\ oldBm[t] \subseteq bitmap[n]
          BY <1>9, <1>0, <1>a DEF ClaimInv, OneWriterPerNode, SearchInv,
            TypeInv, TypeOK, TryCas
        <4>2. /\ oldBm[t] \subseteq loaded[t] /\ loaded[t] \subseteq locate[n]
              /\ IsFirstZero(high[t], loaded[t])
          BY <1>9, <1>0 DEF SearchInv, TryCas
        <4>3. loaded[t] = locate[n]
          BY <2>2, <4>2
        <4> QED
          BY <2>2, <4>1, <4>2, <4>3
      <3>2. \A u \in Threads : Writing(u) => cur[u] # n
        BY <3>1, <1>a DEF ClaimInv, OneWriterPerNode
      <3>3. /\ locate' = [locate EXCEPT ![n] = @ \cup {high[t]}]
            /\ pc' = [pc EXCEPT ![t] = "storeId"]
            /\ UNCHANGED <<bitmap, next, cur, high, oldBm, loaded, fellThrough>>
        BY <1>9, <2>2, <3>1 DEF TryCas
      <3>4. OneWriterPerNode'
        <4>1. Node' = Node
          BY <3>3 DEF Node
        <4>2. \A m \in Node : bitmap'[m] \subseteq locate'[m]
          BY <3>3 DEF ClaimInv, OneWriterPerNode, TypeInv, TypeOK
        <4>3. \A m \in Node : IsPrefix(locate'[m]) /\ IsPrefix(bitmap'[m])
          <5>1. IsPrefix(locate[n] \cup {high[t]})
            <6>1. IsPrefix(locate[n]) /\ locate[n] \subseteq Slots
              BY <1>a DEF ClaimInv, OneWriterPerNode, TypeInv, TypeOK
            <6>2. MAX_ENTRY_NUM \in Nat
              BY ConstantsAssumption
            <6> QED
              BY ONLY <3>1, <6>1, <6>2 DEF IsPrefix, IsFirstZero, Slots
          <5> QED
            BY <3>3, <5>1 DEF ClaimInv, OneWriterPerNode, TypeInv, TypeOK
        <4>4. Writing(t)' /\ \A u \in Threads \ {t} : Writing(u)' <=> Writing(u)
          BY <3>3 DEF Writing, TypeInv, TypeOK
        <4>5. \A m \in Node : \A i \in locate'[m] \ bitmap'[m] :
                 \E u \in Threads : Writing(u)' /\ cur'[u] = m /\ high'[u] = i
          BY <3>1, <3>3, <4>4
          DEF ClaimInv, OneWriterPerNode, TypeInv, TypeOK, Writing
        <4>6. \A u \in Threads :
                 Writing(u)' => high'[u] \in locate'[cur'[u]] \ bitmap'[cur'[u]]
          BY <3>1, <3>3, <4>4
          DEF ClaimInv, OneWriterPerNode, TypeInv, TypeOK, IsFirstZero
        <4>7. \A u, v \in Threads :
                 Writing(u)' /\ Writing(v)' /\ cur'[u] = cur'[v] => u = v
          BY <3>2, <3>3, <4>4 DEF ClaimInv, OneWriterPerNode
        <4> QED
          BY <4>1, <4>2, <4>3, <4>5, <4>6, <4>7 DEF OneWriterPerNode
      <3>5. \A u \in Threads \ {t} : SearchInv(u)'
        BY <3>3, <1>0, SearchFrame DEF TypeInv, TypeOK
      <3>6. SearchInv(t)'
        BY <3>3 DEF SearchInv, TypeInv, TypeOK
      <3> QED
        BY <3>4, <3>5, <3>6 DEF ClaimInv
    <2> QED
      BY <2>1, <2>2
  <1>10. CASE StoreId(t)
    <2>1. OneWriterPerNode'
      BY <1>10, OwnersFrame DEF ClaimInv, TypeInv, TypeOK, StoreId, Writing
    <2>2. \A u \in Threads \ {t} : SearchInv(u)'
      BY <1>10, <1>0, SearchFrame DEF TypeInv, TypeOK, StoreId
    <2>3. SearchInv(t)'
      BY <1>10, <1>0 DEF TypeInv, TypeOK, StoreId, SearchInv
    <2> QED
      BY <2>1, <2>2, <2>3 DEF ClaimInv
  <1>11. CASE StoreFgpt(t)
    <2>1. OneWriterPerNode'
      BY <1>11, OwnersFrame DEF ClaimInv, TypeInv, TypeOK, StoreFgpt, Writing
    <2>2. \A u \in Threads \ {t} : SearchInv(u)'
      BY <1>11, <1>0, SearchFrame DEF TypeInv, TypeOK, StoreFgpt
    <2>3. SearchInv(t)'
      BY <1>11, <1>0 DEF TypeInv, TypeOK, StoreFgpt, SearchInv
    <2> QED
      BY <2>1, <2>2, <2>3 DEF ClaimInv
  <1>12. CASE SetEntry(t)
    <2> DEFINE n == cur[t]
    <2>1. Writing(t) /\ n \in Node /\ fellThrough = FALSE
      BY <1>12 DEF SetEntry, Writing, TypeInv, TypeOK
    <2>2. /\ bitmap' = [bitmap EXCEPT ![n] = @ \cup {high[t]}]
          /\ pc' = [pc EXCEPT ![t] = "addDegree"]
          /\ UNCHANGED <<locate, next, cur, high, oldBm, loaded, fellThrough>>
      BY <1>12 DEF SetEntry
    <2>3. bitmap[n] \cup {high[t]} = locate[n]
      BY <2>1 DEF ClaimInv, OneWriterPerNode
    <2>4. OneWriterPerNode'
      <3>1. Node' = Node
        BY <2>2 DEF Node
      <3>2. \A m \in Node : /\ bitmap'[m] \subseteq locate'[m]
                            /\ bitmap'[m] = bitmap[m] \/ bitmap'[m] = locate[m]
        BY <2>2, <2>3 DEF ClaimInv, OneWriterPerNode, TypeInv, TypeOK
      <3>3. \A m \in Node : IsPrefix(locate'[m]) /\ IsPrefix(bitmap'[m])
        BY <2>1, <2>2, <3>2 DEF ClaimInv, OneWriterPerNode, IsPrefix
      <3>4. ~Writing(t)' /\ \A u \in Threads \ {t} : Writing(u)' <=> Writing(u)
        BY <2>2 DEF Writing, TypeInv, TypeOK
      <3>5. \A m \in Node : \A i \in locate'[m] \ bitmap'[m] :
               \E u \in Threads : Writing(u)' /\ cur'[u] = m /\ high'[u] = i
        BY <2>1, <2>2, <3>4 DEF ClaimInv, OneWriterPerNode, TypeInv, TypeOK
      <3>6. \A u \in Threads :
               Writing(u)' => high'[u] \in locate'[cur'[u]] \ bitmap'[cur'[u]]
        BY <2>1, <2>2, <3>4 DEF ClaimInv, OneWriterPerNode, TypeInv, TypeOK
      <3>7. \A u, v \in Threads :
               Writing(u)' /\ Writing(v)' /\ cur'[u] = cur'[v] => u = v
        BY <2>1, <2>2, <3>4 DEF ClaimInv, OneWriterPerNode
      <3> QED
        BY <3>1, <3>2, <3>3, <3>5, <3>6, <3>7 DEF OneWriterPerNode
    <2>5. \A u \in Threads \ {t} : SearchInv(u)'
      BY <2>2, <1>0, SearchFrame DEF TypeInv, TypeOK
    <2>6. SearchInv(t)'
      BY <2>2 DEF SearchInv, TypeInv, TypeOK
    <2> QED
      BY <2>4, <2>5, <2>6 DEF ClaimInv
  <1>13. CASE AddDegree(t)
    <2>1. OneWriterPerNode'
      BY <1>13, OwnersFrame DEF ClaimInv, TypeInv, TypeOK, AddDegree, Writing
    <2>2. \A u \in Threads \ {t} : SearchInv(u)'
      BY <1>13, <1>0, SearchFrame DEF TypeInv, TypeOK, AddDegree
    <2>3. SearchInv(t)'
      BY <1>13, <1>0 DEF TypeInv, TypeOK, AddDegree, SearchInv
    <2> QED
      BY <2>1, <2>2, <2>3 DEF ClaimInv
  <1>14. CASE ReadUnlock(t)
    <2>1. OneWriterPerNode'
      BY <1>14, OwnersFrame DEF ClaimInv, TypeInv, TypeOK, ReadUnlock, Writing
    <2>2. \A u \in Threads \ {t} : SearchInv(u)'
      BY <1>14, <1>0, SearchFrame DEF TypeInv, TypeOK, ReadUnlock
    <2>3. SearchInv(t)'
      BY <1>14, <1>0 DEF TypeInv, TypeOK, ReadUnlock, SearchInv
    <2> QED
      BY <2>1, <2>2, <2>3 DEF ClaimInv
  <1>15. CASE GetWriteLock(t)
    <2>1. OneWriterPerNode'
      BY <1>15, OwnersFrame
      DEF ClaimInv, TypeInv, TypeOK, GetWriteLock, Writing
    <2>2. \A u \in Threads \ {t} : SearchInv(u)'
      BY <1>15, <1>0, SearchFrame DEF TypeInv, TypeOK, GetWriteLock
    <2>3. SearchInv(t)'
      BY <1>15, <1>0 DEF TypeInv, TypeOK, GetWriteLock, SearchInv
    <2> QED
      BY <2>1, <2>2, <2>3 DEF ClaimInv
  <1>16. CASE CheckValid(t)
    <2>1. OneWriterPerNode'
      BY <1>16, OwnersFrame DEF ClaimInv, TypeInv, TypeOK, CheckValid, Writing
    <2>2. \A u \in Threads \ {t} : SearchInv(u)'
      BY <1>16, <1>0, SearchFrame DEF TypeInv, TypeOK, CheckValid
    <2>3. SearchInv(t)'
      BY <1>16, <1>0 DEF TypeInv, TypeOK, CheckValid, SearchInv
    <2> QED
      BY <2>1, <2>2, <2>3 DEF ClaimInv
  <1>17. CASE AllocCheck(t)
    <2>1. OneWriterPerNode'
      BY <1>17, OwnersFrame DEF ClaimInv, TypeInv, TypeOK, AllocCheck, Writing
    <2>2. \A u \in Threads \ {t} : SearchInv(u)'
      BY <1>17, <1>0, SearchFrame DEF TypeInv, TypeOK, AllocCheck
    <2>3. SearchInv(t)'
      BY <1>17, <1>0 DEF TypeInv, TypeOK, AllocCheck, SearchInv
    <2> QED
      BY <2>1, <2>2, <2>3 DEF ClaimInv
  <1>18. CASE AllocBump(t)
    <2>1. /\ Node \subseteq Node'
          /\ Node' \ Node \subseteq next .. next + NUM_BRANCH - 1
          /\ next \in Nat
      BY <1>18, NumBranchType DEF AllocBump, Node, TypeInv, TypeOK
    <2>2. locate' = Extended(locate, {}) /\ bitmap' = Extended(bitmap, {})
      BY <1>18 DEF AllocBump
    <2>3. /\ \A n \in Node : locate'[n] = locate[n] /\ bitmap'[n] = bitmap[n]
          /\ \A n \in Node' \ Node : locate'[n] = {} /\ bitmap'[n] = {}
      BY ONLY <2>1, <2>2, ExtendedValue
    <2>4. \A u \in Threads : /\ Writing(u)' <=> Writing(u)
                             /\ cur'[u] = cur[u] /\ high'[u] = high[u]
                             /\ cur[u] \in Node
      BY <1>18 DEF AllocBump, Writing, TypeInv, TypeOK
    <2>5. OneWriterPerNode'
      <3>1. \A n \in Node' : /\ bitmap'[n] \subseteq locate'[n]
                             /\ IsPrefix(locate'[n]) /\ IsPrefix(bitmap'[n])
        BY <1>a, <2>1, <2>3 DEF ClaimInv, OneWriterPerNode, IsPrefix
      <3>2. \A n \in Node' : \A i \in locate'[n] \ bitmap'[n] :
               \E u \in Threads : Writing(u)' /\ cur'[u] = n /\ high'[u] = i
        <4>1. \A n \in Node' \ Node : locate'[n] \ bitmap'[n] = {}
          BY <2>3
        <4>2. \A n \in Node : \A i \in locate[n] \ bitmap[n] :
                 \E u \in Threads : Writing(u) /\ cur[u] = n /\ high[u] = i
          BY <1>a DEF ClaimInv, OneWriterPerNode
        <4> QED
          BY <2>3, <2>4, <4>1, <4>2
      <3>3. \A u \in Threads :
               Writing(u)' => high'[u] \in locate'[cur'[u]] \ bitmap'[cur'[u]]
        BY <1>a, <2>3, <2>4 DEF ClaimInv, OneWriterPerNode
      <3>4. \A u, v \in Threads :
               Writing(u)' /\ Writing(v)' /\ cur'[u] = cur'[v] => u = v
        BY <1>a, <2>4 DEF ClaimInv, OneWriterPerNode
      <3> QED
        BY <3>1, <3>2, <3>3, <3>4 DEF OneWriterPerNode
    <2>6. \A u \in Threads \ {t} : SearchInv(u)'
      BY <1>18, <1>0, <2>3, <2>4, SearchFrame DEF AllocBump, TypeInv, TypeOK
    <2>7. SearchInv(t)'
      BY <1>18 DEF AllocBump, SearchInv, TypeInv, TypeOK
    <2> QED
      BY <2>5, <2>6, <2>7 DEF ClaimInv
  <1>19. CASE Link(t)
    <2>1. OneWriterPerNode'
      BY <1>19, OwnersFrame DEF ClaimInv, TypeInv, TypeOK, Link, Writing
    <2>2. \A u \in Threads \ {t} : SearchInv(u)'
      BY <1>19, <1>0, SearchFrame DEF TypeInv, TypeOK, Link
    <2>3. SearchInv(t)'
      BY <1>19, <1>0 DEF TypeInv, TypeOK, Link, SearchInv
    <2> QED
      BY <2>1, <2>2, <2>3 DEF ClaimInv
  <1>20. CASE ReleaseWriteLock(t)
    <2>1. OneWriterPerNode'
      BY <1>20, OwnersFrame
      DEF ClaimInv, TypeInv, TypeOK, ReleaseWriteLock, Writing
    <2>2. \A u \in Threads \ {t} : SearchInv(u)'
      BY <1>20, <1>0, SearchFrame DEF TypeInv, TypeOK, ReleaseWriteLock
    <2>3. SearchInv(t)'
      BY <1>20, <1>0 DEF TypeInv, TypeOK, ReleaseWriteLock, SearchInv
    <2> QED
      BY <2>1, <2>2, <2>3 DEF ClaimInv
  <1>21. CASE AddNumNodes(t)
    <2>1. OneWriterPerNode'
      BY <1>21, OwnersFrame DEF ClaimInv, TypeInv, TypeOK, AddNumNodes, Writing
    <2>2. \A u \in Threads \ {t} : SearchInv(u)'
      BY <1>21, <1>0, SearchFrame DEF TypeInv, TypeOK, AddNumNodes
    <2>3. SearchInv(t)'
      BY <1>21, <1>0 DEF TypeInv, TypeOK, AddNumNodes, SearchInv
    <2> QED
      BY <2>1, <2>2, <2>3 DEF ClaimInv
  <1>22. CASE Descend(t)
    <2>1. OneWriterPerNode'
      BY <1>22, OwnersFrame DEF ClaimInv, TypeInv, TypeOK, Descend, Writing
    <2>2. \A u \in Threads \ {t} : SearchInv(u)'
      BY <1>22, <1>0, SearchFrame DEF TypeInv, TypeOK, Descend
    <2>3. SearchInv(t)'
      BY <1>22, <1>0 DEF TypeInv, TypeOK, Descend, SearchInv
    <2> QED
      BY <2>1, <2>2, <2>3 DEF ClaimInv
  <1> QED
    BY <1>1, <1>2, <1>3, <1>4, <1>5, <1>6, <1>7, <1>8, <1>9, <1>10, <1>11,
       <1>12, <1>13, <1>14, <1>15, <1>16, <1>17, <1>18, <1>19, <1>20, <1>21,
       <1>22
    DEF ThreadStep

LEMMA ClaimInvariant == Spec => []ClaimInv
  <1>1. TypeInv /\ ClaimInv /\ [Next]_vars => ClaimInv'
    <2> SUFFICES ASSUME TypeInv, ClaimInv, [Next]_vars PROVE ClaimInv'
      OBVIOUS
    <2>1. ASSUME NEW t \in Threads, ThreadStep(t) PROVE ClaimInv'
      BY <2>1, ClaimStep
    <2>2. CASE UNCHANGED vars
      BY <2>2 DEF vars, ClaimInv, OneWriterPerNode, SearchInv, Writing, Node
    <2> QED
      BY <2>1, <2>2 DEF Next, Terminated
  <1> QED
    BY <1>1, ClaimInit, TypeInvariant, PTL DEF Spec

\* As long as no call has found its edge already stored, a node has one
\* writer at a time, which owns the one slot claimed and not published, and
\* the maps are prefixes, whatever the threads, the keys and the node size.
THEOREM OneWriter == Spec => []OneWriterPerNode
  BY ClaimInvariant, PTL DEF ClaimInv

-----------------------------------------------------------------------------
(* What one step does.                                                     *)

\* A step of t leaves the local variables of the other threads alone.
LEMMA OthersFrame ==
    ASSUME TypeInv, NEW t \in Threads, ThreadStep(t), NEW u \in Threads \ {t}
    PROVE  /\ pc'[u] = pc[u] /\ cur'[u] = cur[u] /\ key'[u] = key[u]
           /\ oldBm'[u] = oldBm[u] /\ seen'[u] = seen[u]
           /\ loaded'[u] = loaded[u] /\ high'[u] = high[u]
           /\ mine'[u] = mine[u]
  <1> USE DEF TypeInv, TypeOK, Goto, slotVars, treeVars, poolVars, counters,
        findVars, claimVars, callVars
  <1>1. CASE Begin(t) \/ LoadLocate(t) \/ GetReadLock(t) \/ CompareMaps(t)
    BY <1>1 DEF Begin, LoadLocate, GetReadLock, CompareMaps
  <1>2. CASE LoadFgpt(t) \/ FoundFallsThrough(t) \/ NotFound(t)
    BY <1>2 DEF LoadFgpt, FoundFallsThrough, NotFound
  <1>3. CASE TryLoad(t) \/ TryCas(t)
    BY <1>3 DEF TryLoad, TryCas
  <1>4. CASE StoreId(t) \/ StoreFgpt(t) \/ SetEntry(t) \/ AddDegree(t)
    BY <1>4 DEF StoreId, StoreFgpt, SetEntry, AddDegree
  <1>5. CASE ReadUnlock(t) \/ GetWriteLock(t) \/ CheckValid(t)
    BY <1>5 DEF ReadUnlock, GetWriteLock, CheckValid
  <1>6. CASE AllocCheck(t) \/ AllocBump(t) \/ Link(t)
    BY <1>6 DEF AllocCheck, AllocBump, Link
  <1>7. CASE ReleaseWriteLock(t) \/ AddNumNodes(t) \/ Descend(t)
    BY <1>7 DEF ReleaseWriteLock, AddNumNodes, Descend
  <1> QED
    BY <1>1, <1>2, <1>3, <1>4, <1>5, <1>6, <1>7 DEF ThreadStep

\* The steps that leave the locks and the children of all nodes alone.
OffTree(t) ==
    \/ Begin(t) \/ LoadLocate(t) \/ GetReadLock(t) \/ CompareMaps(t)
    \/ LoadFgpt(t) \/ FoundFallsThrough(t) \/ NotFound(t)
    \/ TryLoad(t) \/ TryCas(t)
    \/ StoreId(t) \/ StoreFgpt(t) \/ SetEntry(t) \/ AddDegree(t)
    \/ ReadUnlock(t) \/ CheckValid(t) \/ AllocCheck(t)
    \/ AddNumNodes(t) \/ Descend(t)

\* They neither begin nor end a branch_out, nor do they link anything.
LEMMA OffTreeStep ==
    ASSUME TypeInv, NEW t \in Threads, OffTree(t)
    PROVE  /\ UNCHANGED <<version, valid, child, level, next, mine>>
           /\ Node' = Node
           /\ InBranchOut(t)' <=> InBranchOut(t)
           /\ InBranchOut(t) => cur'[t] = cur[t]
           /\ pc'[t] # "link" /\ pc[t] # "link"
           /\ \A n \in Node : bitmap[n] \subseteq bitmap'[n]
  <1> USE DEF TypeInv, TypeOK, Goto, slotVars, treeVars, poolVars, counters,
        findVars, claimVars, callVars, Node, InBranchOut
  <1>1. CASE Begin(t) \/ LoadLocate(t) \/ GetReadLock(t) \/ CompareMaps(t)
    BY <1>1 DEF Begin, LoadLocate, GetReadLock, CompareMaps
  <1>2. CASE LoadFgpt(t) \/ FoundFallsThrough(t) \/ NotFound(t)
    BY <1>2 DEF LoadFgpt, FoundFallsThrough, NotFound
  <1>3. CASE TryLoad(t) \/ TryCas(t)
    BY <1>3 DEF TryLoad, TryCas
  <1>4. CASE StoreId(t) \/ StoreFgpt(t) \/ AddDegree(t)
    BY <1>4 DEF StoreId, StoreFgpt, AddDegree
  <1>7. CASE SetEntry(t)
    <2>1. bitmap' = [bitmap EXCEPT ![cur[t]] = @ \cup {high[t]}]
      BY <1>7 DEF SetEntry
    <2>2. \A n \in Node : bitmap[n] \subseteq bitmap'[n]
      BY <2>1
    <2> QED
      BY <1>7, <2>2 DEF SetEntry
  <1>5. CASE ReadUnlock(t) \/ CheckValid(t) \/ AllocCheck(t)
    BY <1>5 DEF ReadUnlock, CheckValid, AllocCheck
  <1>6. CASE AddNumNodes(t) \/ Descend(t)
    BY <1>6 DEF AddNumNodes, Descend
  <1> QED
    BY <1>1, <1>2, <1>3, <1>4, <1>5, <1>6, <1>7 DEF OffTree

\* alloc leaves the nodes there are alone and hands out zeroed ones.
LEMMA AllocStep ==
    ASSUME TypeInv, NEW t \in Threads, AllocBump(t)
    PROVE  /\ next' = next + NUM_BRANCH /\ Node \subseteq Node'
           /\ \A n \in Node' \ Node : next <= n /\ n < next + NUM_BRANCH
           /\ \A n \in Node :
                 /\ locate'[n] = locate[n] /\ bitmap'[n] = bitmap[n]
                 /\ id'[n] = id[n] /\ fgpt'[n] = fgpt[n]
                 /\ version'[n] = version[n] /\ valid'[n] = valid[n]
                 /\ child'[n] = child[n] /\ level'[n] = level[n]
           /\ \A n \in Node' \ Node :
                 locate'[n] = {} /\ bitmap'[n] = {} /\ version'[n] = 0
                 /\ valid'[n] = FALSE
  <1>1. /\ next' = next + NUM_BRANCH /\ Node \subseteq Node'
        /\ \A n \in Node' \ Node : n \in next .. next + NUM_BRANCH - 1
        /\ \A n \in next .. next + NUM_BRANCH - 1 :
              next <= n /\ n < next + NUM_BRANCH
        /\ next \in Nat
    BY NumBranchType DEF AllocBump, Node, TypeInv, TypeOK
  <1>2. /\ locate' = Extended(locate, {}) /\ bitmap' = Extended(bitmap, {})
        /\ version' = Extended(version, 0) /\ valid' = Extended(valid, FALSE)
    BY DEF AllocBump
  <1>3. /\ id' = Extended(id, [i \in Slots |-> 0])
        /\ fgpt' = Extended(fgpt, [i \in Slots |-> 0])
        /\ child' = Extended(child, 0) /\ level' = Extended(level, 0)
    BY DEF AllocBump
  <1>4. /\ \A n \in Node : locate'[n] = locate[n] /\ bitmap'[n] = bitmap[n]
        /\ \A n \in Node' \ Node : locate'[n] = {} /\ bitmap'[n] = {}
    BY ONLY <1>1, <1>2, ExtendedValue
  <1>7. /\ \A n \in Node : version'[n] = version[n]
        /\ \A n \in Node' \ Node : version'[n] = 0
    BY ONLY <1>1, <1>2, ExtendedValue
  <1>8. \A n \in Node : valid'[n] = valid[n]
    <2>1. \A n \in Node : Extended(valid, FALSE)[n] = valid[n]
      BY ONLY <1>1, ExtendedValue
    <2> QED
      BY ONLY <1>2, <2>1
  <1>5. \A n \in Node' \ Node : valid'[n] = FALSE
    <2>1. \A n \in next .. next + NUM_BRANCH - 1 :
             Extended(valid, FALSE)[n] = FALSE
      BY ONLY <1>1, ExtendedValue
    <2> QED
      BY ONLY <1>1, <1>2, <2>1
  <1>6. \A n \in Node : id'[n] = id[n] /\ fgpt'[n] = fgpt[n]
                        /\ child'[n] = child[n] /\ level'[n] = level[n]
    BY ONLY <1>1, <1>3, ExtendedValue
  <1> QED
    BY <1>1, <1>4, <1>5, <1>6, <1>7, <1>8
LEMMA AllocLocal ==
    ASSUME TypeInv, NEW t \in Threads, AllocBump(t)
    PROVE  /\ pc[t] = "allocBump" /\ pc'[t] = "link" /\ mine'[t] = next
           /\ InBranchOut(t) /\ InBranchOut(t)'
           /\ UNCHANGED <<cur, key, high, oldBm, seen, loaded, calls, numNodes,
                          degree, fellThrough>>
  BY DEF AllocBump, Goto, counters, findVars, claimVars, callVars,
         InBranchOut, TypeInv, TypeOK

\* Bits are only added, nodes only handed out, children only linked to.
LEMMA GrowStep ==
    ASSUME TypeInv, NEW t \in Threads, ThreadStep(t)
    PROVE  /\ Node \subseteq Node'
           /\ \A n \in Node : bitmap[n] \subseteq bitmap'[n]
           /\ \A n \in Node : valid[n] => valid'[n]
           /\ \A n \in Node' : valid'[n] =>
                 n \in Node /\ (valid[n] \/ (Link(t) /\ n = cur[t]))
  <1>1. CASE OffTree(t)
    BY <1>1, OffTreeStep
  <1>2. CASE AllocBump(t)
    BY <1>2, AllocStep
  <1>3. CASE Link(t)
    <2>1. /\ valid' = [valid EXCEPT ![cur[t]] = TRUE] /\ Node' = Node
          /\ bitmap' = bitmap
      BY <1>3 DEF Link, Node, poolVars, slotVars
    <2>2. valid \in [Node -> BOOLEAN]
      BY DEF TypeInv, TypeOK
    <2> QED
      BY <1>3, <2>1, <2>2
  <1>4. CASE GetWriteLock(t) \/ ReleaseWriteLock(t)
    BY <1>4 DEF GetWriteLock, ReleaseWriteLock, Node, poolVars, slotVars
  <1> QED
    BY <1>1, <1>2, <1>3, <1>4 DEF ThreadStep, OffTree

-----------------------------------------------------------------------------
(* The inductive invariant of the tree.                                    *)

\* The version of a node is odd just while one thread is in its branch_out.
LockInv ==
    /\ \A t \in Threads : InBranchOut(t) => IsLocked(version[cur[t]])
    /\ \A n \in Node : IsLocked(version[n]) =>
          \E t \in Threads : InBranchOut(t) /\ cur[t] = n
    /\ \A t, u \in Threads :
          InBranchOut(t) /\ InBranchOut(u) /\ cur[t] = cur[u] => t = u

\* What makes a node with children full: the map a thread has searched was a
\* bitmap, and it was full when the thread went to branch out.
FullInv ==
    /\ \A n \in Node : valid[n] => bitmap[n] = Slots
    /\ \A t \in Threads :
          /\ pc[t] \in {"loadFgpt", "matchIds"}
                => oldBm[t] \subseteq bitmap[cur[t]]
          /\ pc[t] \in {"readUnlock", "writeLock"} \/ InBranchOut(t)
                => bitmap[cur[t]] = Slots

\* The groups of NUM_BRANCH nodes at a and at b have no node in common.
Apart(a, b) == a + NUM_BRANCH <= b \/ b + NUM_BRANCH <= a

\* Children come after their parent in the pool, one level down, with a lock
\* that can be taken, and no node has two parents.
ChildInv ==
    /\ \A n \in Node : valid[n] =>
          /\ n < child[n]
          /\ \A c \in Children(child[n]) :
                level[c] = level[n] + 1 /\ version[c] >= UnlockedVersion
    /\ \A n, m \in Node :
          valid[n] /\ valid[m] /\ n # m => Apart(child[n], child[m])

\* What a thread is about to link: the parent has no children yet; the nodes
\* have none either, no thread is there, and they are nobody else's.
FreshInv ==
    /\ \A t \in Threads : pc[t] \in {"allocCheck", "allocBump", "link"}
                             => ~valid[cur[t]]
    /\ \A t \in Threads : pc[t] = "link" =>
          /\ cur[t] < mine[t]
          /\ \A n \in Children(mine[t]) :
                ~valid[n] /\ \A u \in Threads : cur[u] # n
          /\ \A n \in Node : valid[n] => Apart(child[n], mine[t])
          /\ \A u \in Threads : pc[u] = "link" /\ u # t
                                   => Apart(mine[u], mine[t])

TreeInv == LockInv /\ FullInv /\ ChildInv /\ FreshInv

LEMMA TreeInit == Init => TreeInv
  <1> SUFFICES ASSUME Init PROVE TreeInv
    OBVIOUS
  <1>1. Node = {0} /\ version[0] = 2 /\ valid[0] = FALSE
    BY DEF Init, Node, UnlockedVersion
  <1>2. \A t \in Threads : pc[t] = "idle"
    BY DEF Init
  <1>3. ~IsLocked(2)
    BY DEF IsLocked
  <1> QED
    BY <1>1, <1>2, <1>3
    DEF TreeInv, LockInv, FullInv, ChildInv, FreshInv, InBranchOut

\* get_write_lock waits for an even version and makes it odd; nobody but the
\* thread that did so makes it even again.
LEMMA LockStep ==
    ASSUME TypeInv, TreeInv, NEW t \in Threads, ThreadStep(t)
    PROVE  LockInv'
  <1>1. \A u \in Threads \ {t} :
           /\ pc'[u] = pc[u] /\ cur'[u] = cur[u]
           /\ InBranchOut(u)' <=> InBranchOut(u)
    BY OthersFrame DEF InBranchOut
  <1>0. /\ version \in [Node -> Nat]
        /\ \A u \in Threads : cur[u] \in Node
    BY DEF TypeInv, TypeOK
  <1>2. CASE OffTree(t)
    BY <1>1, <1>2, OffTreeStep DEF TreeInv, LockInv
  <1>3. CASE GetWriteLock(t)
    <2>1. /\ ~IsLocked(version[cur[t]]) /\ cur[t] \in Node
          /\ version' = [version EXCEPT ![cur[t]] = @ + 1]
          /\ Node' = Node /\ cur' = cur
          /\ InBranchOut(t)' /\ ~InBranchOut(t)
      BY <1>3
      DEF GetWriteLock, Goto, InBranchOut, TypeInv, TypeOK, Node, poolVars
    <2>4. \A v \in Nat : ~IsLocked(v) => IsLocked(v + 1)
      BY DEF IsLocked
    <2>2. IsLocked(version'[cur[t]])
      BY <1>0, <2>1, <2>4
    <2>3. \A n \in Node \ {cur[t]} : version'[n] = version[n]
      BY <1>0, <2>1
    <2> QED
      BY <1>0, <1>1, <2>1, <2>2, <2>3 DEF TreeInv, LockInv
  <1>4. CASE AllocBump(t)
    <2>1. InBranchOut(t)' /\ InBranchOut(t) /\ cur' = cur
      BY <1>4, AllocLocal
    <2>3. /\ \A n \in Node : version'[n] = version[n]
          /\ \A n \in Node' \ Node : version'[n] = 0
          /\ Node \subseteq Node'
      BY <1>4, AllocStep
    <2>2. \A n \in Node' \ Node : ~IsLocked(version'[n])
      BY <2>3 DEF IsLocked
    <2>4. \A u \in Threads : cur[u] \in Node
      BY DEF TypeInv, TypeOK
    <2> QED
      BY <1>1, <2>1, <2>2, <2>3, <2>4 DEF TreeInv, LockInv
  <1>5. CASE Link(t)
    <2>1. /\ pc[t] = "link" /\ cur' = cur /\ Node' = Node
          /\ InBranchOut(t)' /\ InBranchOut(t)
      BY <1>5 DEF Link, Goto, InBranchOut, TypeInv, TypeOK, Node, poolVars
    <2>2. \A n \in Node :
             version'[n] = IF n \in Children(mine[t]) THEN UnlockedVersion
                                                      ELSE version[n]
      BY <1>5 DEF Link
    <2>3. ~IsLocked(UnlockedVersion)
      BY DEF IsLocked, UnlockedVersion
    <2>4. \A u \in Threads : cur[u] \notin Children(mine[t])
      BY <2>1 DEF TreeInv, FreshInv
    <2> QED
      BY <1>0, <1>1, <2>1, <2>2, <2>3, <2>4 DEF TreeInv, LockInv
  <1>6. CASE ReleaseWriteLock(t)
    <2>1. /\ version' = [version EXCEPT ![cur[t]] = @ + 1] /\ cur[t] \in Node
          /\ Node' = Node /\ cur' = cur
          /\ ~InBranchOut(t)' /\ InBranchOut(t)
      BY <1>6
      DEF ReleaseWriteLock, Goto, InBranchOut, TypeInv, TypeOK, Node, poolVars
    <2>4. \A v \in Nat : IsLocked(v) => ~IsLocked(v + 1)
      BY DEF IsLocked
    <2>2. ~IsLocked(version'[cur[t]])
      BY <1>0, <2>1, <2>4 DEF TreeInv, LockInv
    <2>3. \A n \in Node \ {cur[t]} : version'[n] = version[n]
      BY <1>0, <2>1
    <2> QED
      BY <1>0, <1>1, <2>1, <2>2, <2>3 DEF TreeInv, LockInv
  <1> QED
    BY <1>2, <1>3, <1>4, <1>5, <1>6 DEF ThreadStep, OffTree

\* A thread goes on to branch out only with a map that is full and was the
\* bitmap; bits never go away.
LEMMA FullStep ==
    ASSUME TypeInv, TreeInv, NEW t \in Threads, ThreadStep(t)
    PROVE  FullInv'
  <1>1. \A n \in Node' : valid'[n] => bitmap'[n] = Slots
    <2>1. \A n \in Node : valid[n] => bitmap[n] = Slots
      BY DEF TreeInv, FullInv
    <2>2. Link(t) => bitmap[cur[t]] = Slots
      BY DEF TreeInv, FullInv, Link, Goto, InBranchOut
    <2>3. \A n \in Node' : bitmap'[n] \subseteq Slots
      BY TypeOKStep DEF TypeOK
    <2>4. ASSUME NEW n \in Node', valid'[n] PROVE bitmap'[n] = Slots
      <3>1. n \in Node /\ (valid[n] \/ (Link(t) /\ n = cur[t]))
        BY <2>4, GrowStep
      <3>2. bitmap[n] = Slots
        BY <2>1, <2>2, <3>1
      <3> QED
        BY <2>3, <3>1, <3>2, GrowStep
    <2> QED
      BY <2>4
  <1>2. \A u \in Threads \ {t} :
           /\ pc'[u] \in {"loadFgpt", "matchIds"}
                 => oldBm'[u] \subseteq bitmap'[cur'[u]]
           /\ pc'[u] \in {"readUnlock", "writeLock"} \/ InBranchOut(u)'
                 => bitmap'[cur'[u]] = Slots
    <2> SUFFICES ASSUME NEW u \in Threads \ {t}
                 PROVE  /\ pc'[u] \in {"loadFgpt", "matchIds"}
                              => oldBm'[u] \subseteq bitmap'[cur'[u]]
                        /\ pc'[u] \in {"readUnlock", "writeLock"}
                              \/ InBranchOut(u)'
                              => bitmap'[cur'[u]] = Slots
      OBVIOUS
    <2>1. /\ pc'[u] = pc[u] /\ cur'[u] = cur[u] /\ oldBm'[u] = oldBm[u]
          /\ InBranchOut(u)' <=> InBranchOut(u)
      BY OthersFrame DEF InBranchOut
    <2>2. cur[u] \in Node /\ bitmap[cur[u]] \subseteq bitmap'[cur[u]]
      BY GrowStep DEF TypeInv, TypeOK
    <2>3. bitmap'[cur[u]] \subseteq Slots
      BY <2>2, TypeOKStep, GrowStep DEF TypeOK
    <2> QED
      BY <2>1, <2>2, <2>3 DEF TreeInv, FullInv
  <1>3. /\ pc'[t] \in {"loadFgpt", "matchIds"}
              => oldBm'[t] \subseteq bitmap'[cur'[t]]
        /\ pc'[t] \in {"readUnlock", "writeLock"} \/ InBranchOut(t)'
              => bitmap'[cur'[t]] = Slots
    <2> USE DEF TypeInv, TypeOK, Goto, slotVars, treeVars, poolVars, counters,
          findVars, claimVars, callVars, InBranchOut
    <2>1. CASE AllocBump(t)
      <3>1. bitmap'[cur[t]] = bitmap[cur[t]] /\ cur'[t] = cur[t]
        BY <2>1, AllocStep, AllocLocal
      <3>2. pc[t] = "allocBump" /\ pc'[t] = "link"
        BY <2>1, AllocLocal
      <3> QED
        BY <3>1, <3>2 DEF TreeInv, FullInv
    <2>2. CASE Begin(t) \/ LoadLocate(t) \/ GetReadLock(t) \/ CompareMaps(t)
      BY <2>2 DEF Begin, LoadLocate, GetReadLock, CompareMaps
    <2>3. CASE LoadFgpt(t) \/ FoundFallsThrough(t) \/ NotFound(t)
      <3>1. CASE LoadFgpt(t) \/ FoundFallsThrough(t)
        BY <3>1 DEF LoadFgpt, FoundFallsThrough, TreeInv, FullInv
      <3>2. CASE NotFound(t)
        <4>1. /\ bitmap' = bitmap /\ cur' = cur
              /\ \/ pc'[t] = "readUnlock" /\ oldBm[t] = Slots
                 \/ pc'[t] = "tryLoad"
          BY <3>2 DEF NotFound
        <4>2. /\ oldBm[t] \subseteq bitmap[cur[t]]
              /\ bitmap[cur[t]] \subseteq Slots
          BY <3>2 DEF NotFound, TreeInv, FullInv
        <4> QED
          BY <4>1, <4>2
      <3> QED
        BY <2>3, <3>1, <3>2
    <2>4. CASE TryLoad(t) \/ TryCas(t)
      BY <2>4 DEF TryLoad, TryCas
    <2>5. CASE StoreId(t) \/ StoreFgpt(t) \/ SetEntry(t) \/ AddDegree(t)
      BY <2>5 DEF StoreId, StoreFgpt, SetEntry, AddDegree
    <2>6. CASE ReadUnlock(t) \/ GetWriteLock(t) \/ CheckValid(t)
      BY <2>6 DEF ReadUnlock, GetWriteLock, CheckValid, TreeInv, FullInv
    <2>7. CASE AllocCheck(t) \/ Link(t) \/ ReleaseWriteLock(t)
      BY <2>7 DEF AllocCheck, Link, ReleaseWriteLock, TreeInv, FullInv
    <2>8. CASE AddNumNodes(t) \/ Descend(t)
      BY <2>8 DEF AddNumNodes, Descend
    <2> QED
      BY <2>1, <2>2, <2>3, <2>4, <2>5, <2>6, <2>7, <2>8 DEF ThreadStep
  <1> QED
    BY <1>1, <1>2, <1>3 DEF FullInv
\* Where a group of children lies.
LEMMA GroupFacts ==
    ASSUME NEW a \in Nat, NEW b \in Nat
    PROVE  /\ \A n \in Children(a) : n \in Nat /\ a <= n /\ n < a + NUM_BRANCH
           /\ Apart(a, b) => Children(a) \cap Children(b) = {}
           /\ Apart(a, b) <=> Apart(b, a)
           /\ a + NUM_BRANCH <= next => Apart(a, next)
           /\ TypeOK /\ a + NUM_BRANCH <= next => Children(a) \subseteq Node
  BY NumBranchType DEF Children, Apart, Node, TypeOK

\* The nodes a thread links become children one level down; the children of
\* the other nodes stay what they are.
LEMMA ChildStep ==
    ASSUME TypeInv, TreeInv, NEW t \in Threads, ThreadStep(t)
    PROVE  ChildInv'
  <1>0. /\ version \in [Node -> Nat] /\ level \in [Node -> Nat]
        /\ child \in [Node -> Nat] /\ valid \in [Node -> BOOLEAN]
        /\ mine \in [Threads -> Nat] /\ cur \in [Threads -> Node]
    BY DEF TypeInv, TypeOK
  <1>a. \A n \in Node : valid[n] => Children(child[n]) \subseteq Node
    BY <1>0, GroupFacts DEF TypeInv, ShapeInv
  <1>b. ChildInv
    BY DEF TreeInv
  <1>1. CASE OffTree(t)
    BY <1>1, <1>b, OffTreeStep DEF ChildInv
  <1>2. CASE GetWriteLock(t) \/ ReleaseWriteLock(t)
    <2>1. /\ version' = [version EXCEPT ![cur[t]] = @ + 1]
          /\ Node' = Node /\ UNCHANGED <<valid, child, level>>
      BY <1>2 DEF GetWriteLock, ReleaseWriteLock, Node, poolVars
    <2>2. \A n \in Node : version'[n] >= version[n]
      BY <1>0, <2>1
    <2>3. ASSUME NEW n \in Node, valid[n], NEW c \in Children(child[n])
          PROVE  version'[c] >= UnlockedVersion
      <3>1. c \in Node /\ version[c] >= UnlockedVersion
        BY <1>a, <1>b, <2>3 DEF ChildInv
      <3>2. /\ version[c] \in Nat
            /\ version'[c] \in Nat
            /\ UnlockedVersion \in Nat
        BY <1>0, <2>1, <3>1 DEF UnlockedVersion
      <3> QED
        BY <2>2, <3>1, <3>2
    <2> QED
      BY <1>b, <2>1, <2>3 DEF ChildInv
  <1>3. CASE AllocBump(t)
    <2>1. /\ \A n \in Node' : valid'[n] => n \in Node /\ valid[n]
          /\ \A n \in Node : child'[n] = child[n]
      BY <1>3, AllocStep
    <2>2. \A n \in Node : version'[n] = version[n] /\ level'[n] = level[n]
      BY <1>3, AllocStep
    <2>3. NUM_BRANCH' = NUM_BRANCH
      BY DEF NUM_BRANCH
    <2>4. \A n \in Node' : valid'[n] =>
             /\ n < child'[n]
             /\ \A c \in Children(child'[n]) :
                   /\ level'[c] = level'[n] + 1
                   /\ version'[c] >= UnlockedVersion
      BY <1>a, <1>b, <2>1, <2>2 DEF ChildInv
    <2>5. \A n, m \in Node' :
             valid'[n] /\ valid'[m] /\ n # m => Apart(child'[n], child'[m])
      BY <1>b, <2>1 DEF ChildInv
    <2> QED
      BY <2>4, <2>5 DEF ChildInv
  <1>4. CASE Link(t)
    <2> DEFINE p == cur[t]
               new == Children(mine[t])
    <2>1. /\ pc[t] = "link" /\ Node' = Node /\ p \in Node /\ mine[t] \in Nat
          /\ child' = [child EXCEPT ![p] = mine[t]]
          /\ valid' = [valid EXCEPT ![p] = TRUE]
      BY <1>0, <1>4 DEF Link, Goto, Node, poolVars
    <2>2. \A n \in Node :
             /\ level'[n] = IF n \in new THEN level[p] + 1 ELSE level[n]
             /\ version'[n] = IF n \in new THEN UnlockedVersion
                                           ELSE version[n]
      BY <1>4 DEF Link
    <2>3. /\ p < mine[t] /\ p \notin new
          /\ \A n \in new : ~valid[n]
          /\ \A n \in Node : valid[n] => Apart(child[n], mine[t])
      BY <1>0, <2>1 DEF TreeInv, FreshInv
    <2>4. new \subseteq Node
      BY <2>1, GroupFacts DEF TypeInv, ShapeInv
    <2>5. ASSUME NEW n \in Node, valid'[n]
          PROVE  /\ n < child'[n]
                 /\ \A c \in Children(child'[n]) :
                       /\ level'[c] = level'[n] + 1
                       /\ version'[c] >= UnlockedVersion
      <3>1. CASE n = p
        <4>1. child'[n] = mine[t] /\ level'[n] = level[p]
          BY <1>0, <2>1, <2>2, <2>3, <3>1
        <4>2. \A c \in new : level'[c] = level[p] + 1
                             /\ version'[c] = UnlockedVersion
          BY <2>2, <2>4
        <4> QED
          BY <2>3, <3>1, <4>1, <4>2 DEF UnlockedVersion
      <3>2. CASE n # p
        <4>1. valid[n] /\ child'[n] = child[n] /\ n \notin new
          BY <1>0, <2>1, <2>3, <2>5, <3>2
        <4>2. Children(child[n]) \cap new = {}
          BY <1>0, <2>1, <2>3, <4>1, GroupFacts
        <4>3. \A c \in Children(child[n]) :
                 c \in Node /\ level'[c] = level[c] /\ version'[c] = version[c]
          BY <1>a, <2>2, <4>1, <4>2
        <4>4. level'[n] = level[n]
          BY <2>2, <4>1
        <4> QED
          BY <1>b, <4>1, <4>3, <4>4 DEF ChildInv
      <3> QED
        BY <3>1, <3>2
    <2>6. ASSUME NEW n \in Node, NEW m \in Node,
                 valid'[n], valid'[m], n # m
          PROVE  Apart(child'[n], child'[m])
      <3>1. \A x \in Node : child'[x] = IF x = p THEN mine[t] ELSE child[x]
        BY <1>0, <2>1
      <3>2. \A x \in Node : valid'[x] /\ x # p => valid[x]
        BY <1>0, <2>1
      <3>3. CASE n = p
        BY <1>0, <2>1, <2>3, <2>6, <3>1, <3>2, <3>3, GroupFacts
      <3>4. CASE m = p
        BY <1>0, <2>1, <2>3, <2>6, <3>1, <3>2, <3>4, GroupFacts
      <3>5. CASE n # p /\ m # p
        BY <1>b, <2>6, <3>1, <3>2, <3>5 DEF ChildInv
      <3> QED
        BY <3>3, <3>4, <3>5
    <2> QED
      BY <2>1, <2>5, <2>6 DEF ChildInv
  <1> QED
    BY <1>1, <1>2, <1>3, <1>4 DEF ThreadStep, OffTree

\* What the pool hands out is past everything in use; nobody gets to it
\* before it is linked.
LEMMA FreshStep ==
    ASSUME TypeInv, TreeInv, NEW t \in Threads, ThreadStep(t)
    PROVE  FreshInv'
  <1>0. /\ child \in [Node -> Nat] /\ valid \in [Node -> BOOLEAN]
        /\ mine \in [Threads -> Nat] /\ cur \in [Threads -> Node]
        /\ next \in Nat \ {0} /\ \A n \in Node : n \in Nat /\ n < next
    BY DEF TypeInv, TypeOK, Node
  <1>a. \A u \in Threads : pc[u] = "link" =>
           mine[u] + NUM_BRANCH <= next /\ Children(mine[u]) \subseteq Node
    BY <1>0, GroupFacts DEF TypeInv, ShapeInv
  <1>b. \A u \in Threads \ {t} :
           pc'[u] = pc[u] /\ cur'[u] = cur[u] /\ mine'[u] = mine[u]
    BY OthersFrame
  <1>c. FreshInv
    BY DEF TreeInv
  <1>1. ASSUME NEW u \in Threads, pc'[u] \in {"allocCheck", "allocBump", "link"}
        PROVE  ~valid'[cur'[u]]
    <2>1. CASE u # t
      <3>1. pc[u] = pc'[u] /\ cur'[u] = cur[u] /\ cur[u] \in Node
        BY <1>0, <1>b, <2>1
      <3>2. ~valid[cur[u]] /\ InBranchOut(u)
        BY <1>1, <1>c, <3>1 DEF FreshInv, InBranchOut
      <3>3. Link(t) => cur[u] # cur[t]
        BY <2>1, <3>2 DEF TreeInv, LockInv, Link, Goto, InBranchOut
      <3> QED
        BY <3>1, <3>2, <3>3, GrowStep
    <2>2. CASE u = t
      <3>1. CheckValid(t) \/ AllocCheck(t) \/ AllocBump(t)
        BY <1>1, <2>2
        DEF ThreadStep, TypeInv, TypeOK, Goto, Begin, LoadLocate, GetReadLock,
            CompareMaps, LoadFgpt, FoundFallsThrough, NotFound, TryLoad,
            TryCas, StoreId, StoreFgpt, SetEntry, AddDegree, ReadUnlock,
            GetWriteLock, Link, ReleaseWriteLock, AddNumNodes, Descend
      <3>2. cur'[t] = cur[t] /\ ~valid[cur[t]]
        BY <1>1, <1>c, <2>2, <3>1
        DEF CheckValid, AllocCheck, AllocBump, Goto, FreshInv, TypeInv, TypeOK
      <3>3. ~Link(t)
        BY <3>1 DEF CheckValid, AllocCheck, AllocBump, Link, Goto
      <3> QED
        BY <1>0, <2>2, <3>2, <3>3, GrowStep
    <2> QED
      BY <2>1, <2>2
  <1>2. ASSUME NEW u \in Threads, pc'[u] = "link"
        PROVE  /\ cur'[u] < mine'[u]
               /\ \A n \in Children(mine'[u]) :
                     ~valid'[n] /\ \A v \in Threads : cur'[v] # n
               /\ \A n \in Node' : valid'[n] => Apart(child'[n], mine'[u])
               /\ \A v \in Threads : pc'[v] = "link" /\ v # u
                                        => Apart(mine'[v], mine'[u])
    <2>1. CASE OffTree(t)
      <3>1. /\ u # t /\ pc[u] = "link" /\ cur'[u] = cur[u]
            /\ UNCHANGED <<valid, child, mine>> /\ Node' = Node
            /\ pc'[t] # "link"
        BY <1>2, <1>b, <2>1, OffTreeStep
      <3>2. \A n \in Children(mine[u]) : cur'[t] # n
        <4>1. CASE cur'[t] = cur[t]
          BY <1>c, <3>1, <4>1 DEF FreshInv
        <4>2. CASE Begin(t)
          <5>1. cur'[t] = 0
            BY <1>0, <4>2 DEF Begin
          <5>2. mine[u] # 0 /\ mine[u] \in Nat
            BY <1>0, <1>c, <3>1 DEF FreshInv
          <5> QED
            BY <5>1, <5>2, GroupFacts
        <4>3. CASE Descend(t)
          <5>1. cur'[t] = child[cur[t]] + Branch(key[t], level[cur[t]])
            BY <1>0, <4>3 DEF Descend
          <5>2. valid[cur[t]] /\ child[cur[t]] \in Nat
            BY <1>0, <4>3 DEF Descend, Goto, TypeInv, ShapeInv
          <5>3. Branch(key[t], level[cur[t]]) \in 0 .. NUM_BRANCH - 1
            BY BranchInRange DEF TypeInv, TypeOK
          <5>4. cur'[t] \in Children(child[cur[t]])
            BY <5>1, <5>2, <5>3, NumBranchType DEF Children
          <5>5. Apart(child[cur[t]], mine[u])
            BY <1>0, <1>c, <3>1, <5>2 DEF FreshInv
          <5> QED
            BY <1>0, <5>2, <5>4, <5>5, GroupFacts
        <4> QED
          BY <2>1, <4>1, <4>2, <4>3
          DEF OffTree, TypeInv, TypeOK, Goto, LoadLocate, GetReadLock,
              CompareMaps, LoadFgpt, FoundFallsThrough, NotFound, TryLoad,
              TryCas, StoreId, StoreFgpt, SetEntry, AddDegree, ReadUnlock,
              CheckValid, AllocCheck, AddNumNodes
      <3> QED
        BY <1>b, <1>c, <3>1, <3>2 DEF FreshInv
    <2>2. CASE GetWriteLock(t) \/ ReleaseWriteLock(t)
      <3>1. /\ UNCHANGED <<valid, child, mine, cur>> /\ Node' = Node
            /\ pc'[t] # "link"
        BY <2>2
        DEF GetWriteLock, ReleaseWriteLock, Goto, Node, poolVars, TypeInv,
            TypeOK
      <3> QED
        BY <1>2, <1>b, <1>c, <3>1 DEF FreshInv
    <2>3. CASE AllocBump(t)
      <3>1. /\ \A n \in Node' : valid'[n] => n \in Node /\ valid[n]
            /\ \A n \in Node' \ Node : ~valid'[n]
            /\ \A n \in Node : child'[n] = child[n]
            /\ next' = next + NUM_BRANCH
        BY <2>3, AllocStep
      <3>8. \A n \in Children(next) : n \in Node'
        BY <1>0, <3>1, NumBranchType DEF Children, Node
      <3>2. pc'[t] = "link" /\ mine'[t] = next /\ cur' = cur
        BY <2>3, AllocLocal
      <3>3. \A n \in Node : valid[n] => Apart(child[n], next)
        BY <1>0, GroupFacts DEF TypeInv, ShapeInv
      <3>4. \A v \in Threads : pc[v] = "link" => Apart(mine[v], next)
        BY <1>0, <1>a, GroupFacts
      <3>5. \A n \in Children(next) : n \notin Node
        BY <1>0, GroupFacts
      <3>6. CASE u = t
        <4>1. \A v \in Threads : pc'[v] = "link" /\ v # t
                                    => Apart(mine'[v], next)
          BY <1>b, <3>4
        <4>2. \A n \in Children(next) :
                 ~valid'[n] /\ \A v \in Threads : cur'[v] # n
          BY <1>0, <3>1, <3>2, <3>5, <3>8
        <4>3. \A n \in Node' : valid'[n] => Apart(child'[n], next)
          BY <3>1, <3>3
        <4> QED
          BY <1>0, <3>2, <3>6, <4>1, <4>2, <4>3
      <3>7. CASE u # t
        <4>1. pc[u] = "link" /\ mine'[u] = mine[u] /\ mine[u] \in Nat
          BY <1>0, <1>2, <1>b, <3>7
        <4>2. \A v \in Threads : pc'[v] = "link" /\ v # u
                                    => Apart(mine'[v], mine[u])
          BY <1>0, <1>b, <1>c, <3>2, <3>4, <4>1, GroupFacts DEF FreshInv
        <4>3. \A n \in Children(mine[u]) :
                 ~valid'[n] /\ \A v \in Threads : cur'[v] # n
          <5>1. ASSUME NEW n \in Children(mine[u]) PROVE ~valid'[n]
            <6>1. n \in Node /\ ~valid[n]
              BY <1>a, <1>c, <4>1 DEF FreshInv
            <6>2. n \in Node'
              BY <2>3, <6>1, AllocStep
            <6> QED
              BY <3>1, <6>1, <6>2
          <5>2. \A n \in Children(mine[u]) : \A v \in Threads : cur'[v] # n
            BY <1>c, <3>2, <4>1 DEF FreshInv
          <5> QED
            BY <5>1, <5>2
        <4>4. \A n \in Node' : valid'[n] => Apart(child'[n], mine[u])
          BY <1>c, <3>1, <4>1 DEF FreshInv
        <4> QED
          BY <1>c, <3>2, <4>1, <4>2, <4>3, <4>4 DEF FreshInv
      <3> QED
        BY <3>6, <3>7
    <2>4. CASE Link(t)
      <3>1. /\ pc[t] = "link" /\ pc'[t] # "link" /\ Node' = Node
            /\ child' = [child EXCEPT ![cur[t]] = mine[t]]
            /\ valid' = [valid EXCEPT ![cur[t]] = TRUE]
            /\ UNCHANGED <<cur, mine>>
        BY <2>4 DEF Link, Goto, Node, poolVars, TypeInv, TypeOK
      <3>2. pc[u] = "link" /\ u # t
        BY <1>2, <1>b, <3>1
      <3>3. \A n \in Children(mine[u]) : ~valid'[n]
        BY <1>0, <1>a, <1>c, <3>1, <3>2 DEF FreshInv
      <3>4. \A n \in Node : valid'[n] => Apart(child'[n], mine[u])
        BY <1>0, <1>c, <3>1, <3>2 DEF FreshInv
      <3> QED
        BY <1>b, <1>c, <3>1, <3>2, <3>3, <3>4 DEF FreshInv
    <2> QED
      BY <2>1, <2>2, <2>3, <2>4 DEF ThreadStep, OffTree
  <1> QED
    BY <1>1, <1>2 DEF FreshInv
LEMMA TreeInvariant == Spec => [](TypeInv /\ TreeInv)
  <1>1. TypeInv /\ TreeInv /\ [Next]_vars => TreeInv'
    <2> SUFFICES ASSUME TypeInv, TreeInv, [Next]_vars PROVE TreeInv'
      OBVIOUS
    <2>1. ASSUME NEW t \in Threads, ThreadStep(t) PROVE TreeInv'
      BY <2>1, LockStep, FullStep, ChildStep, FreshStep DEF TreeInv
    <2>2. CASE UNCHANGED vars
      BY <2>2 DEF vars, TreeInv, LockInv, FullInv, ChildInv, FreshInv,
                  InBranchOut, Node
    <2> QED
      BY <2>1, <2>2 DEF Next, Terminated
  <1> QED
    BY <1>1, TreeInit, TypeInvariant, PTL DEF Spec

\* The write side of version_lock excludes: whatever the threads do, a node's
\* version is odd just while exactly one thread is in its branch_out.
THEOREM WriteLockExcludes == Spec => []BranchOutExclusive
  <1>1. TypeInv /\ TreeInv => BranchOutExclusive
    <2> SUFFICES ASSUME TreeInv, NEW n \in Node
                 PROVE  LET inside == {t \in Threads :
                                          InBranchOut(t) /\ cur[t] = n}
                        IN  IF IsLocked(version[n])
                            THEN \E t \in inside : inside = {t}
                            ELSE inside = {}
      BY DEF BranchOutExclusive
    <2> DEFINE inside == {t \in Threads : InBranchOut(t) /\ cur[t] = n}
    <2>1. CASE IsLocked(version[n])
      <3>1. PICK t \in Threads : InBranchOut(t) /\ cur[t] = n
        BY <2>1 DEF TreeInv, LockInv
      <3>2. inside = {t}
        BY <3>1 DEF TreeInv, LockInv
      <3> QED
        BY <2>1, <3>2
    <2>2. CASE ~IsLocked(version[n])
      BY <2>2 DEF TreeInv, LockInv
    <2> QED
      BY <2>1, <2>2
  <1> QED
    BY <1>1, TreeInvariant, PTL

\* branch_out makes a tree: only full nodes have children, no two nodes share
\* any, and every child is one level down with a lock that can be taken.
THEOREM TreeCorrect == Spec => []ChildrenApart
  <1>1. TypeInv /\ TreeInv => ChildrenApart
    <2> SUFFICES ASSUME TypeInv, TreeInv, NEW n \in Node, valid[n]
                 PROVE  /\ bitmap[n] = Slots
                        /\ \A c \in Children(child[n]) :
                              /\ c \in Node
                              /\ level[c] = level[n] + 1
                              /\ version[c] >= UnlockedVersion
                        /\ \A m \in Node : valid[m] /\ m # n =>
                              Children(child[n]) \cap Children(child[m]) = {}
      BY DEF ChildrenApart
    <2>1. \A m \in Node : child[m] \in Nat
      BY DEF TypeInv, TypeOK
    <2>2. Children(child[n]) \subseteq Node
      BY <2>1, GroupFacts DEF TypeInv, ShapeInv
    <2>3. \A m \in Node : valid[m] /\ m # n =>
             Children(child[n]) \cap Children(child[m]) = {}
      BY <2>1, GroupFacts DEF TreeInv, ChildInv
    <2> QED
      BY <2>2, <2>3 DEF TreeInv, FullInv, ChildInv
  <1> QED
    BY <1>1, TreeInvariant, PTL

-----------------------------------------------------------------------------
(* What readers have been shown.                                           *)

\* The only stores to a slot are those of the one thread that owns it.
LEMMA StaysStep ==
    ASSUME TypeInv, ClaimInv, NEW t \in Threads, ThreadStep(t), ~fellThrough',
           NEW n \in Node, NEW i \in bitmap[n]
    PROVE  i \in bitmap'[n] /\ id'[n][i] = id[n][i] /\ fgpt'[n][i] = fgpt[n][i]
  <1>1. ~fellThrough
    BY DEF ThreadStep, Begin, LoadLocate, GetReadLock, CompareMaps, LoadFgpt,
      FoundFallsThrough, NotFound, TryLoad, TryCas, StoreId, StoreFgpt,
      SetEntry, AddDegree, ReadUnlock, GetWriteLock, CheckValid, AllocCheck,
      AllocBump, Link, ReleaseWriteLock, AddNumNodes, Descend
  <1>2. i \in bitmap'[n]
    BY GrowStep
  <1>3. Writing(t) => high[t] \notin bitmap[cur[t]]
    BY <1>1 DEF ClaimInv, OneWriterPerNode
  <1>4. /\ id \in [Node -> [Slots -> Nat]] /\ fgpt \in [Node -> [Slots -> Nat]]
        /\ cur[t] \in Node /\ i \in Slots
    BY DEF TypeInv, TypeOK
  <1>5. CASE StoreId(t)
    <2>1. /\ id' = [id EXCEPT ![cur[t]][high[t]] = key[t]] /\ fgpt' = fgpt
          /\ Writing(t)
      BY <1>5 DEF StoreId, Writing, Goto
    <2> QED
      BY <1>2, <1>3, <1>4, <2>1
  <1>6. CASE StoreFgpt(t)
    <2>1. /\ fgpt' = [fgpt EXCEPT ![cur[t]][high[t]] = hashcode(key[t])]
          /\ id' = id /\ Writing(t)
      BY <1>6 DEF StoreFgpt, Writing, Goto
    <2> QED
      BY <1>2, <1>3, <1>4, <2>1
  <1>7. CASE AllocBump(t)
    BY <1>2, <1>7, AllocStep
  <1>8. CASE ~(StoreId(t) \/ StoreFgpt(t) \/ AllocBump(t))
    <2>1. UNCHANGED <<id, fgpt>>
      BY <1>8
      DEF ThreadStep, slotVars, Begin, LoadLocate, GetReadLock, CompareMaps,
          LoadFgpt, FoundFallsThrough, NotFound, TryLoad, TryCas, SetEntry,
          AddDegree, ReadUnlock, GetWriteLock, CheckValid, AllocCheck, Link,
          ReleaseWriteLock, AddNumNodes, Descend
    <2> QED
      BY <1>2, <2>1
  <1> QED
    BY <1>5, <1>6, <1>7, <1>8

\* What bitmap shows stays as it is: as long as no call has found its edge
\* already stored, no step clears a bit or changes an entry under one.
THEOREM EntriesStay == Spec => PublishedStays
  <1> DEFINE Stay == ~fellThrough' =>
                \A n \in Node : \A i \in bitmap[n] :
                   /\ i \in bitmap'[n]
                   /\ id'[n][i] = id[n][i]
                   /\ fgpt'[n][i] = fgpt[n][i]
  <1>1. TypeInv /\ ClaimInv /\ [Next]_vars => [Stay]_vars
    <2> SUFFICES ASSUME TypeInv, ClaimInv, [Next]_vars PROVE [Stay]_vars
      OBVIOUS
    <2>1. ASSUME NEW t \in Threads, ThreadStep(t) PROVE Stay
      BY <2>1, StaysStep
    <2> QED
      BY <2>1 DEF Next, Terminated
  <1> QED
    BY <1>1, TypeInvariant, ClaimInvariant, PTL DEF Spec, PublishedStays
-----------------------------------------------------------------------------
(* The counters.                                                           *)

Parents == {n \in Node : valid[n]}

\* The threads whose group of nodes is not linked yet, or not counted yet, and
\* those whose entry is published and not counted yet.
At(places) == {t \in Threads : pc[t] \in places}
Linking == At({"link"})
Uncounted == At({"link", "unlockFirst", "addNumNodes"})
Returning == At({"addDegree"})

\* Every group the pool has handed out is linked or in the hands of a thread,
\* and in num_nodes or still to be added to it.
NodesInv ==
    /\ IsFiniteSet(Linking) /\ IsFiniteSet(Uncounted)
    /\ next = 1 + NUM_BRANCH * (Cardinality(Parents) + Cardinality(Linking))
    /\ next = numNodes + NUM_BRANCH * Cardinality(Uncounted)

\* degree lags behind the published entries by the calls about to return.
DegreeInv ==
    /\ IsFiniteSet(Returning)
    /\ ~fellThrough => Cardinality(Published) = degree + Cardinality(Returning)

LEMMA CountInit == Init => NodesInv /\ DegreeInv
  <1> SUFFICES ASSUME Init PROVE NodesInv /\ DegreeInv
    OBVIOUS
  <1>1. Linking = {} /\ Uncounted = {} /\ Returning = {}
    BY DEF Init, Linking, Uncounted, Returning, At
  <1>2. Parents = {} /\ Published = {}
    BY DEF Init, Parents, Published, Node
  <1>3. next = 1 /\ numNodes = 1 /\ degree = 0
    BY DEF Init
  <1> QED
    BY <1>1, <1>2, <1>3, FS_EmptySet, NumBranchType DEF NodesInv, DegreeInv

LEMMA FiniteTree ==
    ASSUME TypeOK
    PROVE  /\ IsFiniteSet(Parents) /\ Cardinality(Parents) \in Nat
           /\ IsFiniteSet(Published) /\ Cardinality(Published) \in Nat
  <1>1. next - 1 \in Int /\ MAX_ENTRY_NUM - 1 \in Int
    BY ConstantsAssumption DEF TypeOK
  <1>2. IsFiniteSet(Node) /\ IsFiniteSet(Slots)
    BY <1>1, FS_Interval DEF Node, Slots
  <1>3. IsFiniteSet(Node \X Slots)
    BY <1>2, FS_Product
  <1>4. Parents \subseteq Node /\ Published \subseteq Node \X Slots
    BY DEF Parents, Published
  <1> QED
    BY <1>2, <1>3, <1>4, FS_Subset, FS_CardinalityType

\* A step of t moves only t in and out of the places.
LEMMA AtStep ==
    ASSUME TypeInv, NEW t \in Threads, ThreadStep(t), NEW S
    PROVE  /\ pc[t] \in S /\ pc'[t] \in S => At(S)' = At(S)
           /\ pc[t] \notin S /\ pc'[t] \notin S => At(S)' = At(S)
           /\ pc[t] \notin S /\ pc'[t] \in S
                 => At(S)' = At(S) \cup {t} /\ t \notin At(S)
           /\ pc[t] \in S /\ pc'[t] \notin S
                 => At(S)' = At(S) \ {t} /\ t \in At(S)
  BY OthersFrame DEF At

\* num_nodes follows the nodes of the tree.
LEMMA NodesStep ==
    ASSUME TypeInv, TreeInv, NodesInv, NEW t \in Threads, ThreadStep(t)
    PROVE  NodesInv'
  <1>0. /\ Cardinality(Parents) \in Nat /\ IsFiniteSet(Parents)
        /\ Cardinality(Linking) \in Nat /\ Cardinality(Uncounted) \in Nat
        /\ NUM_BRANCH \in Nat /\ next \in Nat /\ numNodes \in Nat
    BY FiniteTree, FS_CardinalityType, NumBranchType
    DEF TypeInv, TypeOK, NodesInv
  <1>a. \A x \in Nat : NUM_BRANCH * (x + 1) = NUM_BRANCH * x + NUM_BRANCH
    BY <1>0
  <1> DEFINE U == {"link", "unlockFirst", "addNumNodes"}
  <1>1. CASE AllocBump(t)
    <2>1. /\ next' = next + NUM_BRANCH /\ numNodes' = numNodes
          /\ pc[t] = "allocBump" /\ pc'[t] = "link"
      BY <1>1, AllocStep, AllocLocal
    <2>2. Parents' = Parents
      BY <1>1, AllocStep DEF Parents
    <2>3. Linking' = Linking \cup {t} /\ t \notin Linking
      BY <2>1, AtStep DEF Linking
    <2>4. Uncounted' = Uncounted \cup {t} /\ t \notin Uncounted
      BY <2>1, AtStep DEF Uncounted
    <2>5. /\ IsFiniteSet(Linking') /\ IsFiniteSet(Uncounted')
          /\ Cardinality(Linking') = Cardinality(Linking) + 1
          /\ Cardinality(Uncounted') = Cardinality(Uncounted) + 1
      BY <2>3, <2>4, FS_AddElement DEF NodesInv
    <2>6. NUM_BRANCH * (Cardinality(Parents) + (Cardinality(Linking) + 1))
             = NUM_BRANCH * (Cardinality(Parents) + Cardinality(Linking))
               + NUM_BRANCH
      BY <1>0
    <2> QED
      BY <1>0, <1>a, <2>1, <2>2, <2>5, <2>6 DEF NodesInv
  <1>2. CASE Link(t)
    <2>1. /\ next' = next /\ numNodes' = numNodes
          /\ pc[t] = "link" /\ pc'[t] = "unlockFirst"
          /\ valid' = [valid EXCEPT ![cur[t]] = TRUE] /\ Node' = Node
          /\ cur[t] \in Node /\ valid \in [Node -> BOOLEAN]
      BY <1>2 DEF Link, Goto, Node, poolVars, counters, TypeInv, TypeOK
    <2>2. Parents' = Parents \cup {cur[t]} /\ cur[t] \notin Parents
      BY <2>1 DEF Parents, TreeInv, FreshInv
    <2>3. Linking' = Linking \ {t} /\ t \in Linking
      BY <2>1, AtStep DEF Linking
    <2>4. Uncounted' = Uncounted
      BY <2>1, AtStep DEF Uncounted
    <2>5. /\ Cardinality(Parents') = Cardinality(Parents) + 1
          /\ IsFiniteSet(Linking')
          /\ Cardinality(Linking') = Cardinality(Linking) - 1
      BY <1>0, <2>2, <2>3, FS_AddElement, FS_RemoveElement DEF NodesInv
    <2>6. Cardinality(Parents) + 1 + (Cardinality(Linking) - 1)
             = Cardinality(Parents) + Cardinality(Linking)
      BY <1>0
    <2> QED
      BY <2>1, <2>4, <2>5, <2>6 DEF NodesInv
  <1>3. CASE AddNumNodes(t)
    <2>1. /\ next' = next /\ numNodes' = numNodes + NUM_BRANCH
          /\ pc[t] = "addNumNodes" /\ pc'[t] = "descend"
          /\ valid' = valid
      BY <1>3 DEF AddNumNodes, Goto, poolVars, treeVars, TypeInv, TypeOK
    <2>2. Parents' = Parents
      BY <2>1 DEF Parents, Node
    <2>3. Linking' = Linking
      BY <2>1, AtStep DEF Linking
    <2>4. Uncounted' = Uncounted \ {t} /\ t \in Uncounted
      BY <2>1, AtStep DEF Uncounted
    <2>5. /\ IsFiniteSet(Uncounted')
          /\ Cardinality(Uncounted') = Cardinality(Uncounted) - 1
          /\ Cardinality(Uncounted') \in Nat
      BY <1>0, <2>4, FS_RemoveElement, FS_CardinalityType DEF NodesInv
    <2>6. NUM_BRANCH * Cardinality(Uncounted)
             = NUM_BRANCH * Cardinality(Uncounted') + NUM_BRANCH
      BY <1>0, <1>a, <2>5
    <2>7. NUM_BRANCH * Cardinality(Uncounted') \in Nat
      BY <1>0, <2>5
    <2> QED
      BY <1>0, <2>1, <2>2, <2>3, <2>5, <2>6, <2>7 DEF NodesInv
  <1>4. CASE ~(AllocBump(t) \/ Link(t) \/ AddNumNodes(t))
    <2>1. /\ UNCHANGED <<next, numNodes, valid>>
          /\ pc[t] \in U <=> pc'[t] \in U
          /\ pc[t] = "link" <=> pc'[t] = "link"
      BY <1>4
      DEF ThreadStep, TypeInv, TypeOK, Goto, poolVars, treeVars, counters,
          Begin, LoadLocate, GetReadLock, CompareMaps, LoadFgpt,
          FoundFallsThrough, NotFound, TryLoad, TryCas, StoreId, StoreFgpt,
          SetEntry, AddDegree, ReadUnlock, GetWriteLock, CheckValid,
          AllocCheck, ReleaseWriteLock, Descend
    <2>2. Parents' = Parents
      BY <2>1 DEF Parents, Node
    <2>3. Linking' = Linking /\ Uncounted' = Uncounted
      BY <2>1, AtStep DEF Linking, Uncounted
    <2> QED
      BY <2>1, <2>2, <2>3 DEF NodesInv
  <1> QED
    BY <1>1, <1>2, <1>3, <1>4

\* degree follows the entries of the tree.
LEMMA DegreeStep ==
    ASSUME TypeInv, ClaimInv, DegreeInv, NEW t \in Threads, ThreadStep(t)
    PROVE  DegreeInv'
  <1>0. /\ Cardinality(Published) \in Nat /\ IsFiniteSet(Published)
        /\ Cardinality(Returning) \in Nat /\ degree \in Nat
    BY FiniteTree, FS_CardinalityType DEF TypeInv, TypeOK, DegreeInv
  <1>1. CASE SetEntry(t)
    <2> DEFINE e == <<cur[t], high[t]>>
    <2>1. /\ bitmap' = [bitmap EXCEPT ![cur[t]] = @ \cup {high[t]}]
          /\ pc[t] = "setEntry" /\ pc'[t] = "addDegree"
          /\ degree' = degree /\ Node' = Node /\ fellThrough' = fellThrough
          /\ cur[t] \in Node /\ high[t] \in Slots
          /\ bitmap \in [Node -> SUBSET Slots]
      BY <1>1
      DEF SetEntry, Goto, Node, poolVars, counters, TypeInv, TypeOK, ShapeInv
    <2>2. Returning' = Returning \cup {t} /\ t \notin Returning
      BY <2>1, AtStep DEF Returning
    <2>3. /\ IsFiniteSet(Returning')
          /\ Cardinality(Returning') = Cardinality(Returning) + 1
      BY <2>2, FS_AddElement DEF DegreeInv
    <2>4. ASSUME ~fellThrough
          PROVE  Cardinality(Published') = Cardinality(Published) + 1
      <3>1. high[t] \notin bitmap[cur[t]]
        BY <2>1, <2>4 DEF ClaimInv, OneWriterPerNode, Writing
      <3>2. e \notin Published
        BY <3>1 DEF Published
      <3>3. \A p \in Node \X Slots :
               p[2] \in bitmap'[p[1]] <=> p[2] \in bitmap[p[1]] \/ p = e
        BY <2>1
      <3>4. Published' = Published \cup {e}
        BY <2>1, <3>3 DEF Published
      <3> HIDE DEF e
      <3> QED
        BY <1>0, <3>2, <3>4, FS_AddElement
    <2> QED
      BY <1>0, <2>1, <2>3, <2>4 DEF DegreeInv
  <1>2. CASE AddDegree(t)
    <2>1. /\ degree' = degree + 1 /\ UNCHANGED <<bitmap, next, fellThrough>>
          /\ pc[t] = "addDegree" /\ pc'[t] = "idle"
      BY <1>2 DEF AddDegree, Goto, poolVars, slotVars, TypeInv, TypeOK
    <2>2. Published' = Published
      BY <2>1 DEF Published, Node
    <2>3. Returning' = Returning \ {t} /\ t \in Returning
      BY <2>1, AtStep DEF Returning
    <2>4. /\ IsFiniteSet(Returning')
          /\ Cardinality(Returning') = Cardinality(Returning) - 1
      BY <2>3, FS_RemoveElement DEF DegreeInv
    <2> QED
      BY <1>0, <2>1, <2>2, <2>4 DEF DegreeInv
  <1>3. CASE ~(SetEntry(t) \/ AddDegree(t))
    <2>1. /\ degree' = degree
          /\ pc[t] = "addDegree" <=> pc'[t] = "addDegree"
      BY <1>3
      DEF ThreadStep, TypeInv, TypeOK, Goto, counters,
          Begin, LoadLocate, GetReadLock, CompareMaps, LoadFgpt,
          FoundFallsThrough, NotFound, TryLoad, TryCas, StoreId, StoreFgpt,
          ReadUnlock, GetWriteLock, CheckValid, AllocCheck, AllocBump, Link,
          ReleaseWriteLock, AddNumNodes, Descend
    <2>4. ~fellThrough' => ~fellThrough
      BY DEF ThreadStep, Begin, LoadLocate, GetReadLock, CompareMaps,
          LoadFgpt, FoundFallsThrough, NotFound, TryLoad, TryCas, StoreId,
          StoreFgpt, SetEntry, AddDegree, ReadUnlock, GetWriteLock,
          CheckValid, AllocCheck, AllocBump, Link, ReleaseWriteLock,
          AddNumNodes, Descend
    <2>2. Returning' = Returning
      BY <2>1, AtStep DEF Returning
    <2>3. Published' = Published
      <3>1. CASE AllocBump(t)
        BY <3>1, AllocStep DEF Published
      <3>2. CASE ~AllocBump(t)
        <4>1. UNCHANGED <<bitmap, next>>
          BY <1>3, <3>2
          DEF ThreadStep, slotVars, poolVars, Begin, LoadLocate, GetReadLock,
              CompareMaps, LoadFgpt, FoundFallsThrough, NotFound, TryLoad,
              TryCas, StoreId, StoreFgpt, ReadUnlock, GetWriteLock, CheckValid,
              AllocCheck, Link, ReleaseWriteLock, AddNumNodes, Descend
        <4> QED
          BY <4>1 DEF Published, Node
      <3> QED
        BY <3>1, <3>2
    <2> QED
      BY <2>1, <2>2, <2>3, <2>4 DEF DegreeInv
  <1> QED
    BY <1>1, <1>2, <1>3

LEMMA CountInvariant == Spec => [](NodesInv /\ DegreeInv)
  <1>1. /\ TypeInv /\ TreeInv /\ ClaimInv /\ NodesInv /\ DegreeInv
        /\ [Next]_vars
        => NodesInv' /\ DegreeInv'
    <2> SUFFICES ASSUME TypeInv, TreeInv, ClaimInv, NodesInv, DegreeInv,
                        [Next]_vars
                 PROVE  NodesInv' /\ DegreeInv'
      OBVIOUS
    <2>1. ASSUME NEW t \in Threads, ThreadStep(t)
          PROVE  NodesInv' /\ DegreeInv'
      BY <2>1, NodesStep, DegreeStep
    <2>2. CASE UNCHANGED vars
      BY <2>2 DEF vars, NodesInv, DegreeInv, Parents, Linking, Uncounted,
                  Returning, At, Published, Node
    <2> QED
      BY <2>1, <2>2 DEF Next, Terminated
  <1> QED
    BY <1>1, CountInit, TreeInvariant, ClaimInvariant, PTL DEF Spec

\* When the batch is done num_nodes is the number of nodes in the tree, every
\* node allocated is in it, and degree is the number of edges published, as
\* long as no call has found its edge already stored.
THEOREM CountersCorrect == Spec => []CountersExact
  <1>1. TypeInv /\ ClaimInv /\ NodesInv /\ DegreeInv => CountersExact
    <2> SUFFICES ASSUME TypeInv, ClaimInv, NodesInv, DegreeInv, AllDone,
                        ~fellThrough
                 PROVE  /\ numNodes = next
                        /\ numNodes = 1 + NUM_BRANCH * Cardinality(Parents)
                        /\ degree = Cardinality(Published)
                        /\ locate = bitmap
      BY DEF CountersExact, Parents
    <2>1. Linking = {} /\ Uncounted = {} /\ Returning = {}
      BY DEF AllDone, Linking, Uncounted, Returning, At
    <2>2. /\ Cardinality(Linking) = 0 /\ Cardinality(Uncounted) = 0
          /\ Cardinality(Returning) = 0
      BY <2>1, FS_EmptySet
    <2>3. /\ NUM_BRANCH \in Nat /\ numNodes \in Nat /\ degree \in Nat
          /\ Cardinality(Parents) \in Nat /\ Cardinality(Published) \in Nat
      BY FiniteTree, NumBranchType DEF TypeInv, TypeOK
    <2>4. ASSUME NEW n \in Node PROVE locate[n] = bitmap[n]
      <3>1. \A u \in Threads : ~Writing(u)
        BY DEF AllDone, Writing
      <3>2. bitmap[n] \subseteq locate[n] /\ locate[n] \ bitmap[n] = {}
        BY <3>1 DEF ClaimInv, OneWriterPerNode
      <3> QED
        BY <3>2
    <2>5. locate = bitmap
      BY <2>4 DEF TypeInv, TypeOK
    <2> QED
      BY <2>2, <2>3, <2>5 DEF NodesInv, DegreeInv
  <1> QED
    BY <1>1, TypeInvariant, ClaimInvariant, CountInvariant, PTL

-----------------------------------------------------------------------------
(* The path of a key.                                                      *)

\* index_branch_addr: where a search for k goes from node m.
Succ(m, k) == child[m] + Branch(k, level[m])

\* The function that OnPath defines by recursion exists: n is visited when
\* some set of nodes has it and, with each of its nodes but the root, a node
\* that comes before and leads there.
LEMMA PathExists ==
    ASSUME TypeOK, NEW k
    PROVE  \E f : f = [n \in Node |->
                          \/ n = 0
                          \/ \E m \in 0 .. n - 1 :
                                /\ valid[m]
                                /\ n = child[m] + Branch(k, level[m])
                                /\ f[m]]
  <1> DEFINE Leads(m, n) == valid[m] /\ n = child[m] + Branch(k, level[m])
             Closed(S) == \A n \in S : \/ n = 0
                                       \/ \E m \in 0 .. n - 1 :
                                             m \in S /\ Leads(m, n)
             Way(n) == \E S \in SUBSET Node : n \in S /\ Closed(S)
             f == [n \in Node |-> Way(n)]
  <1> HIDE DEF Leads
  <1>1. ASSUME NEW n \in Node
        PROVE  Way(n) <=> \/ n = 0
                          \/ \E m \in 0 .. n - 1 : Leads(m, n) /\ Way(m)
    <2>1. ASSUME n = 0 PROVE Way(n)
      <3>1. Closed({n}) /\ {n} \in SUBSET Node /\ n \in {n}
        BY <2>1
      <3> QED
        BY <3>1
    <2>2. ASSUME NEW m \in 0 .. n - 1, Leads(m, n), Way(m) PROVE Way(n)
      <3>1. PICK S \in SUBSET Node : m \in S /\ Closed(S)
        BY <2>2
      <3>2. Closed(S \cup {n})
        BY <2>2, <3>1
      <3>3. S \cup {n} \in SUBSET Node /\ n \in S \cup {n}
        BY <3>1
      <3> QED
        BY <3>2, <3>3
    <2>3. ASSUME Way(n), n # 0
          PROVE  \E m \in 0 .. n - 1 : Leads(m, n) /\ Way(m)
      <3>1. PICK S \in SUBSET Node : n \in S /\ Closed(S)
        BY <2>3
      <3>2. PICK m \in 0 .. n - 1 : m \in S /\ Leads(m, n)
        BY <2>3, <3>1
      <3> QED
        BY <3>1, <3>2
    <2> QED
      BY <2>1, <2>2, <2>3
  <1>2. \A n \in Node : \A m \in 0 .. n - 1 : m \in Node
    BY DEF Node, TypeOK
  <1> HIDE DEF Way
  <1>3. f = [n \in Node |-> \/ n = 0
                            \/ \E m \in 0 .. n - 1 : Leads(m, n) /\ f[m]]
    <2>1. \A n \in Node : f[n] <=> Way(n)
      OBVIOUS
    <2>2. \A n \in Node : Way(n) <=>
             (n = 0 \/ \E m \in 0 .. n - 1 : Leads(m, n) /\ f[m])
      BY <1>1, <1>2, <2>1
    <2>3. \A n \in Node : Way(n) \in BOOLEAN
      BY DEF Way
    <2> HIDE DEF f
    <2>4. \A n \in Node : Way(n) =
             (n = 0 \/ \E m \in 0 .. n - 1 : Leads(m, n) /\ f[m])
      BY <2>2, <2>3
    <2> QED
      BY <2>4, Zenon DEF f
  <1> QED
    BY <1>3 DEF Leads

\* What the recursion comes to: the path starts at the root, follows the
\* children and has nothing else.
PathLaw ==
    \A k \in Nat :
       /\ 0 \in OnPath(k) /\ OnPath(k) \subseteq Node
       /\ \A m \in OnPath(k), n \in Node :
             m < n /\ valid[m] /\ n = Succ(m, k) => n \in OnPath(k)
       /\ \A n \in OnPath(k) : n # 0 =>
             \E m \in OnPath(k) : m < n /\ valid[m] /\ n = Succ(m, k)

LEMMA PathFacts == TypeOK => PathLaw
  <1> SUFFICES ASSUME TypeOK, NEW k \in Nat
               PROVE
       /\ 0 \in OnPath(k) /\ OnPath(k) \subseteq Node
       /\ \A m \in OnPath(k), n \in Node :
             m < n /\ valid[m] /\ n = Succ(m, k) => n \in OnPath(k)
       /\ \A n \in OnPath(k) : n # 0 =>
             \E m \in OnPath(k) : m < n /\ valid[m] /\ n = Succ(m, k)
    BY DEF PathLaw
  <1> DEFINE Eqn(f) == f = [n \in Node |->
                          \/ n = 0
                          \/ \E m \in 0 .. n - 1 :
                                /\ valid[m]
                                /\ n = child[m] + Branch(k, level[m])
                                /\ f[m]]
             visited == CHOOSE f : Eqn(f)
  <1>1. \E f : Eqn(f)
    BY PathExists
  <1>2. Eqn(visited)
    <2> HIDE DEF Eqn
    <2> QED
      BY <1>1
  <1>3. OnPath(k) = {n \in Node : visited[n]}
    BY DEF OnPath
  <1>4. \A n \in Node : visited[n] <=>
           \/ n = 0
           \/ \E m \in 0 .. n - 1 :
                 valid[m] /\ n = Succ(m, k) /\ visited[m]
    <2> HIDE DEF visited
    <2> QED
      BY <1>2 DEF Succ
  <1>5. 0 \in Node /\ \A n \in Node : n \in Nat /\ 0 .. n - 1 \subseteq Node
    BY DEF TypeOK, Node
  <1> HIDE DEF visited
  <1> QED
    BY <1>3, <1>4, <1>5
LEMMA PathFactsNext == TypeOK' => PathLaw'
  BY PathFacts, PTL

\* On the path of a key every node but the last has children, and the next
\* one is the child that the key selects.
Chained ==
    \A k \in Nat : \A x, y \in OnPath(k) :
       x < y => valid[x] /\ Succ(x, k) <= y

LEMMA PathChained == TypeOK => Chained
  <1> SUFFICES ASSUME TypeOK, NEW k \in Nat
               PROVE  \A x, y \in OnPath(k) :
                         x < y => valid[x] /\ Succ(x, k) <= y
    BY DEF Chained
  <1>1. /\ OnPath(k) \subseteq Node
        /\ \A n \in OnPath(k) : n # 0 =>
              \E m \in OnPath(k) : m < n /\ valid[m] /\ n = Succ(m, k)
    BY PathFacts DEF PathLaw
  <1>2. Node \subseteq Nat /\ \A m \in OnPath(k) : Succ(m, k) \in Nat
    <2>1. Node \subseteq Nat
      BY DEF Node, TypeOK
    <2>2. ASSUME NEW m \in OnPath(k) PROVE Succ(m, k) \in Nat
      <3>1. child[m] \in Nat /\ level[m] \in Nat
        BY <1>1 DEF TypeOK
      <3>2. Branch(k, level[m]) \in 0 .. NUM_BRANCH - 1
        BY <3>1, BranchInRange
      <3>3. Branch(k, level[m]) \in Nat
        BY <3>2, NumBranchType
      <3> QED
        BY <3>1, <3>3 DEF Succ
    <2> QED
      BY <2>1, <2>2
  <1> DEFINE Fine(y) == \A x \in OnPath(k) :
                           x < y => valid[x] /\ Succ(x, k) <= y
             Bad == {y \in OnPath(k) : ~Fine(y)}
  <1>3. ASSUME Bad # {} PROVE FALSE
    <2>1. PICK y \in Bad : \A z \in Bad : y <= z
      BY <1>1, <1>2, <1>3, LeastNumber
    <2>2. PICK x \in OnPath(k) : x < y /\ ~(valid[x] /\ Succ(x, k) <= y)
      BY <2>1
    <2>3. PICK m \in OnPath(k) : m < y /\ valid[m] /\ y = Succ(m, k)
      BY <1>1, <1>2, <2>1, <2>2
    <2>4. Fine(m) /\ Fine(x)
      BY <1>1, <1>2, <2>1, <2>2, <2>3
    <2>5. x \in Nat /\ m \in Nat /\ y \in Nat /\ Succ(x, k) \in Nat
      BY <1>1, <1>2, <2>1
    <2>6. CASE x < m
      BY <2>2, <2>3, <2>4, <2>5, <2>6
    <2>7. CASE x = m
      BY <2>2, <2>3, <2>5, <2>7
    <2>8. CASE m < x
      BY <2>2, <2>3, <2>4, <2>5, <2>8
    <2> QED
      BY <2>5, <2>6, <2>7, <2>8
  <1> QED
    BY <1>3

LEMMA PathChainedNext == TypeOK' => Chained'
  BY PathChained, PTL

\* A node that has children keeps them.
LEMMA ParentsStay ==
    ASSUME TypeInv, TreeInv, NEW t \in Threads, ThreadStep(t),
           NEW m \in Node, valid[m]
    PROVE  valid'[m] /\ \A k : Succ(m, k)' = Succ(m, k)
  <1>1. CASE OffTree(t)
    BY <1>1, OffTreeStep DEF Succ
  <1>2. CASE GetWriteLock(t) \/ ReleaseWriteLock(t)
    BY <1>2 DEF GetWriteLock, ReleaseWriteLock, Succ
  <1>3. CASE AllocBump(t)
    BY <1>3, AllocStep DEF Succ
  <1>4. CASE Link(t)
    <2>1. m # cur[t] /\ m \notin Children(mine[t])
      BY <1>4 DEF Link, Goto, TreeInv, FreshInv
    <2>2. child'[m] = child[m] /\ level'[m] = level[m] /\ valid'[m]
      BY <1>4, <2>1 DEF Link, TypeInv, TypeOK
    <2> QED
      BY <2>2 DEF Succ
  <1> QED
    BY <1>1, <1>2, <1>3, <1>4 DEF ThreadStep, OffTree

\* A step lengthens the path of a key only by a node it has just linked.
LEMMA PathStep ==
    ASSUME TypeInv, TreeInv, NEW t \in Threads, ThreadStep(t), NEW k \in Nat
    PROVE  /\ OnPath(k) \subseteq OnPath(k)'
           /\ \A n \in OnPath(k)' : n \notin OnPath(k) =>
                 Link(t) /\ n \in Children(mine[t]) /\ ~valid'[n]
  <1>1. TypeOK /\ TypeOK' /\ Node \subseteq Node'
    BY TypeOKStep, GrowStep DEF TypeInv
  <1>2. /\ 0 \in OnPath(k) /\ OnPath(k) \subseteq Node
        /\ \A m \in OnPath(k), n \in Node :
              m < n /\ valid[m] /\ n = Succ(m, k) => n \in OnPath(k)
        /\ \A n \in OnPath(k) : n # 0 =>
              \E m \in OnPath(k) : m < n /\ valid[m] /\ n = Succ(m, k)
    BY <1>1, PathFacts DEF PathLaw
  <1>3. /\ 0 \in OnPath(k)' /\ OnPath(k)' \subseteq Node'
        /\ \A m \in OnPath(k)', n \in Node' :
              m < n /\ valid'[m] /\ n = Succ(m, k)' => n \in OnPath(k)'
        /\ \A n \in OnPath(k)' : n # 0 =>
              \E m \in OnPath(k)' : m < n /\ valid'[m] /\ n = Succ(m, k)'
    BY <1>1, PathFactsNext DEF PathLaw
  <1>4. Node \subseteq Nat /\ Node' \subseteq Nat
    <2>1. next \in Nat /\ next' \in Nat
      BY <1>1 DEF TypeOK
    <2>2. \A a \in Nat : 0 .. a - 1 \subseteq Nat
      OBVIOUS
    <2>3. Node' = 0 .. next' - 1
      BY DEF Node
    <2> QED
      BY <2>1, <2>2, <2>3 DEF Node
  <1>5. ASSUME OnPath(k) \ OnPath(k)' # {} PROVE FALSE
    <2>1. PICK n \in OnPath(k) \ OnPath(k)' :
             \A z \in OnPath(k) \ OnPath(k)' : n <= z
      BY <1>2, <1>4, <1>5, LeastNumber
    <2>2. PICK m \in OnPath(k) : m < n /\ valid[m] /\ n = Succ(m, k)
      BY <1>2, <1>3, <2>1
    <2>3. m \in OnPath(k)'
      <3>1. m \in Nat /\ n \in Nat
        BY <1>2, <1>4, <2>1, <2>2
      <3> QED
        BY <2>1, <2>2, <3>1
    <2>4. valid'[m] /\ n = Succ(m, k)'
      BY <1>2, <2>2, ParentsStay
    <2> QED
      BY <1>1, <1>2, <1>3, <2>1, <2>2, <2>3, <2>4
  <1> DEFINE New(n) == Link(t) /\ n \in Children(mine[t]) /\ ~valid'[n]
             Odd == {n \in OnPath(k)' : n \notin OnPath(k) /\ ~New(n)}
  <1>6. ASSUME Odd # {} PROVE FALSE
    <2>1. PICK n \in Odd : \A z \in Odd : n <= z
      BY <1>3, <1>4, <1>6, LeastNumber
    <2>2. PICK m \in OnPath(k)' : m < n /\ valid'[m] /\ n = Succ(m, k)'
      BY <1>2, <1>3, <2>1
    <2>3. m \in OnPath(k)
      <3>1. m \in Nat /\ n \in Nat
        BY <1>3, <1>4, <2>1, <2>2
      <3>2. m \notin Odd
        BY <2>1, <2>2, <3>1
      <3> QED
        BY <2>2, <3>2
    <2>4. m \in Node /\ (valid[m] \/ (Link(t) /\ m = cur[t]))
      BY <1>3, <2>2, GrowStep
    <2>5. CASE valid[m]
      <3>1. n = Succ(m, k)
        BY <2>2, <2>4, <2>5, ParentsStay
      <3>2. n \in Node
        <4>1. Succ(m, k) \in Children(child[m])
          <5>1. child[m] \in Nat /\ level[m] \in Nat
            BY <1>1, <2>4 DEF TypeOK
          <5>2. Branch(k, level[m]) \in 0 .. NUM_BRANCH - 1
            BY <5>1, BranchInRange
          <5> QED
            BY <5>1, <5>2, NumBranchType DEF Succ, Children
        <4>2. Children(child[m]) \subseteq Node
          BY <1>1, <2>4, <2>5, GroupFacts DEF TypeInv, ShapeInv, TypeOK
        <4> QED
          BY <3>1, <4>1, <4>2
      <3> QED
        BY <1>2, <2>1, <2>2, <2>3, <2>5, <3>1, <3>2
    <2>6. CASE Link(t) /\ m = cur[t]
      <3>1. /\ child'[m] = mine[t] /\ mine[t] \in Nat
            /\ valid' = [valid EXCEPT ![cur[t]] = TRUE]
            /\ pc[t] = "link"
        BY <2>4, <2>6 DEF Link, Goto, TypeInv, TypeOK
      <3>2. n \in Children(mine[t])
        <4>1. level'[m] \in Nat /\ NUM_BRANCH' = NUM_BRANCH
          BY <1>1, <2>4 DEF TypeOK, NUM_BRANCH
        <4>2. Succ(m, k)' = mine[t] + Branch(k, level'[m])
          BY <3>1 DEF Succ
        <4>3. Branch(k, level'[m]) \in 0 .. NUM_BRANCH - 1
          BY <4>1, BranchInRange
        <4> QED
          BY <2>2, <3>1, <4>2, <4>3, NumBranchType DEF Children
      <3>3. ~valid'[n]
        <4>1. ~valid[n] /\ n # cur[t]
          BY <2>6, <3>1, <3>2 DEF TreeInv, FreshInv
        <4>2. Children(mine[t]) \subseteq Node
          BY <3>1, GroupFacts DEF TypeInv, ShapeInv
        <4> QED
          BY <1>1, <3>1, <3>2, <4>1, <4>2 DEF TypeOK
      <3> QED
        BY <2>1, <2>6, <3>2, <3>3
    <2> QED
      BY <2>4, <2>5, <2>6
  <1> QED
    BY <1>5, <1>6
-----------------------------------------------------------------------------
(* Where a thread is in its search, and what it knows.                     *)

Searching(t) == pc[t] \notin {"idle", "addDegree"}

\* A thread that has done with a node goes on to its children.
LeavingNode(t) ==
    \/ pc[t] \in {"readUnlock", "writeLock", "addNumNodes", "descend"}
    \/ InBranchOut(t)

Holds(n, bm, k) == \E i \in bm : id[n][i] = k

\* No node of the path of k before n holds k.
NotBefore(n, k) ==
    /\ n \in OnPath(k)
    /\ \A m \in OnPath(k) : m < n => ~Holds(m, bitmap[m], k)

\* What a call knows of the node it is at: what it will have seen when it
\* compares the ids, that the map it searched does not hold the key, and that
\* nothing came in since when it claims a slot or goes down.
LookedAt(t) ==
    /\ pc[t] = "matchIds" =>
          \A i \in oldBm[t] : id[cur[t]][i] = key[t] => i \in seen[t]
    /\ pc[t] \in {"tryLoad", "tryCas"} => ~Holds(cur[t], oldBm[t], key[t])
    /\ Writing(t) \/ LeavingNode(t)
          => ~Holds(cur[t], bitmap[cur[t]], key[t])

\* What a call has stored so far in the slot it owns.
FilledIn(t) ==
    /\ pc[t] \in {"storeFgpt", "setEntry"} => id[cur[t]][high[t]] = key[t]
    /\ pc[t] = "setEntry" => fgpt[cur[t]][high[t]] = hashcode(key[t])

CallInv(t) ==
    Searching(t) => NotBefore(cur[t], key[t]) /\ LookedAt(t) /\ FilledIn(t)

EntryInv ==
    /\ PublishedFindable
    /\ ClaimedOnce
    /\ ~fellThrough => \A t \in Threads : CallInv(t)

LEMMA EntryInit == Init => EntryInv
  BY DEF Init, EntryInv, PublishedFindable, ClaimedOnce, CallInv, Searching,
         Writing, Node

\* Bits come from set_entry only.
LEMMA NewBit ==
    ASSUME TypeInv, NEW t \in Threads, ThreadStep(t),
           NEW n \in Node', NEW i \in bitmap'[n]
    PROVE  \/ n \in Node /\ i \in bitmap[n]
           \/ SetEntry(t) /\ n = cur[t] /\ i = high[t]
  <1>1. CASE AllocBump(t)
    BY <1>1, AllocStep
  <1>2. CASE SetEntry(t)
    <2>1. /\ bitmap' = [bitmap EXCEPT ![cur[t]] = @ \cup {high[t]}]
          /\ Node' = Node
      BY <1>2 DEF SetEntry, Node, poolVars
    <2> QED
      BY <1>2, <2>1 DEF TypeInv, TypeOK
  <1>3. CASE ~AllocBump(t) /\ ~SetEntry(t)
    <2>1. UNCHANGED <<bitmap, next>>
      BY <1>3
      DEF ThreadStep, slotVars, poolVars, Begin, LoadLocate, GetReadLock,
          CompareMaps, LoadFgpt, FoundFallsThrough, NotFound, TryLoad, TryCas,
          StoreId, StoreFgpt, AddDegree, ReadUnlock, GetWriteLock, CheckValid,
          AllocCheck, Link, ReleaseWriteLock, AddNumNodes, Descend
    <2> QED
      BY <2>1 DEF Node
  <1> QED
    BY <1>1, <1>2, <1>3

LEMMA NeverForgotten ==
    ASSUME NEW t \in Threads, ThreadStep(t), ~fellThrough'
    PROVE  ~fellThrough /\ ~FoundFallsThrough(t)
  <1>1. ~fellThrough
    BY DEF ThreadStep, Begin, LoadLocate, GetReadLock, CompareMaps, LoadFgpt,
        FoundFallsThrough, NotFound, TryLoad, TryCas, StoreId, StoreFgpt,
        SetEntry, AddDegree, ReadUnlock, GetWriteLock, CheckValid, AllocCheck,
        AllocBump, Link, ReleaseWriteLock, AddNumNodes, Descend
  <1>2. ~FoundFallsThrough(t)
    BY DEF FoundFallsThrough
  <1> QED
    BY <1>1, <1>2

\* A key that a call has not met on the way to a node with a free slot, nor
\* in that node, is not published anywhere.
LEMMA NotPublished ==
    ASSUME TypeInv, TreeInv, EntryInv, ~fellThrough,
           NEW k \in Nat, NEW c \in Node, bitmap[c] # Slots,
           NotBefore(c, k), ~Holds(c, bitmap[c], k),
           NEW n \in Node, NEW i \in bitmap[n]
    PROVE  id[n][i] # k
  <1> SUFFICES ASSUME id[n][i] = k PROVE FALSE
    OBVIOUS
  <1>1. n \in OnPath(k) /\ c \in OnPath(k)
    BY DEF EntryInv, PublishedFindable, NotBefore
  <1>2. n \in Nat /\ c \in Nat
    BY DEF Node, TypeInv, TypeOK
  <1>3. CASE n < c
    BY <1>1, <1>3 DEF NotBefore, Holds
  <1>4. CASE n = c
    BY <1>4 DEF Holds
  <1>5. CASE c < n
    <2>1. valid[c]
      BY <1>1, <1>5, PathChained DEF Chained, TypeInv
    <2> QED
      BY <2>1 DEF TreeInv, FullInv
  <1> QED
    BY <1>2, <1>3, <1>4, <1>5

\* Two calls for one key that both have a free slot before them are at the
\* same node.
LEMMA SameNode ==
    ASSUME TypeInv, TreeInv, NEW k \in Nat,
           NEW c \in OnPath(k), NEW d \in OnPath(k),
           bitmap[c] # Slots, bitmap[d] # Slots
    PROVE  c = d
  <1>1. c \in Node /\ d \in Node
    BY PathFacts DEF PathLaw, TypeInv
  <1>2. c \in Nat /\ d \in Nat
    BY <1>1 DEF Node, TypeInv, TypeOK
  <1>3. ~(c < d) /\ ~(d < c)
    BY <1>1, PathChained DEF Chained, TypeInv, TreeInv, FullInv
  <1> QED
    BY <1>2, <1>3

\* The owner of a slot is at a node that is not full.
LEMMA WriterFacts ==
    ASSUME TypeInv, ClaimInv, ~fellThrough, NEW t \in Threads, Writing(t)
    PROVE  high[t] \in Slots \ bitmap[cur[t]] /\ bitmap[cur[t]] # Slots
  <1>1. high[t] \in locate[cur[t]] \ bitmap[cur[t]]
    BY DEF ClaimInv, OneWriterPerNode
  <1>2. high[t] \in Slots
    BY DEF TypeInv, ShapeInv, Writing
  <1> QED
    BY <1>1, <1>2

\* A node before another one on a path is full: nothing is added to it.
LEMMA NotBeforeStep ==
    ASSUME TypeInv, TreeInv, ClaimInv, NEW t \in Threads, ThreadStep(t),
           ~fellThrough', NEW k \in Nat, NEW c \in Node, NotBefore(c, k)
    PROVE  NotBefore(c, k)'
  <1>0. ~fellThrough /\ TypeOK /\ TypeOK'
    BY NeverForgotten, TypeOKStep DEF TypeInv
  <1>1. c \in OnPath(k) /\ c \in OnPath(k)' /\ OnPath(k) \subseteq Node
    BY <1>0, PathStep, PathFacts DEF NotBefore, PathLaw
  <1>2. ASSUME NEW m \in OnPath(k)', m < c, NEW i \in bitmap'[m]
        PROVE  id'[m][i] # k
    <2>1. valid'[m] /\ m \in Node'
      BY <1>0, <1>1, <1>2, PathChainedNext, PathFactsNext
      DEF Chained, PathLaw
    <2>2. m \in OnPath(k)
      BY <2>1, PathStep
    <2>3. valid[m] /\ bitmap[m] = Slots /\ m \in Node
      BY <1>0, <1>1, <1>2, <2>2, PathChained
      DEF Chained, TreeInv, FullInv
    <2>4. i \in bitmap[m]
      <3>1. ~(SetEntry(t) /\ m = cur[t])
        BY <1>0, <2>3, WriterFacts DEF SetEntry, Goto, Writing
      <3> QED
        BY <2>1, <3>1, NewBit
    <2>5. id[m][i] # k
      BY <1>2, <2>2, <2>4 DEF NotBefore, Holds
    <2> QED
      BY <2>3, <2>4, <2>5, StaysStep
  <1> QED
    BY <1>1, <1>2 DEF NotBefore, Holds
\* Nothing comes into a node that is full or that somebody else owns a slot
\* of, and what it shows stays.
LEMMA HoldsStep ==
    ASSUME TypeInv, TreeInv, ClaimInv, NEW t \in Threads, ThreadStep(t),
           ~fellThrough', NEW n \in Node, NEW k \in Nat,
           ~(SetEntry(t) /\ n = cur[t]), ~Holds(n, bitmap[n], k)
    PROVE  ~Holds(n, bitmap[n], k)'
  <1>1. ASSUME NEW i \in bitmap'[n] PROVE id'[n][i] # k
    <2>1. n \in Node' /\ i \in bitmap[n]
      BY GrowStep, NewBit
    <2> QED
      BY <2>1, StaysStep DEF Holds
  <1> QED
    BY <1>1 DEF Holds

\* What the other calls know stays true.
LEMMA OtherCallStep ==
    ASSUME TypeInv, TreeInv, ClaimInv, EntryInv, NEW t \in Threads,
           ThreadStep(t), ~fellThrough', NEW u \in Threads \ {t}
    PROVE  CallInv(u)'
  <1> SUFFICES ASSUME Searching(u)' PROVE CallInv(u)'
    BY DEF CallInv
  <1>0. /\ ~fellThrough /\ cur[u] \in Node /\ key[u] \in Nat
        /\ oldBm[u] \subseteq Slots
    BY NeverForgotten DEF TypeInv, TypeOK
  <1>1. /\ pc'[u] = pc[u] /\ cur'[u] = cur[u] /\ key'[u] = key[u]
        /\ oldBm'[u] = oldBm[u] /\ seen'[u] = seen[u]
        /\ high'[u] = high[u]
    BY OthersFrame
  <1>2. NotBefore(cur[u], key[u]) /\ LookedAt(u) /\ FilledIn(u)
    BY <1>0, <1>1 DEF EntryInv, CallInv, Searching
  <1>3. NotBefore(cur[u], key[u])'
    BY <1>0, <1>1, <1>2, NotBeforeStep DEF NotBefore, Holds
  <1>4. pc[u] \in {"matchIds", "tryLoad", "tryCas"} =>
           \A i \in oldBm[u] : id'[cur[u]][i] = id[cur[u]][i]
    BY <1>0, StaysStep DEF ClaimInv, SearchInv
  <1>5. ASSUME Writing(u) \/ LeavingNode(u)
        PROVE  ~Holds(cur[u], bitmap[cur[u]], key[u])'
    <2>1. ~(SetEntry(t) /\ cur[u] = cur[t])
      <3>1. CASE Writing(u)
        BY <1>0, <3>1 DEF SetEntry, Goto, Writing, ClaimInv, OneWriterPerNode
      <3>2. CASE LeavingNode(u)
        <4>1. bitmap[cur[u]] = Slots
          <5>1. pc[u] \in {"addNumNodes", "descend"} => valid[cur[u]]
            BY DEF TypeInv, ShapeInv
          <5> QED
            BY <1>0, <3>2, <5>1 DEF LeavingNode, TreeInv, FullInv
        <4> QED
          BY <1>0, <4>1, WriterFacts DEF SetEntry, Goto, Writing
      <3> QED
        BY <1>5, <3>1, <3>2
    <2>2. ~Holds(cur[u], bitmap[cur[u]], key[u])
      BY <1>2, <1>5 DEF LookedAt
    <2>3. \A i \in bitmap'[cur[u]] : id'[cur[u]][i] # key[u]
      BY <1>0, <2>1, <2>2, HoldsStep DEF Holds
    <2> QED
      BY <1>1, <2>3 DEF Holds
  <1>6. LookedAt(u)'
    BY <1>1, <1>2, <1>4, <1>5
    DEF LookedAt, Holds, Writing, LeavingNode, InBranchOut
  <1>7. FilledIn(u)'
    <2>1. pc[u] \in {"storeFgpt", "setEntry"}
             => /\ id'[cur[u]][high[u]] = id[cur[u]][high[u]]
                /\ fgpt'[cur[u]][high[u]] = fgpt[cur[u]][high[u]]
      <3> SUFFICES ASSUME pc[u] \in {"storeFgpt", "setEntry"}
                   PROVE  /\ id'[cur[u]][high[u]] = id[cur[u]][high[u]]
                          /\ fgpt'[cur[u]][high[u]] = fgpt[cur[u]][high[u]]
        OBVIOUS
      <3>1. /\ id \in [Node -> [Slots -> Nat]]
            /\ fgpt \in [Node -> [Slots -> Nat]]
        BY DEF TypeInv, TypeOK
      <3>2. Writing(t) => cur[t] # cur[u]
        BY <1>0 DEF Writing, ClaimInv, OneWriterPerNode
      <3>3. CASE StoreId(t)
        BY <1>0, <3>1, <3>2, <3>3 DEF StoreId, Goto, Writing
      <3>4. CASE StoreFgpt(t)
        BY <1>0, <3>1, <3>2, <3>4 DEF StoreFgpt, Goto, Writing
      <3>5. CASE AllocBump(t)
        BY <1>0, <3>5, AllocStep
      <3>6. CASE ~(StoreId(t) \/ StoreFgpt(t) \/ AllocBump(t))
        BY <3>6
        DEF ThreadStep, slotVars, Begin, LoadLocate, GetReadLock, CompareMaps,
            LoadFgpt, FoundFallsThrough, NotFound, TryLoad, TryCas, SetEntry,
            AddDegree, ReadUnlock, GetWriteLock, CheckValid, AllocCheck, Link,
            ReleaseWriteLock, AddNumNodes, Descend
      <3> QED
        BY <3>3, <3>4, <3>5, <3>6
    <2> QED
      BY <1>1, <1>2, <2>1 DEF FilledIn
  <1> QED
    BY <1>1, <1>3, <1>6, <1>7 DEF CallInv, NotBefore, Holds
\* Going down: the node left is full and does not hold the key.
LEMMA DescendFacts ==
    ASSUME TypeInv, TreeInv, NEW t \in Threads, ThreadStep(t), Descend(t),
           NotBefore(cur[t], key[t]), LookedAt(t)
    PROVE  /\ cur'[t] = Succ(cur[t], key[t]) /\ cur'[t] \in Node
           /\ NotBefore(cur'[t], key[t])
  <1> DEFINE k == key[t]
             n == Succ(cur[t], k)
  <1>1. cur'[t] = n /\ n \in Node /\ pc[t] = "descend" /\ k \in Nat
    <2>1. cur'[t] = n /\ next' = next /\ pc[t] = "descend" /\ k \in Nat
      BY DEF Descend, Goto, Succ, poolVars, TypeInv, TypeOK
    <2>2. cur'[t] \in Node'
      BY TypeOKStep DEF TypeOK
    <2> QED
      BY <2>1, <2>2 DEF Node
  <1>2. /\ cur[t] \in OnPath(k) /\ valid[cur[t]] /\ cur[t] \in Node
        /\ ~Holds(cur[t], bitmap[cur[t]], k)
    BY <1>1 DEF NotBefore, LookedAt, LeavingNode, TypeInv, ShapeInv, TypeOK
  <1>3. cur[t] < n
    <2>1. child[cur[t]] \in Nat /\ level[cur[t]] \in Nat /\ cur[t] \in Nat
      BY <1>2 DEF TypeInv, TypeOK, Node
    <2>2. Branch(k, level[cur[t]]) \in 0 .. NUM_BRANCH - 1
      BY <1>1, <2>1, BranchInRange
    <2>3. cur[t] < child[cur[t]]
      BY <1>2 DEF TreeInv, ChildInv
    <2> QED
      BY <2>1, <2>2, <2>3, NumBranchType DEF Succ
  <1>4. n \in OnPath(k) /\ OnPath(k) \subseteq Node
    BY <1>1, <1>2, <1>3, PathFacts DEF PathLaw, TypeInv
  <1>5. ASSUME NEW m \in OnPath(k), m < n PROVE ~Holds(m, bitmap[m], k)
    <2>1. m \in Nat /\ n \in Nat /\ cur[t] \in Nat
      BY <1>1, <1>2, <1>4 DEF Node, TypeInv, TypeOK
    <2>2. CASE m < cur[t]
      BY <2>2 DEF NotBefore
    <2>3. CASE m = cur[t]
      BY <1>2, <2>3
    <2>4. CASE cur[t] < m
      BY <1>1, <1>2, <1>5, <2>1, <2>4, PathChained DEF Chained, TypeInv
    <2> QED
      BY <2>1, <2>2, <2>3, <2>4
  <1> QED
    BY <1>1, <1>4, <1>5 DEF NotBefore

\* The call that takes the step: it compares the fingerprints and the ids of
\* all the slots of the map it has read, and nothing came in since when its
\* compare-and-swap succeeds.
LEMMA OwnCallStep ==
    ASSUME TypeInv, TreeInv, ClaimInv, EntryInv, NEW t \in Threads,
           ThreadStep(t), ~fellThrough'
    PROVE  CallInv(t)'
  <1> SUFFICES ASSUME Searching(t)' PROVE CallInv(t)'
    BY DEF CallInv
  <1>0. /\ ~fellThrough /\ ~FoundFallsThrough(t)
        /\ cur[t] \in Node /\ key[t] \in Nat /\ oldBm[t] \subseteq Slots
        /\ bitmap[cur[t]] \subseteq Slots
    BY NeverForgotten DEF TypeInv, TypeOK
  <1>1. CallInv(t) /\ SearchInv(t)
    BY <1>0 DEF EntryInv, ClaimInv
  <1>2. CASE Begin(t)
    <2>1. /\ cur'[t] = 0 /\ key'[t] \in Key /\ pc'[t] = "loadLocate"
      BY <1>2 DEF Begin, Goto, TypeInv, TypeOK
    <2>6. key'[t] \in Nat
      BY <2>1, ConstantsAssumption
    <2>7. next \in Nat \ {0}
      BY DEF TypeInv, TypeOK
    <2>2. key'[t] \in Nat /\ 0 \in Node
      BY <2>6, <2>7 DEF Node
    <2>3. NotBefore(0, key'[t])
      <3>1. 0 \in OnPath(key'[t]) /\ OnPath(key'[t]) \subseteq Node
        BY <2>2, PathFacts DEF PathLaw, TypeInv
      <3>2. \A m \in Node : ~(m < 0)
        BY DEF Node, TypeInv, TypeOK
      <3> QED
        BY <3>1, <3>2 DEF NotBefore
    <2>4. \A k \in Nat : NotBefore(0, k) => NotBefore(0, k)'
      BY <2>2, NotBeforeStep DEF NotBefore, Holds
    <2>5. NotBefore(cur[t], key[t])'
      BY <2>1, <2>2, <2>3, <2>4 DEF NotBefore, Holds
    <2> QED
      BY <2>1, <2>5
      DEF CallInv, LookedAt, FilledIn, LeavingNode, InBranchOut, Writing
  <1>3. CASE Descend(t)
    <2>1. /\ pc[t] = "descend" /\ pc'[t] = "loadLocate" /\ key'[t] = key[t]
      BY <1>3 DEF Descend, Goto, callVars, TypeInv, TypeOK
    <2>2. NotBefore(cur[t], key[t]) /\ LookedAt(t)
      BY <1>1, <2>1 DEF CallInv, Searching
    <2>3. cur'[t] \in Node /\ NotBefore(cur'[t], key[t])
      BY <1>3, <2>2, DescendFacts
    <2>4. \A c \in Node : NotBefore(c, key[t]) => NotBefore(c, key[t])'
      BY <1>0, <2>1, NotBeforeStep DEF NotBefore, Holds
    <2>5. NotBefore(cur[t], key[t])'
      BY <2>1, <2>3, <2>4 DEF NotBefore, Holds
    <2> QED
      BY <2>1, <2>5
      DEF CallInv, LookedAt, FilledIn, LeavingNode, InBranchOut, Writing
  <1>4. CASE ~Begin(t) /\ ~Descend(t)
    <2>1. /\ Searching(t) /\ cur'[t] = cur[t] /\ key'[t] = key[t]
      BY <1>0, <1>4
      DEF ThreadStep, Searching, Goto, callVars, TypeInv, TypeOK, LoadLocate,
          GetReadLock, CompareMaps, LoadFgpt, NotFound, TryLoad, TryCas,
          StoreId, StoreFgpt, SetEntry, AddDegree, ReadUnlock, GetWriteLock,
          CheckValid, AllocCheck, AllocBump, Link, ReleaseWriteLock,
          AddNumNodes
    <2>2. NotBefore(cur[t], key[t]) /\ LookedAt(t) /\ FilledIn(t)
      BY <1>1, <2>1 DEF CallInv
    <2>3. NotBefore(cur[t], key[t])'
      <3>1. \A c \in Node : NotBefore(c, key[t]) => NotBefore(c, key[t])'
        BY <1>0, <2>1, NotBeforeStep DEF NotBefore, Holds
      <3> QED
        BY <1>0, <2>1, <2>2, <3>1 DEF NotBefore, Holds
    <2>4. ~SetEntry(t) /\ ~Holds(cur[t], bitmap[cur[t]], key[t])
             => ~Holds(cur[t], bitmap[cur[t]], key[t])'
      <3>1. ~SetEntry(t) /\ ~Holds(cur[t], bitmap[cur[t]], key[t])
               => \A i \in bitmap'[cur[t]] : id'[cur[t]][i] # key[t]
        BY <1>0, HoldsStep DEF Holds
      <3> QED
        BY <2>1, <3>1 DEF Holds
    <2>5. LookedAt(t)' /\ FilledIn(t)'
      <3> USE DEF Goto, LookedAt, FilledIn, LeavingNode, InBranchOut, Writing
      <3>1. CASE LoadLocate(t) \/ GetReadLock(t) \/ CompareMaps(t)
        BY <3>1 DEF LoadLocate, GetReadLock, CompareMaps, TypeInv, TypeOK
      <3>2. CASE LoadFgpt(t)
        <4>1. /\ pc[t] = "loadFgpt" /\ pc'[t] = "matchIds"
              /\ UNCHANGED <<bitmap, id, fgpt, oldBm>>
              /\ seen'[t] = {i \in Slots : fgpt[cur[t]][i] = hashcode(key[t])}
          BY <3>2 DEF LoadFgpt, slotVars, TypeInv, TypeOK
        <4>2. \A i \in oldBm[t] : fgpt[cur[t]][i] = hashcode(id[cur[t]][i])
          BY <1>0, <1>1, <4>1
          DEF SearchInv, EntryInv, PublishedFindable, Stores
        <4> QED
          BY <1>0, <2>1, <4>1, <4>2
      <3>3. CASE NotFound(t)
        <4>1. /\ pc[t] = "matchIds" /\ ~Matched(t)
              /\ pc'[t] = IF oldBm[t] = Slots THEN "readUnlock" ELSE "tryLoad"
              /\ UNCHANGED <<bitmap, id, fgpt, oldBm>>
          BY <3>3 DEF NotFound, slotVars, findVars, TypeInv, TypeOK
        <4>2. ~Holds(cur[t], oldBm[t], key[t])
          BY <1>1, <2>2, <4>1 DEF SearchInv, Matched, Holds
        <4>3. oldBm[t] = Slots => oldBm[t] = bitmap[cur[t]]
          BY <1>0, <1>1, <4>1 DEF SearchInv
        <4> QED
          BY <2>1, <4>1, <4>2, <4>3 DEF Holds
      <3>4. CASE TryLoad(t)
        <4>1. /\ pc[t] = "tryLoad" /\ pc'[t] \in {"loadLocate", "tryCas"}
              /\ UNCHANGED <<bitmap, id, oldBm>>
          BY <3>4 DEF TryLoad, slotVars, findVars, TypeInv, TypeOK
        <4> QED
          BY <2>1, <2>2, <4>1 DEF Holds
      <3>5. CASE TryCas(t)
        <4>1. /\ pc[t] = "tryCas"
              /\ \/ pc'[t] = "loadLocate"
                 \/ pc'[t] = "storeId" /\ locate[cur[t]] = oldBm[t]
              /\ UNCHANGED <<bitmap, id>>
          BY <3>5 DEF TryCas, TypeInv, TypeOK
        <4>2. pc'[t] = "storeId" => bitmap[cur[t]] = oldBm[t]
          BY <1>0, <1>1, <4>1 DEF SearchInv, ClaimInv, OneWriterPerNode
        <4> QED
          BY <2>1, <2>2, <4>1, <4>2 DEF Holds
      <3>6. CASE StoreId(t)
        <4>1. /\ pc[t] = "storeId" /\ pc'[t] = "storeFgpt"
              /\ id' = [id EXCEPT ![cur[t]][high[t]] = key[t]]
              /\ high' = high /\ high[t] \in Slots
              /\ id \in [Node -> [Slots -> Nat]]
          BY <3>6 DEF StoreId, claimVars, TypeInv, TypeOK, ShapeInv
        <4>2. id'[cur'[t]][high'[t]] = key'[t]
          BY <1>0, <2>1, <4>1
        <4>3. ~SetEntry(t)
          BY <4>1 DEF SetEntry
        <4> QED
          BY <2>2, <2>4, <4>1, <4>2, <4>3
      <3>7. CASE StoreFgpt(t)
        <4>1. /\ pc[t] = "storeFgpt" /\ pc'[t] = "setEntry"
              /\ fgpt' = [fgpt EXCEPT ![cur[t]][high[t]] = hashcode(key[t])]
              /\ high' = high /\ high[t] \in Slots /\ id' = id
              /\ fgpt \in [Node -> [Slots -> Nat]]
          BY <3>7 DEF StoreFgpt, claimVars, TypeInv, TypeOK, ShapeInv
        <4>2. fgpt'[cur'[t]][high'[t]] = hashcode(key'[t])
          BY <1>0, <2>1, <4>1
        <4>3. ~SetEntry(t)
          BY <4>1 DEF SetEntry
        <4> QED
          BY <2>1, <2>2, <2>4, <4>1, <4>2, <4>3
      <3>8. CASE SetEntry(t) \/ AddDegree(t)
        BY <3>8 DEF SetEntry, AddDegree, TypeInv, TypeOK
      <3>9. CASE \/ ReadUnlock(t) \/ GetWriteLock(t) \/ CheckValid(t)
                 \/ AllocCheck(t) \/ AllocBump(t) \/ Link(t)
                 \/ ReleaseWriteLock(t) \/ AddNumNodes(t)
        <4>1. /\ LeavingNode(t) /\ ~SetEntry(t)
              /\ pc'[t] \notin {"matchIds", "tryLoad", "tryCas", "storeFgpt",
                                "setEntry"}
          BY <3>9
          DEF ReadUnlock, GetWriteLock, CheckValid, AllocCheck, AllocBump,
              Link, ReleaseWriteLock, AddNumNodes, SetEntry, TypeInv, TypeOK
        <4> QED
          BY <2>2, <2>4, <4>1
      <3> QED
        BY <1>0, <1>4, <3>1, <3>2, <3>3, <3>4, <3>5, <3>6, <3>7, <3>8, <3>9
        DEF ThreadStep
    <2> QED
      BY <2>3, <2>5 DEF CallInv
  <1> QED
    BY <1>2, <1>3, <1>4

\* What bitmap shows is complete and where a search for it goes.
LEMMA FindableStep ==
    ASSUME TypeInv, TreeInv, ClaimInv, EntryInv, NEW t \in Threads,
           ThreadStep(t), ~fellThrough'
    PROVE  PublishedFindable'
  <1>0. ~fellThrough /\ TypeOK'
    BY NeverForgotten, TypeOKStep
  <1>1. ASSUME NEW n \in Node', NEW i \in bitmap'[n]
        PROVE  /\ fgpt'[n][i] = hashcode(id'[n][i])
               /\ n \in OnPath(id[n][i])'
    <2>1. CASE n \in Node /\ i \in bitmap[n]
      <3>1. /\ fgpt[n][i] = hashcode(id[n][i]) /\ n \in OnPath(id[n][i])
        BY <1>0, <2>1 DEF EntryInv, PublishedFindable, Stores
      <3>2. id'[n][i] = id[n][i] /\ fgpt'[n][i] = fgpt[n][i]
        BY <2>1, StaysStep
      <3>3. id[n][i] \in Nat
        BY <2>1 DEF TypeInv, TypeOK
      <3>4. \A k \in Nat : n \in OnPath(k) => n \in OnPath(k)'
        BY PathStep
      <3>5. n \in OnPath(id[n][i])'
        BY <3>1, <3>2, <3>3, <3>4
      <3> QED
        BY <3>1, <3>2, <3>5
    <2>2. CASE SetEntry(t) /\ n = cur[t] /\ i = high[t]
      <3>1. /\ pc[t] = "setEntry" /\ UNCHANGED <<id, fgpt>> /\ key[t] \in Nat
        BY <2>2 DEF SetEntry, Goto, TypeInv, TypeOK
      <3>2. /\ id[n][i] = key[t] /\ fgpt[n][i] = hashcode(key[t])
            /\ n \in OnPath(key[t])
        BY <1>0, <2>2, <3>1
        DEF EntryInv, CallInv, Searching, FilledIn, NotBefore
      <3>4. \A k \in Nat : n \in OnPath(k) => n \in OnPath(k)'
        BY PathStep
      <3>5. n \in OnPath(id[n][i])'
        BY <3>1, <3>2, <3>4
      <3> QED
        BY <3>1, <3>2, <3>5
    <2> QED
      BY <1>1, <2>1, <2>2, NewBit
  <1> QED
    BY <1>1 DEF PublishedFindable, Stores, hashcode

\* Nobody inserts a key that somebody else inserts, or that is there.
LEMMA OnceStep ==
    ASSUME TypeInv, TreeInv, ClaimInv, EntryInv, NEW t \in Threads,
           ThreadStep(t), ~fellThrough'
    PROVE  ClaimedOnce'
  <1>0. /\ ~fellThrough /\ ~FoundFallsThrough(t) /\ TypeOK /\ TypeOK'
        /\ \A u \in Threads : cur[u] \in Node /\ key[u] \in Nat
    BY NeverForgotten, TypeOKStep DEF TypeInv, TypeOK
  <1>1. \A u \in Threads \ {t} :
           (Writing(u)' <=> Writing(u)) /\ key'[u] = key[u]
    BY OthersFrame DEF Writing
  <1>2. ASSUME Writing(t)'
        PROVE  /\ key'[t] = key[t] /\ cur'[t] = cur[t]
               /\ \/ Writing(t)
                  \/ /\ pc[t] = "tryCas" /\ bitmap[cur[t]] = oldBm[t]
                     /\ locate[cur[t]] = oldBm[t]
                     /\ high[t] \in Slots \ oldBm[t]
    <2>1. TryCas(t) \/ StoreId(t) \/ StoreFgpt(t)
      <3>1. pc \in [Threads -> PC]
        BY DEF TypeInv, TypeOK
      <3>2. pc'[t] \in {"storeId", "storeFgpt", "setEntry"}
        BY <1>2 DEF Writing
      <3> QED
        BY <1>0, <3>1, <3>2
        DEF ThreadStep, Goto, Begin, LoadLocate, GetReadLock, CompareMaps,
            LoadFgpt, NotFound, TryLoad, SetEntry, AddDegree, ReadUnlock,
            GetWriteLock, CheckValid, AllocCheck, AllocBump, Link,
            ReleaseWriteLock, AddNumNodes, Descend
    <2>2. CASE StoreId(t) \/ StoreFgpt(t)
      BY <2>2 DEF StoreId, StoreFgpt, Goto, Writing, callVars
    <2>3. CASE TryCas(t)
      <3>1. /\ pc[t] = "tryCas" /\ locate[cur[t]] = oldBm[t]
            /\ key' = key /\ cur' = cur
        BY <1>2, <2>3 DEF TryCas, Goto, Writing, callVars, TypeInv, TypeOK
      <3>2. /\ oldBm[t] \subseteq bitmap[cur[t]]
            /\ bitmap[cur[t]] \subseteq locate[cur[t]]
            /\ oldBm[t] \subseteq loaded[t] /\ high[t] \in Slots \ loaded[t]
        BY <1>0, <3>1
        DEF ClaimInv, SearchInv, OneWriterPerNode, IsFirstZero
      <3> QED
        BY <3>1, <3>2
    <2> QED
      BY <2>1, <2>2, <2>3
  <1>3. ASSUME Writing(t)'
        PROVE  /\ bitmap[cur[t]] # Slots /\ NotBefore(cur[t], key[t])
               /\ ~Holds(cur[t], bitmap[cur[t]], key[t])
               /\ \A u \in Threads \ {t} : Writing(u) => cur[u] # cur[t]
    <2>1. CallInv(t) /\ Searching(t)
      BY <1>0, <1>2, <1>3 DEF EntryInv, Searching, Writing
    <2>2. CASE Writing(t)
      BY <1>0, <2>1, <2>2, WriterFacts
      DEF CallInv, LookedAt, ClaimInv, OneWriterPerNode
    <2>3. CASE ~Writing(t)
      <3>1. /\ pc[t] = "tryCas" /\ bitmap[cur[t]] = oldBm[t]
            /\ locate[cur[t]] = oldBm[t] /\ high[t] \in Slots \ oldBm[t]
        BY <1>2, <1>3, <2>3
      <3>2. \A u \in Threads : Writing(u) => cur[u] # cur[t]
        BY <1>0, <3>1 DEF ClaimInv, OneWriterPerNode
      <3> QED
        BY <2>1, <3>1, <3>2 DEF CallInv, LookedAt
    <2> QED
      BY <2>2, <2>3
  <1>4. ASSUME NEW u \in Threads \ {t}, Writing(t)', Writing(u)
        PROVE  key[u] # key[t]
    <2>1. /\ bitmap[cur[u]] # Slots /\ cur[u] \in OnPath(key[u])
      BY <1>0, <1>4, WriterFacts
      DEF EntryInv, CallInv, NotBefore, Searching, Writing
    <2>2. /\ bitmap[cur[t]] # Slots /\ cur[t] \in OnPath(key[t])
          /\ cur[u] # cur[t]
      BY <1>3, <1>4 DEF NotBefore
    <2> QED
      BY <1>0, <2>1, <2>2, SameNode
  <1>5. ASSUME Writing(t)', NEW n \in Node, NEW i \in bitmap[n]
        PROVE  id[n][i] # key[t]
    BY <1>0, <1>3, <1>5, NotPublished
  <1>6. ASSUME SetEntry(t)
        PROVE  /\ id'[cur[t]][high[t]] = key[t]
               /\ \A u \in Threads \ {t} : Writing(u) => key[u] # key[t]
               /\ \A n \in Node : \A i \in bitmap[n] : id[n][i] # key[t]
               /\ ~Writing(t)'
    <2>1. /\ pc[t] = "setEntry" /\ pc'[t] = "addDegree" /\ id' = id
      BY <1>6 DEF SetEntry, Goto, TypeInv, TypeOK
    <2>2. Writing(t) /\ ~Writing(t)'
      BY <2>1 DEF Writing
    <2>3. id[cur[t]][high[t]] = key[t]
      BY <1>0, <2>1 DEF EntryInv, CallInv, Searching, FilledIn
    <2>4. \A u \in Threads \ {t} : Writing(u) => key[u] # key[t]
      BY <1>0, <2>2 DEF EntryInv, ClaimedOnce
    <2>5. \A n \in Node : \A i \in bitmap[n] : id[n][i] # key[t]
      BY <1>0, <2>2 DEF EntryInv, ClaimedOnce
    <2> QED
      BY <2>1, <2>2, <2>3, <2>4, <2>5
  <1>7. ASSUME NEW n \in Node', NEW i \in bitmap'[n]
        PROVE  \/ n \in Node /\ i \in bitmap[n] /\ id'[n][i] = id[n][i]
               \/ SetEntry(t) /\ n = cur[t] /\ i = high[t]
    BY <1>7, NewBit, StaysStep
  <1>8. \A u, v \in Threads :
           u # v /\ Writing(u)' /\ Writing(v)' => key'[u] # key'[v]
    <2>1. \A u, v \in Threads :
             u # v /\ Writing(u) /\ Writing(v) => key[u] # key[v]
      BY <1>0 DEF EntryInv, ClaimedOnce
    <2> QED
      BY <1>1, <1>2, <1>4, <2>1
  <1>9. ASSUME NEW n \in Node', NEW i \in bitmap'[n],
               NEW u \in Threads, Writing(u)'
        PROVE  id'[n][i] # key'[u]
    <2>1. CASE n \in Node /\ i \in bitmap[n] /\ id'[n][i] = id[n][i]
      <3>1. CASE u = t
        BY <1>2, <1>5, <1>9, <2>1, <3>1
      <3>2. CASE u # t
        BY <1>0, <1>1, <1>9, <2>1, <3>2 DEF EntryInv, ClaimedOnce
      <3> QED
        BY <3>1, <3>2
    <2>2. CASE SetEntry(t) /\ n = cur[t] /\ i = high[t]
      BY <1>1, <1>6, <1>9, <2>2
    <2> QED
      BY <1>7, <2>1, <2>2
  <1>10. ASSUME NEW n \in Node', NEW i \in bitmap'[n],
                NEW m \in Node', NEW j \in bitmap'[m], id'[n][i] = id'[m][j]
         PROVE  n = m /\ i = j
    <2>1. \A a, b \in Node : \A p \in bitmap[a], q \in bitmap[b] :
             id[a][p] = id[b][q] => a = b /\ p = q
      BY <1>0 DEF EntryInv, ClaimedOnce
    <2> QED
      BY <1>6, <1>7, <1>10, <2>1
  <1> QED
    BY <1>8, <1>9, <1>10 DEF ClaimedOnce, Writing

LEMMA EntryInvariant == Spec => []EntryInv
  <1>1. TypeInv /\ TreeInv /\ ClaimInv /\ EntryInv /\ [Next]_vars => EntryInv'
    <2> SUFFICES ASSUME TypeInv, TreeInv, ClaimInv, EntryInv, [Next]_vars
                 PROVE  EntryInv'
      OBVIOUS
    <2>1. ASSUME NEW t \in Threads, ThreadStep(t) PROVE EntryInv'
      <3>1. CASE fellThrough'
        BY <3>1 DEF EntryInv, PublishedFindable, ClaimedOnce
      <3>2. CASE ~fellThrough'
        <4>1. \A u \in Threads : CallInv(u)'
          BY <2>1, <3>2, OwnCallStep, OtherCallStep
        <4> QED
          BY <2>1, <3>2, <4>1, FindableStep, OnceStep DEF EntryInv
      <3> QED
        BY <3>1, <3>2
    <2>2. CASE UNCHANGED vars
      <3>1. \A k : OnPath(k)' = OnPath(k)
        BY <2>2 DEF vars, OnPath, Node
      <3>2. /\ UNCHANGED <<bitmap, id, fgpt, next, fellThrough, pc, key, cur,
                            oldBm, seen, high>>
        BY <2>2 DEF vars
      <3>3. PublishedFindable'
        BY <3>1, <3>2 DEF EntryInv, PublishedFindable, Stores, Node
      <3>4. ClaimedOnce'
        BY <3>2 DEF EntryInv, ClaimedOnce, Writing, Node
      <3>5. ~fellThrough => \A t \in Threads : CallInv(t)'
        BY <3>1, <3>2
        DEF EntryInv, CallInv, Searching, NotBefore, LookedAt, FilledIn, Holds,
            Writing, LeavingNode, InBranchOut
      <3> QED
        BY <3>2, <3>3, <3>4, <3>5 DEF EntryInv
    <2> QED
      BY <2>1, <2>2 DEF Next, Terminated
  <1> QED
    BY <1>1, EntryInit, TreeInvariant, ClaimInvariant, PTL DEF Spec

\* Whatever bitmap shows can be found: id and fingerprint agree, and the node
\* is one that a search for the id visits, as long as no call has found its
\* edge already stored.
THEOREM Findable == Spec => []PublishedFindable
  BY EntryInvariant, PTL DEF EntryInv

\* No edge is inserted twice by calls that run at the same time, as long as
\* none has found its edge already stored.
THEOREM InsertedOnce == Spec => []ClaimedOnce
  BY EntryInvariant, PTL DEF EntryInv

-----------------------------------------------------------------------------
(* A batch without duplicates.                                             *)

\* No edge is to be inserted twice: then no call finds its edge stored.
DistinctEdges == \A k \in Key : Calls[k] <= 1

IsPublished(k) == \E n \in Node : \E i \in bitmap[n] : id[n][i] = k

\* A key is still to be inserted, is being inserted by one call, or is
\* published, and only one of these.
UniqueInv ==
    /\ ~fellThrough
    /\ \A k \in Key : calls[k] <= Calls[k]
    /\ \A t \in Threads : Searching(t) =>
          key[t] \in Key /\ calls[key[t]] = 0 /\ ~IsPublished(key[t])
    /\ \A t, u \in Threads :
          Searching(t) /\ Searching(u) /\ t # u => key[t] # key[u]
    /\ \A n \in Node : \A i \in bitmap[n] :
          id[n][i] \in Key /\ calls[id[n][i]] = 0
    /\ \A k \in Key : calls[k] < Calls[k] =>
          IsPublished(k) \/ \E t \in Threads : Searching(t) /\ key[t] = k

LEMMA UniqueInit == Init => UniqueInv
  <1> SUFFICES ASSUME Init PROVE UniqueInv
    OBVIOUS
  <1>1. \A t \in Threads : ~Searching(t)
    BY DEF Init, Searching
  <1>2. calls = Calls /\ fellThrough = FALSE /\ Node = {0} /\ bitmap[0] = {}
    BY DEF Init, Node
  <1>3. \A k \in Key : Calls[k] \in Nat
    BY ConstantsAssumption
  <1> QED
    BY <1>1, <1>2, <1>3 DEF UniqueInv

\* A step publishes nothing but the key of a set_entry.
LEMMA PublishedStep ==
    ASSUME TypeInv, ClaimInv, EntryInv, NEW t \in Threads, ThreadStep(t),
           ~fellThrough', NEW k
    PROVE  IsPublished(k)' <=> IsPublished(k) \/ (SetEntry(t) /\ k = key[t])
  <1>0. ~fellThrough
    BY NeverForgotten
  <1>1. ASSUME IsPublished(k) PROVE IsPublished(k)'
    <2>1. PICK n \in Node : \E i \in bitmap[n] : id[n][i] = k
      BY <1>1 DEF IsPublished
    <2>2. PICK i \in bitmap[n] : id[n][i] = k
      BY <2>1
    <2>3. i \in bitmap'[n] /\ id'[n][i] = k /\ n \in Node'
      BY <2>2, StaysStep, GrowStep
    <2> QED
      BY <2>3 DEF IsPublished
  <1>2. ASSUME SetEntry(t) PROVE IsPublished(key[t])'
    <2>1. /\ pc[t] = "setEntry" /\ id' = id /\ cur[t] \in Node /\ Node' = Node
          /\ bitmap' = [bitmap EXCEPT ![cur[t]] = @ \cup {high[t]}]
          /\ bitmap \in [Node -> SUBSET Slots] /\ key' = key
      BY <1>2 DEF SetEntry, Goto, Node, poolVars, callVars, TypeInv, TypeOK
    <2>2. id[cur[t]][high[t]] = key[t]
      BY <1>0, <2>1 DEF EntryInv, CallInv, Searching, FilledIn
    <2>3. high[t] \in bitmap'[cur[t]]
      BY <2>1
    <2> QED
      BY <2>1, <2>2, <2>3 DEF IsPublished
  <1>3. ASSUME IsPublished(k)'
        PROVE  IsPublished(k) \/ (SetEntry(t) /\ k = key[t])
    <2>1. PICK n \in Node' : \E i \in bitmap'[n] : id'[n][i] = k
      BY <1>3 DEF IsPublished
    <2>2. PICK i \in bitmap'[n] : id'[n][i] = k
      BY <2>1
    <2>3. CASE n \in Node /\ i \in bitmap[n]
      BY <2>2, <2>3, StaysStep DEF IsPublished
    <2>4. CASE SetEntry(t) /\ n = cur[t] /\ i = high[t]
      <3>1. pc[t] = "setEntry" /\ id' = id
        BY <2>4 DEF SetEntry, Goto
      <3> QED
        BY <1>0, <2>2, <2>4, <3>1
        DEF EntryInv, CallInv, Searching, FilledIn
    <2> QED
      BY <2>3, <2>4, NewBit
  <1>4. SetEntry(t) => key' = key
    BY DEF SetEntry, callVars
  <1> QED
    BY <1>1, <1>2, <1>3, <1>4 DEF IsPublished

\* How a step changes who is searching for what.
LEMMA SearchingStep ==
    ASSUME TypeInv, NEW t \in Threads, ThreadStep(t)
    PROVE  /\ \A u \in Threads \ {t} :
                 (Searching(u)' <=> Searching(u)) /\ key'[u] = key[u]
           /\ \/ /\ Begin(t) /\ ~Searching(t) /\ Searching(t)'
                 /\ key'[t] \in Key /\ calls[key'[t]] > 0
                 /\ calls' = [calls EXCEPT ![key'[t]] = @ - 1]
              \/ /\ SetEntry(t) /\ Searching(t) /\ ~Searching(t)'
                 /\ key' = key /\ calls' = calls
              \/ /\ ~Begin(t) /\ ~SetEntry(t)
                 /\ Searching(t)' <=> Searching(t)
                 /\ key' = key /\ calls' = calls
  <1>1. \A u \in Threads \ {t} :
           (Searching(u)' <=> Searching(u)) /\ key'[u] = key[u]
    BY OthersFrame DEF Searching
  <1>2. CASE Begin(t)
    <2>1. PICK k \in Key : /\ calls[k] > 0
                           /\ calls' = [calls EXCEPT ![k] = @ - 1]
                           /\ key' = [key EXCEPT ![t] = k]
      BY <1>2 DEF Begin
    <2>2. key'[t] = k /\ ~Searching(t) /\ Searching(t)'
      BY <1>2, <2>1 DEF Begin, Goto, Searching, TypeInv, TypeOK
    <2> QED
      BY <1>1, <1>2, <2>1, <2>2
  <1>3. CASE SetEntry(t)
    BY <1>1, <1>3
    DEF SetEntry, Goto, Searching, callVars, TypeInv, TypeOK
  <1>4. CASE ~Begin(t) /\ ~SetEntry(t)
    <2>1. (Searching(t)' <=> Searching(t)) /\ key' = key /\ calls' = calls
      BY <1>4
      DEF ThreadStep, Searching, Goto, callVars, TypeInv, TypeOK, LoadLocate,
          GetReadLock, CompareMaps, LoadFgpt, FoundFallsThrough, NotFound,
          TryLoad, TryCas, StoreId, StoreFgpt, AddDegree, ReadUnlock,
          GetWriteLock, CheckValid, AllocCheck, AllocBump, Link,
          ReleaseWriteLock, AddNumNodes, Descend
    <2> QED
      BY <1>1, <1>4, <2>1
  <1> QED
    BY <1>2, <1>3, <1>4

LEMMA UniqueStep ==
    ASSUME DistinctEdges, TypeInv, ClaimInv, EntryInv, UniqueInv,
           NEW t \in Threads, ThreadStep(t)
    PROVE  UniqueInv'
  <1>0. /\ calls \in [Key -> Nat] /\ \A k \in Key : Calls[k] \in {0, 1}
    <2>1. \A k \in Key : Calls[k] \in Nat /\ Calls[k] <= 1
      BY ConstantsAssumption DEF DistinctEdges
    <2>2. \A k \in Key : Calls[k] \in {0, 1}
      BY <2>1
    <2> QED
      BY <2>2 DEF TypeInv, TypeOK
  <1>1. ~fellThrough'
    <2>1. ~FoundFallsThrough(t)
      <3> SUFFICES ASSUME FoundFallsThrough(t) PROVE FALSE
        OBVIOUS
      <3>1. Matched(t) /\ Searching(t) /\ cur[t] \in Node
        BY DEF FoundFallsThrough, Goto, Searching, TypeInv, TypeOK
      <3> QED
        BY <3>1 DEF UniqueInv, Matched, IsPublished
    <2> QED
      BY <2>1
      DEF UniqueInv, ThreadStep, Begin, LoadLocate, GetReadLock, CompareMaps,
          LoadFgpt, NotFound, TryLoad, TryCas, StoreId, StoreFgpt, SetEntry,
          AddDegree, ReadUnlock, GetWriteLock, CheckValid, AllocCheck,
          AllocBump, Link, ReleaseWriteLock, AddNumNodes, Descend
  <1>2. \A k : IsPublished(k)' <=> IsPublished(k) \/ (SetEntry(t) /\ k = key[t])
    BY <1>1, PublishedStep
  <1>3. \A u \in Threads \ {t} :
           (Searching(u)' <=> Searching(u)) /\ key'[u] = key[u]
    BY SearchingStep
  <1>4. \A k \in Key : IsPublished(k) => calls[k] = 0
    BY DEF UniqueInv, IsPublished
  <1>5. /\ \A k \in Key : calls'[k] <= Calls[k]
        /\ \A u \in Threads : Searching(u)' =>
              key'[u] \in Key /\ calls'[key'[u]] = 0 /\ ~IsPublished(key[u])'
        /\ \A u, v \in Threads :
              Searching(u)' /\ Searching(v)' /\ u # v => key'[u] # key'[v]
        /\ \A k : IsPublished(k)' => k \in Key /\ calls'[k] = 0
        /\ \A k \in Key : calls'[k] < Calls[k] =>
              IsPublished(k)' \/ \E u \in Threads : Searching(u)' /\ key'[u] = k
    <2>0. \A k : IsPublished(k) => k \in Key /\ calls[k] = 0
      BY DEF UniqueInv, IsPublished
    <2>1. CASE Begin(t)
      <3> DEFINE k == key'[t]
      <3>0. ~SetEntry(t)
        BY <2>1 DEF Begin, SetEntry, Goto
      <3>1. /\ k \in Key /\ calls[k] > 0 /\ ~Searching(t) /\ Searching(t)'
            /\ calls' = [calls EXCEPT ![k] = @ - 1]
        BY <2>1, <3>0, SearchingStep
      <3>2. /\ calls'[k] = 0 /\ calls[k] = 1 /\ Calls[k] = 1
            /\ \A j \in Key \ {k} : calls'[j] = calls[j]
        BY <1>0, <3>1 DEF UniqueInv
      <3>3. ~IsPublished(k)
        BY <1>4, <3>1, <3>2
      <3>4. \A u \in Threads : Searching(u) =>
               /\ key[u] \in Key \ {k} /\ calls[key[u]] = 0
               /\ ~IsPublished(key[u])
        BY <3>2 DEF UniqueInv
      <3>5. \A j : IsPublished(j)' <=> IsPublished(j)
        BY <1>2, <3>0
      <3>6. \A u \in Threads : Searching(u)' =>
               key'[u] \in Key /\ calls'[key'[u]] = 0 /\ ~IsPublished(key[u])'
        <4>1. \A u \in Threads \ {t} : Searching(u)' =>
                 key'[u] \in Key \ {k} /\ ~IsPublished(key'[u])
                 /\ calls[key'[u]] = 0
          BY <1>3, <3>4
        <4>2. \A u \in Threads : Searching(u)' =>
                 key'[u] \in Key /\ ~IsPublished(key'[u])
                 /\ calls'[key'[u]] = 0
          BY <3>1, <3>2, <3>3, <4>1
        <4> QED
          BY <3>5, <4>2
      <3>7. \A u, v \in Threads :
               Searching(u)' /\ Searching(v)' /\ u # v => key'[u] # key'[v]
        <4>1. \A u \in Threads \ {t} : Searching(u)' => key'[u] # key'[t]
          BY <1>3, <3>4
        <4>2. \A u, v \in Threads \ {t} :
                 Searching(u)' /\ Searching(v)' /\ u # v => key'[u] # key'[v]
          BY <1>3 DEF UniqueInv
        <4> QED
          BY <4>1, <4>2
      <3>8. \A j : IsPublished(j)' => j \in Key /\ calls'[j] = 0
        BY <2>0, <3>2, <3>5
      <3>9. \A j \in Key : calls'[j] < Calls[j] =>
               IsPublished(j)' \/ \E u \in Threads : Searching(u)' /\ key'[u] = j
        <4> SUFFICES ASSUME NEW j \in Key, calls'[j] < Calls[j],
                            ~IsPublished(j)
                     PROVE  \E u \in Threads : Searching(u)' /\ key'[u] = j
          BY <3>5
        <4>1. CASE j = k
          BY <3>1, <4>1
        <4>2. CASE j # k
          <5>1. PICK u \in Threads : Searching(u) /\ key[u] = j
            BY <3>2, <4>2 DEF UniqueInv
          <5>2. u # t
            BY <3>1, <5>1
          <5> QED
            BY <1>3, <5>1, <5>2
        <4> QED
          BY <4>1, <4>2
      <3>10. \A j \in Key : calls'[j] <= Calls[j]
        BY <3>2 DEF UniqueInv
      <3> QED
        BY <3>6, <3>7, <3>8, <3>9, <3>10
    <2>2. CASE SetEntry(t)
      <3>0. ~Begin(t)
        BY <2>2 DEF Begin, SetEntry, Goto
      <3>1. /\ Searching(t) /\ ~Searching(t)' /\ key' = key /\ calls' = calls
        BY <2>2, <3>0, SearchingStep
      <3>2. key[t] \in Key /\ calls[key[t]] = 0
        BY <3>1 DEF UniqueInv
      <3>3. \A u \in Threads : Searching(u)' => u # t /\ Searching(u)
        BY <1>3, <3>1
      <3>4. \A j : IsPublished(j)' <=> IsPublished(j) \/ j = key[t]
        BY <1>2, <2>2
      <3>5. \A u \in Threads : Searching(u)' =>
               key'[u] \in Key /\ calls'[key'[u]] = 0 /\ ~IsPublished(key[u])'
        <4>1. \A u \in Threads : Searching(u)' =>
                 key[u] \in Key /\ calls[key[u]] = 0
                 /\ ~IsPublished(key[u]) /\ key[u] # key[t]
          BY <3>1, <3>3 DEF UniqueInv
        <4> QED
          BY <3>1, <3>4, <4>1
      <3>6. \A u, v \in Threads :
               Searching(u)' /\ Searching(v)' /\ u # v => key'[u] # key'[v]
        BY <3>1, <3>3 DEF UniqueInv
      <3>7. \A j : IsPublished(j)' => j \in Key /\ calls'[j] = 0
        BY <2>0, <3>1, <3>2, <3>4
      <3>8. \A j \in Key : calls'[j] < Calls[j] =>
               IsPublished(j)' \/ \E u \in Threads : Searching(u)' /\ key'[u] = j
        <4> SUFFICES ASSUME NEW j \in Key, calls[j] < Calls[j],
                            ~IsPublished(j), j # key[t]
                     PROVE  \E u \in Threads : Searching(u)' /\ key'[u] = j
          BY <3>1, <3>4
        <4>1. PICK u \in Threads : Searching(u) /\ key[u] = j
          BY DEF UniqueInv
        <4> QED
          BY <1>3, <4>1
      <3> QED
        BY <3>1, <3>5, <3>6, <3>7, <3>8 DEF UniqueInv
    <2>3. CASE ~Begin(t) /\ ~SetEntry(t)
      <3>1. /\ key' = key /\ calls' = calls
            /\ \A u \in Threads : Searching(u)' <=> Searching(u)
        BY <1>3, <2>3, SearchingStep
      <3>2. \A j : IsPublished(j)' <=> IsPublished(j)
        BY <1>2, <2>3
      <3>3. \A u \in Threads : Searching(u)' =>
               key'[u] \in Key /\ calls'[key'[u]] = 0 /\ ~IsPublished(key[u])'
        BY <3>1, <3>2 DEF UniqueInv
      <3>4. \A j \in Key : calls'[j] < Calls[j] =>
               IsPublished(j)' \/ \E u \in Threads : Searching(u)' /\ key'[u] = j
        BY <3>1, <3>2 DEF UniqueInv
      <3> QED
        BY <2>0, <3>1, <3>2, <3>3, <3>4 DEF UniqueInv
    <2> QED
      BY <2>1, <2>2, <2>3
  <1>6. \A n \in Node' : \A i \in bitmap'[n] :
           id'[n][i] \in Key /\ calls'[id'[n][i]] = 0
    <2>1. \A n \in Node' : \A i \in bitmap'[n] : IsPublished(id[n][i])'
      BY DEF IsPublished
    <2> QED
      BY <1>5, <2>1
  <1> QED
    BY <1>1, <1>5, <1>6 DEF UniqueInv

LEMMA UniqueInvariant == ASSUME DistinctEdges PROVE Spec => []UniqueInv
  <1>1. /\ TypeInv /\ TreeInv /\ ClaimInv /\ EntryInv /\ UniqueInv
        /\ [Next]_vars
        => UniqueInv'
    <2> SUFFICES ASSUME TypeInv, TreeInv, ClaimInv, EntryInv, UniqueInv,
                        [Next]_vars
                 PROVE  UniqueInv'
      OBVIOUS
    <2>1. ASSUME NEW t \in Threads, ThreadStep(t) PROVE UniqueInv'
      BY <2>1, UniqueStep
    <2>2. CASE UNCHANGED vars
      BY <2>2 DEF vars, UniqueInv, Searching, IsPublished, Node
    <2> QED
      BY <2>1, <2>2 DEF Next, Terminated
  <1> QED
    BY <1>1, UniqueInit, TreeInvariant, ClaimInvariant, EntryInvariant, PTL
    DEF Spec

-----------------------------------------------------------------------------
(* The abstract set.                                                       *)

\* What a search finds is what is published.
LEMMA FoundPublished ==
    ASSUME TypeInv, EntryInv, ~fellThrough, NEW k
    PROVE  Found(k) <=> IsPublished(k)
  <1>1. ASSUME IsPublished(k) PROVE Found(k)
    <2>1. PICK n \in Node : \E i \in bitmap[n] : id[n][i] = k
      BY <1>1 DEF IsPublished
    <2>2. PICK i \in bitmap[n] : id[n][i] = k
      BY <2>1
    <2>3. i \in Slots /\ Stores(n, i, k) /\ n \in OnPath(k)
      BY <2>2 DEF EntryInv, PublishedFindable, TypeInv, TypeOK
    <2> QED
      BY <2>3 DEF Found
  <1>2. ASSUME Found(k) PROVE IsPublished(k)
    <2>1. PICK n \in OnPath(k) : \E i \in Slots : Stores(n, i, k)
      BY <1>2 DEF Found
    <2>2. n \in Node
      BY <2>1 DEF OnPath
    <2> QED
      BY <2>1, <2>2 DEF Stores, IsPublished
  <1> QED
    BY <1>1, <1>2

\* The values of the variables of EdgeSet.
EdgesNow == {k \in Key : Found(k)}
WaitingNow ==
    {key[t] : t \in {u \in Threads : pc[u] \notin {"idle", "addDegree"}}}

Shown == \A k : Found(k) <=> IsPublished(k)

LEMMA ShownInv == TypeInv /\ EntryInv /\ UniqueInv => Shown
  <1> SUFFICES ASSUME TypeInv, EntryInv, UniqueInv, NEW k
               PROVE  Found(k) <=> IsPublished(k)
    BY DEF Shown
  <1>1. ~fellThrough
    BY DEF UniqueInv
  <1> QED
    BY <1>1, FoundPublished

LEMMA WaitingSet ==
    \A k : k \in WaitingNow <=> \E t \in Threads : Searching(t) /\ key[t] = k
  BY DEF WaitingNow, Searching

\* Every edge found sits in one slot.
LEMMA EdgesCounted ==
    ASSUME TypeInv, EntryInv, UniqueInv, Shown
    PROVE  Cardinality(EdgesNow) = Cardinality(Published)
  <1> DEFINE f == [p \in Published |-> id[p[1]][p[2]]]
  <1>1. IsFiniteSet(Published)
    BY FiniteTree DEF TypeInv
  <1>2. EdgesNow = {k \in Key : IsPublished(k)}
    BY DEF EdgesNow, Shown
  <1>3. \A p \in Published : f[p] \in EdgesNow
    <2>1. \A p \in Published : /\ p[1] \in Node /\ p[2] \in bitmap[p[1]]
      BY DEF Published
    <2>2. \A p \in Published : id[p[1]][p[2]] \in Key
      BY <2>1 DEF UniqueInv
    <2>3. \A p \in Published : IsPublished(id[p[1]][p[2]])
      BY <2>1 DEF IsPublished
    <2> QED
      BY <1>2, <2>2, <2>3
  <1>4. f \in [Published -> EdgesNow]
    BY <1>3
  <1>5. \A a, b \in Published : f[a] = f[b] => a = b
    <2> SUFFICES ASSUME NEW a \in Published, NEW b \in Published,
                        id[a[1]][a[2]] = id[b[1]][b[2]]
                 PROVE  a = b
      OBVIOUS
    <2>1. /\ a \in Node \X Slots /\ b \in Node \X Slots
          /\ a[2] \in bitmap[a[1]] /\ b[2] \in bitmap[b[1]]
      BY DEF Published
    <2>2. a[1] = b[1] /\ a[2] = b[2]
      BY <2>1 DEF UniqueInv, EntryInv, ClaimedOnce
    <2> QED
      BY <2>1, <2>2
  <1>6. \A k \in EdgesNow : \E p \in Published : f[p] = k
    <2> SUFFICES ASSUME NEW k \in EdgesNow
                 PROVE  \E p \in Published : f[p] = k
      OBVIOUS
    <2>1. PICK n \in Node : \E i \in bitmap[n] : id[n][i] = k
      BY <1>2 DEF IsPublished
    <2>2. PICK i \in bitmap[n] : id[n][i] = k
      BY <2>1
    <2>3. i \in Slots
      BY <2>2 DEF TypeInv, TypeOK
    <2>4. <<n, i>> \in Published
      BY <2>2, <2>3 DEF Published
    <2> QED
      BY <2>2, <2>4
  <1> HIDE DEF f
  <1>7. f \in Bijection(Published, EdgesNow)
    BY <1>4, <1>5, <1>6, Fun_IsBij
  <1>8. ExistsBijection(Published, EdgesNow)
    BY <1>7 DEF ExistsBijection
  <1> QED
    BY <1>1, <1>8, FS_Bijection

LEMMA EdgeSetInit == Init => Edges!Init
  <1> SUFFICES ASSUME Init
               PROVE  EdgesNow = {} /\ WaitingNow = {} /\ degree = 0
    BY DEF Edges!Init, EdgesNow, WaitingNow
  <1>1. WaitingNow = {} /\ degree = 0
    BY DEF Init, WaitingNow
  <1>2. \A n \in Node : bitmap[n] = {}
    BY DEF Init, Node
  <1>3. \A k : OnPath(k) \subseteq Node
    BY DEF OnPath
  <1> QED
    BY <1>1, <1>2, <1>3 DEF EdgesNow, Found, Stores

\* A step of a thread starts a call, puts its key into the set, returns, or
\* changes nothing that the abstract set knows.
LEMMA EdgeSetStep ==
    ASSUME TypeInv, ClaimInv, EntryInv, UniqueInv, UniqueInv', DegreeInv,
           Shown, Shown', NEW t \in Threads, ThreadStep(t)
    PROVE  Edges!Next \/ UNCHANGED <<EdgesNow, WaitingNow, degree>>
  <1>0. ~fellThrough /\ ~fellThrough'
    BY DEF UniqueInv
  <1>1. \A k : IsPublished(k)' <=> IsPublished(k) \/ (SetEntry(t) /\ k = key[t])
    BY <1>0, PublishedStep
  <1>2. /\ EdgesNow = {k \in Key : IsPublished(k)}
        /\ EdgesNow' = {k \in Key : IsPublished(k)'}
    BY DEF EdgesNow, Shown
  <1>3. \A k : k \in WaitingNow' <=>
                  \E u \in Threads : Searching(u)' /\ key'[u] = k
    BY DEF WaitingNow, Searching
  <1>4. \A u \in Threads \ {t} :
           (Searching(u)' <=> Searching(u)) /\ key'[u] = key[u]
    BY SearchingStep
  <1>5. CASE Begin(t)
    <2>1. ~SetEntry(t) /\ degree' = degree
      BY <1>5 DEF Begin, SetEntry, Goto, counters
    <2>2. PICK k \in Key : /\ ~Searching(t) /\ Searching(t)'
                           /\ key'[t] = k /\ calls[k] > 0
      BY <1>5, <2>1, SearchingStep
    <2>3. EdgesNow' = EdgesNow
      BY <1>1, <1>2, <2>1
    <2>4. k \notin EdgesNow
      <3>1. IsPublished(k) => calls[k] = 0
        BY DEF UniqueInv, IsPublished
      <3> QED
        BY <1>2, <2>2, <3>1
    <2>5. k \notin WaitingNow
      <3>1. \A u \in Threads : Searching(u) => calls[key[u]] = 0
        BY DEF UniqueInv
      <3> QED
        BY <2>2, <3>1, WaitingSet
    <2>6. WaitingNow' = WaitingNow \cup {k}
      BY <1>3, <1>4, <2>2, WaitingSet
    <2>7. Edges!Call(k)
      BY <2>1, <2>3, <2>4, <2>5, <2>6 DEF Edges!Call, EdgesNow, WaitingNow
    <2> QED
      BY <2>2, <2>7 DEF Edges!Next
  <1>6. CASE SetEntry(t)
    <2>1. ~Begin(t) /\ degree' = degree
      BY <1>6 DEF Begin, SetEntry, Goto, counters
    <2>2. Searching(t) /\ ~Searching(t)' /\ key' = key
      BY <1>6, <2>1, SearchingStep
    <2>3. PICK k \in Key : k = key[t] /\ k \in WaitingNow
      BY <2>2, WaitingSet DEF UniqueInv
    <2>4. EdgesNow' = EdgesNow \cup {k}
      BY <1>1, <1>2, <1>6, <2>3
    <2>5. WaitingNow' = WaitingNow \ {k}
      <3>1. \A u \in Threads : Searching(u)' <=> Searching(u) /\ u # t
        BY <1>4, <2>2
      <3>2. \A u \in Threads : Searching(u) /\ u # t => key[u] # key[t]
        BY <2>2 DEF UniqueInv
      <3> QED
        BY <1>3, <2>2, <2>3, <3>1, <3>2, WaitingSet
    <2>6. Edges!Insert(k)
      BY <2>1, <2>3, <2>4, <2>5 DEF Edges!Insert, EdgesNow, WaitingNow
    <2> QED
      BY <2>3, <2>6 DEF Edges!Next
  <1>7. CASE ~Begin(t) /\ ~SetEntry(t)
    <2>1. EdgesNow' = EdgesNow
      BY <1>1, <1>2, <1>7
    <2>2. WaitingNow' = WaitingNow
      <3>1. key' = key /\ \A u \in Threads : Searching(u)' <=> Searching(u)
        BY <1>4, <1>7, SearchingStep
      <3> QED
        BY <1>3, <3>1, WaitingSet
    <2>3. CASE AddDegree(t)
      <3>1. degree' = degree + 1 /\ t \in Returning
        BY <2>3 DEF AddDegree, Goto, Returning, At
      <3>2. /\ Cardinality(Published) = degree + Cardinality(Returning)
            /\ IsFiniteSet(Returning)
        BY <1>0 DEF DegreeInv
      <3>3. Cardinality(Returning) \in Nat /\ Cardinality(Returning) # 0
        BY <3>1, <3>2, FS_CardinalityType, FS_EmptySet
      <3>4. degree \in Nat
        BY DEF TypeInv, TypeOK
      <3>5. degree < Cardinality(EdgesNow)
        BY <3>2, <3>3, <3>4, EdgesCounted
      <3>6. Edges!Cardinality(EdgesNow) = Cardinality(EdgesNow)
        BY DEF Edges!Cardinality, Cardinality
      <3>7. Edges!Return
        BY <2>1, <2>2, <3>1, <3>5, <3>6 DEF Edges!Return, EdgesNow, WaitingNow
      <3> QED
        BY <3>7 DEF Edges!Next
    <2>4. CASE ~AddDegree(t)
      <3>1. degree' = degree
        BY <1>7, <2>4
        DEF ThreadStep, counters, LoadLocate, GetReadLock, CompareMaps,
            LoadFgpt, FoundFallsThrough, NotFound, TryLoad, TryCas, StoreId,
            StoreFgpt, ReadUnlock, GetWriteLock, CheckValid, AllocCheck,
            AllocBump, Link, ReleaseWriteLock, AddNumNodes, Descend
      <3> QED
        BY <2>1, <2>2, <3>1
    <2> QED
      BY <2>3, <2>4
  <1> QED
    BY <1>5, <1>6, <1>7

\* When the batch has no duplicates the tree of a source vertex, with its two
\* bitmaps, its locks and its retries, is a set of edges: every step of
\* insert_edge_parallel starts a call, puts one new edge into the set, returns
\* from a call whose edge is in the set, or changes nothing a reader sees.
THEOREM EdgeSetImplemented ==
    ASSUME DistinctEdges PROVE Spec => ImplementsEdgeSet
  <1>1. /\ TypeInv /\ ClaimInv /\ EntryInv /\ DegreeInv /\ Shown /\ Shown'
        /\ UniqueInv /\ UniqueInv' /\ [Next]_vars
        => Edges!Next \/ UNCHANGED <<EdgesNow, WaitingNow, degree>>
    <2> SUFFICES ASSUME TypeInv, ClaimInv, EntryInv, DegreeInv, Shown, Shown',
                        UniqueInv, UniqueInv', [Next]_vars
                 PROVE  Edges!Next \/ UNCHANGED <<EdgesNow, WaitingNow, degree>>
      OBVIOUS
    <2>1. ASSUME NEW t \in Threads, ThreadStep(t)
          PROVE  Edges!Next \/ UNCHANGED <<EdgesNow, WaitingNow, degree>>
      BY <2>1, EdgeSetStep
    <2>2. CASE UNCHANGED vars
      <3>1. UNCHANGED <<bitmap, id, next, key, pc, degree>>
        BY <2>2 DEF vars
      <3>2. \A k : IsPublished(k)' <=> IsPublished(k)
        BY <3>1 DEF IsPublished, Node
      <3>3. EdgesNow' = EdgesNow
        BY <3>2 DEF EdgesNow, Shown
      <3>4. WaitingNow' = WaitingNow
        BY <3>1 DEF WaitingNow
      <3> QED
        BY <3>1, <3>3, <3>4
    <2> QED
      BY <2>1, <2>2 DEF Next, Terminated
  <1>2. Spec => [](TypeInv /\ ClaimInv /\ EntryInv /\ DegreeInv /\ UniqueInv)
    BY TypeInvariant, ClaimInvariant, EntryInvariant, CountInvariant,
       UniqueInvariant, PTL
  <1>3. Edges!Next \/ UNCHANGED <<EdgesNow, WaitingNow, degree>>
        => [Edges!Next]_<<{k \in Key : Found(k)},
                          {key[t] : t \in {u \in Threads :
                                             pc[u] \notin {"idle", "addDegree"}}},
                          degree>>
    BY DEF EdgesNow, WaitingNow
  <1> QED
    BY <1>1, <1>2, <1>3, EdgeSetInit, ShownInv, PTL
    DEF Spec, ImplementsEdgeSet, Edges!Spec

\* When the batch has no duplicates, no call finds its edge stored, and after
\* the batch every edge of it is found (check_one_ingestion).
THEOREM DistinctIngested ==
    ASSUME DistinctEdges PROVE Spec => [](~fellThrough /\ IngestedFound)
  <1>1. UniqueInv /\ Shown => ~fellThrough /\ IngestedFound
    <2> SUFFICES ASSUME UniqueInv, Shown, AllDone, NEW k \in Key, Calls[k] > 0
                 PROVE  Found(k)
      BY DEF UniqueInv, IngestedFound
    <2>1. \A u \in Threads : ~Searching(u)
      BY DEF AllDone, Searching
    <2>2. calls[k] < Calls[k]
      BY DEF AllDone
    <2>3. IsPublished(k)
      BY <2>1, <2>2 DEF UniqueInv
    <2> QED
      BY <2>3 DEF Shown
  <1> QED
    BY <1>1, UniqueInvariant, ShownInv, TypeInvariant, EntryInvariant, PTL

=============================================================================
