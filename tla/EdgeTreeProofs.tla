--------------------------- MODULE EdgeTreeProofs ---------------------------
(***************************************************************************)
(* Proofs about EdgeTree, for any number of slots, branches and keys and   *)
(* for crashes between any two stores but those that move an entry: the    *)
(* stores of insert_edge and delete_edge amount to calls that take effect  *)
(* at one moment, and get_adj_edges_l and get_out_degree_l return the      *)
(* edges that a search finds, each once.                                   *)
(***************************************************************************)
EXTENDS EdgeTree, NumberLemmas, FiniteSetTheorems, FunctionTheorems,
        SequenceTheorems, TLAPS

\* The block that branch_out has allocated and not yet linked.
Linking == {"initChildren", "storeChild", "storeValid"}

\* The deletion moves an entry within its node.
Moving == {"copyEdge", "copyFgpt", "update"}

\* The insertion has a slot, which it fills.
Filling == {"storeId", "storeFgpt", "setBit"}

\* What the types need to be preserved: the children of a node lie behind it
\* and inside the pool's nodes, and a call writes a slot it has chosen.
ShapeInv ==
    /\ \A n \in Node : valid[n] => n < child[n] /\ child[n] + NUM_BRANCH <= next
    /\ pc \in Linking =>
          ~valid[cur] /\ cur < mine /\ mine + NUM_BRANCH <= next
    /\ pc = "storeValid" => child[cur] = mine
    /\ pc \in Filling \cup Moving \cup {"clearBit"} => k \in Slots

TypeInv == TypeOK /\ ShapeInv

LEMMA NumBranchType == NUM_BRANCH \in Nat \ {0}
  BY PowerOfTwo, ConstantsAssumption DEF NUM_BRANCH

\* index_branch yields one of the NUM_BRANCH children.
LEMMA BranchInRange ==
    ASSUME NEW x \in Nat, NEW lv \in Nat
    PROVE  Branch(x, lv) \in 0 .. NUM_BRANCH - 1
  <1>1. lv * BRANCH_BITS \in Nat
    BY ConstantsAssumption
  <1>2. 2 ^ (lv * BRANCH_BITS) \in Nat \ {0}
    BY <1>1, PowerOfTwo
  <1>3. x \div 2 ^ (lv * BRANCH_BITS) \in Nat
    BY <1>2
  <1> QED
    BY <1>3, NumBranchType DEF Branch, NUM_BRANCH

\* A function over the nodes stays one when the pool hands out more nodes.
LEMMA ExtendedType ==
    ASSUME NEW S, NEW f \in [Node -> S], NEW v \in S, next \in Nat
    PROVE  Extended(f, v) \in [0 .. next + NUM_BRANCH - 1 -> S]
  BY NumBranchType DEF Extended, Node

LEMMA ExtendedValue ==
    ASSUME NEW f, NEW v, next \in Nat
    PROVE  /\ \A n \in Node : Extended(f, v)[n] = f[n]
           /\ \A n \in next .. next + NUM_BRANCH - 1 : Extended(f, v)[n] = v
  BY NumBranchType DEF Extended, Node

\* bitmap.first_zero() is the least free slot, or -1 in a full node.
LEMMA FirstZero ==
    ASSUME TypeOK, NEW n \in Node
    PROVE  \/ first_zero(n) = -1 /\ bitmap[n] = Slots
           \/ /\ first_zero(n) \in Slots \ bitmap[n]
              /\ \A j \in Slots \ bitmap[n] : first_zero(n) <= j
  <1>1. bitmap[n] \in SUBSET Slots /\ Slots \subseteq Nat
    BY ConstantsAssumption DEF TypeOK, Slots
  <1>2. CASE bitmap[n] = Slots
    BY <1>2 DEF first_zero
  <1>3. CASE bitmap[n] # Slots
    <2>1. Slots \ bitmap[n] \in SUBSET Nat /\ Slots \ bitmap[n] # {}
      BY <1>1, <1>3
    <2>2. \E i \in Slots \ bitmap[n] : \A j \in Slots \ bitmap[n] : i <= j
      BY <2>1, LeastNumber
    <2> QED
      BY <1>3, <2>2 DEF first_zero
  <1> QED
    BY <1>2, <1>3

\* find_key returns a slot that has the key, or -1 if no slot has it.
LEMMA FindKey ==
    ASSUME TypeOK, NEW n \in Node, NEW x
    PROVE  \/ find_key(n, x) = -1 /\ Matches(n, x) = {}
           \/ find_key(n, x) \in Matches(n, x)
  <1>1. Matches(n, x) \in SUBSET Slots /\ Slots \subseteq Nat
    BY ConstantsAssumption DEF TypeOK, Slots, Matches
  <1>2. CASE Matches(n, x) = {}
    BY <1>2 DEF find_key
  <1>3. CASE Matches(n, x) # {}
    <2>1. Matches(n, x) \in SUBSET Nat
      BY <1>1
    <2>2. \E i \in Matches(n, x) : \A j \in Matches(n, x) : i <= j
      BY <1>3, <2>1, LeastNumber
    <2> QED
      BY <1>3, <2>2 DEF find_key
  <1> QED
    BY <1>2, <1>3

LEMMA SlotsAreNumbers ==
    /\ Slots \subseteq Nat /\ -1 \notin Slots
    /\ \A i \in Slots \cup {-1} : i >= 0 <=> i \in Slots
  BY ConstantsAssumption DEF Slots

\* The entry that a deletion moves is at a slot, or at -1.
LEMMA LastSlotType ==
    ASSUME TypeOK, NEW n \in Node
    PROVE  LastSlot(n) \in Slots \cup {-1}
  <1>1. first_zero(n) \in Slots \cup {-1}
    BY FirstZero
  <1>2. CASE first_zero(n) = -1
    BY <1>2, ConstantsAssumption DEF LastSlot, Slots
  <1>3. CASE first_zero(n) \in Slots
    BY <1>3, ConstantsAssumption DEF LastSlot, Slots
  <1> QED
    BY <1>1, <1>2, <1>3

-----------------------------------------------------------------------------
(* Types. *)

LEMMA TypeInit == Init => TypeInv
  <1> SUFFICES ASSUME Init PROVE TypeInv
    OBVIOUS
  <1>1. Node = {0}
    BY DEF Init, Node
  <1>2. /\ bitmap \in [Node -> SUBSET Slots]
        /\ id \in [Node -> [Slots -> Nat]]
        /\ fgpt \in [Node -> [Slots -> Nat]]
        /\ valid \in [Node -> BOOLEAN]
        /\ child \in [Node -> Nat]
        /\ level \in [Node -> Nat]
    BY <1>1 DEF Init
  <1>3. /\ next \in Nat \ {0} /\ numNodes \in Nat
        /\ degree \in 0 .. DEGREE_SIZE - 1
        /\ key \in Nat /\ cur \in Node /\ mine \in Nat
        /\ k \in Slots \cup {-1} /\ last \in Slots \cup {-1}
        /\ result \in {-1, 0, 1}
    BY <1>1, ConstantsAssumption DEF Init
  <1>4. pc \in PC /\ op \in {"none", "insert", "delete"}
    BY DEF Init, PC
  <1>5. TypeOK
    BY <1>2, <1>3, <1>4 DEF TypeOK
  <1>6. ShapeInv
    BY <1>1 DEF Init, ShapeInv, Linking, Filling, Moving
  <1> QED
    BY <1>5, <1>6 DEF TypeInv

\* Every step keeps the types.
LEMMA TypeOKStep ==
    ASSUME TypeInv, Next
    PROVE  TypeOK'
  <1>a. next' = next => Node' = Node
    BY DEF Node
  <1>b. next' = next + NUM_BRANCH => Node' = 0 .. next + NUM_BRANCH - 1
    <2>1. next \in Nat /\ NUM_BRANCH \in Nat
      BY NumBranchType DEF TypeInv, TypeOK
    <2>2. (next + NUM_BRANCH) - 1 = next + NUM_BRANCH - 1
      BY <2>1
    <2> QED
      BY <2>2, Zenon DEF Node
  <1> USE DEF TypeInv, TypeOK, ShapeInv, Goto, PC, slotVars, treeVars,
              counters, locals, callVars, Linking, Filling, Moving
  <1>0. /\ -1 \in Slots \cup {-1} /\ 0 \in Node /\ 0 \in Nat
        /\ NUM_BRANCH \in Nat
    BY NumBranchType DEF Node
  <1>1. CASE Start
    BY <1>1, <1>a, ConstantsAssumption DEF Start
  <1>2. CASE FindEdge
    BY <1>2, <1>a DEF FindEdge
  <1>3. CASE ChooseSlot
    <2>1. first_zero(cur) \in Slots \cup {-1}
      BY FirstZero
    <2> QED
      BY <1>3, <1>a, <2>1 DEF ChooseSlot
  <1>4. CASE Descend
    <2>1. child[cur] \in Nat /\ level[cur] \in Nat /\ valid[cur]
      BY <1>4 DEF Descend
    <2>2. Branch(key, level[cur]) \in 0 .. NUM_BRANCH - 1
      BY <2>1, BranchInRange
    <2>3. child[cur] + NUM_BRANCH <= next
      BY <2>1
    <2>4. child[cur] + Branch(key, level[cur]) \in 0 .. next - 1
      <3> DEFINE b == Branch(key, level[cur])
      <3>1. b \in Nat /\ b < NUM_BRANCH /\ next \in Nat
        BY <1>0, <2>2
      <3> HIDE DEF b
      <3>2. child[cur] + b \in 0 .. next - 1
        BY <1>0, <2>1, <2>3, <3>1
      <3> QED
        BY <3>2 DEF b
    <2>5. cur' \in Node'
      BY <1>4, <1>a, <2>4 DEF Descend, Node
    <2> QED
      BY <1>4, <1>a, <2>5 DEF Descend
  <1>5. CASE Alloc
    <2>1. next' = next + NUM_BRANCH /\ next' \in Nat \ {0}
      BY <1>0, <1>5 DEF Alloc
    <2>2. Node' = 0 .. next + NUM_BRANCH - 1
      BY <1>b, <2>1
    <2>3. /\ bitmap' \in [Node' -> SUBSET Slots]
          /\ id' \in [Node' -> [Slots -> Nat]]
          /\ fgpt' \in [Node' -> [Slots -> Nat]]
      BY <1>5, <2>2, ExtendedType DEF Alloc
    <2>4. /\ valid' \in [Node' -> BOOLEAN]
          /\ child' \in [Node' -> Nat]
          /\ level' \in [Node' -> Nat]
      BY <1>5, <2>2, ExtendedType DEF Alloc
    <2>5. cur \in Node'
      <3>1. cur \in 0 .. next - 1 /\ next \in Nat
        BY DEF Node
      <3>2. cur \in 0 .. next + NUM_BRANCH - 1
        BY <1>0, <3>1
      <3> QED
        BY <2>2, <3>2
    <2> QED
      BY <1>5, <2>1, <2>3, <2>4, <2>5 DEF Alloc
  <1>6. CASE AllocFails
    BY <1>0, <1>6, <1>a DEF AllocFails, NoLocals
  <1>7. CASE InitChildren
    <2>1. level' \in [Node -> Nat]
      BY <1>7 DEF InitChildren
    <2> QED
      BY <1>7, <1>a, <2>1 DEF InitChildren
  <1>8. CASE StoreChild
    BY <1>8, <1>a DEF StoreChild
  <1>9. CASE StoreValid
    BY <1>9, <1>a DEF StoreValid
  <1>10. CASE AddNumNodes
    BY <1>0, <1>10, <1>a DEF AddNumNodes
  <1>11. CASE StoreId
    <2>1. id' \in [Node -> [Slots -> Nat]]
      BY <1>11 DEF StoreId
    <2> QED
      BY <1>11, <1>a, <2>1 DEF StoreId
  <1>12. CASE StoreFgpt
    <2>1. hashcode(key) \in Nat
      BY ConstantsAssumption DEF hashcode
    <2>2. fgpt' \in [Node -> [Slots -> Nat]]
      BY <1>12, <2>1 DEF StoreFgpt
    <2> QED
      BY <1>12, <1>a, <2>2 DEF StoreFgpt
  <1>13. CASE SetBit
    <2>1. bitmap' \in [Node -> SUBSET Slots]
      BY <1>13 DEF SetBit
    <2> QED
      BY <1>13, <1>a, <2>1 DEF SetBit
  <1>14. CASE AddDegree
    <2>1. (degree + 1) % DEGREE_SIZE \in 0 .. DEGREE_SIZE - 1
      BY ConstantsAssumption
    <2> QED
      BY <1>14, <1>a, <2>1 DEF AddDegree
  <1>15. CASE Search
    <2>1. /\ cur' \in Node /\ k' \in Slots \cup {-1}
          /\ last' \in Slots \cup {-1} /\ result' \in {-1, 0, 1}
      <3>1. \A n \in Node : /\ find_key(n, key) \in Slots \cup {-1}
                            /\ LastSlot(n) \in Slots \cup {-1}
        BY FindKey, LastSlotType DEF Matches
      <3> QED
        BY <1>15, <3>1 DEF Search
    <2>2. pc' \in PC
      BY <1>15 DEF Search
    <2> QED
      BY <1>15, <1>a, <2>1, <2>2 DEF Search
  <1>16. CASE ClearBit
    <2>1. bitmap' \in [Node -> SUBSET Slots]
      BY <1>16 DEF ClearBit
    <2> QED
      BY <1>16, <1>a, <2>1 DEF ClearBit
  <1>17. CASE SubDegree
    <2>1. (degree - 1) % DEGREE_SIZE \in 0 .. DEGREE_SIZE - 1
      BY ConstantsAssumption
    <2> QED
      BY <1>17, <1>a, <2>1 DEF SubDegree
  <1>18. CASE CopyEdge
    <2>1. PICK x \in Nat : id' = [id EXCEPT ![cur][k] = x]
      <3>1. BeforeEdges(cur) \subseteq Nat
        BY ConstantsAssumption DEF BeforeEdges
      <3>2. last # -1 => id[cur][last] \in Nat
        OBVIOUS
      <3> QED
        BY <1>18, <3>1, <3>2 DEF CopyEdge
    <2>2. id' \in [Node -> [Slots -> Nat]]
      BY <2>1
    <2> QED
      BY <1>18, <1>a, <2>2 DEF CopyEdge
  <1>19. CASE CopyFgpt
    <2>1. (IF last = -1 THEN 0 ELSE fgpt[cur][last]) \in Nat
      OBVIOUS
    <2>2. fgpt' \in [Node -> [Slots -> Nat]]
      BY <1>19, <2>1 DEF CopyFgpt
    <2> QED
      BY <1>19, <1>a, <2>2 DEF CopyFgpt
  <1>20. CASE Update
    <2>1. bitmap' \in [Node -> SUBSET Slots]
      BY <1>20 DEF Update
    <2> QED
      BY <1>20, <1>a, <2>1 DEF Update
  <1>21. CASE Return
    BY <1>0, <1>21, <1>a DEF Return, NoLocals
  <1>22. CASE Crash
    BY <1>0, <1>22, <1>a DEF Crash, NoLocals
  <1> QED
    BY <1>1, <1>2, <1>3, <1>4, <1>5, <1>6, <1>7, <1>8, <1>9, <1>10, <1>11,
       <1>12, <1>13, <1>14, <1>15, <1>16, <1>17, <1>18, <1>19, <1>20, <1>21,
       <1>22
    DEF Next, Insert, Delete

\* The children of a node are nodes.
LEMMA GroupFacts ==
    ASSUME TypeOK
    PROVE  \A a \in Nat : a + NUM_BRANCH <= next =>
              /\ Children(a) \subseteq Node
              /\ \A n \in Nat : n < a => n \notin Children(a)
  BY NumBranchType DEF TypeOK, Children, Node

\* What an allocation does to the nodes there are and to the new ones.
LEMMA AllocStep ==
    ASSUME TypeInv, Alloc
    PROVE  /\ next' = next + NUM_BRANCH /\ mine' = next
           /\ Node' = Node \cup Children(next)
           /\ \A n \in Node : n \notin Children(next)
           /\ \A n \in Node :
                 /\ bitmap'[n] = bitmap[n] /\ id'[n] = id[n]
                 /\ fgpt'[n] = fgpt[n] /\ valid'[n] = valid[n]
                 /\ child'[n] = child[n] /\ level'[n] = level[n]
           /\ \A n \in Children(next) : bitmap'[n] = {} /\ ~valid'[n]
  <1>1. next \in Nat /\ NUM_BRANCH \in Nat \ {0}
    BY NumBranchType DEF TypeInv, TypeOK
  <1>2. next' = next + NUM_BRANCH /\ mine' = next
    BY DEF Alloc
  <1>3. Children(next) = next .. next + NUM_BRANCH - 1
    BY DEF Children
  <1>4. /\ Node' = Node \cup Children(next)
        /\ \A n \in Node : n \notin Children(next)
    BY <1>1, <1>2, <1>3 DEF Node
  <1>5. \A n \in Node :
           /\ bitmap'[n] = bitmap[n] /\ id'[n] = id[n] /\ fgpt'[n] = fgpt[n]
           /\ valid'[n] = valid[n] /\ child'[n] = child[n]
           /\ level'[n] = level[n]
    <2>1. /\ bitmap' = Extended(bitmap, {})
          /\ id' = Extended(id, [i \in Slots |-> 0])
          /\ fgpt' = Extended(fgpt, [i \in Slots |-> 0])
          /\ child' = Extended(child, 0) /\ level' = Extended(level, 0)
      BY DEF Alloc
    <2>2. \A n \in Node :
             /\ bitmap'[n] = bitmap[n] /\ id'[n] = id[n] /\ fgpt'[n] = fgpt[n]
             /\ child'[n] = child[n] /\ level'[n] = level[n]
      BY ONLY <1>1, <2>1, ExtendedValue
    <2>3. \A n \in Node : Extended(valid, FALSE)[n] = valid[n]
      BY ONLY <1>1, ExtendedValue
    <2>4. valid' = Extended(valid, FALSE)
      BY DEF Alloc
    <2> QED
      BY <2>2, <2>3, <2>4
  <1>6. \A n \in Children(next) : bitmap'[n] = {} /\ valid'[n] = FALSE
    <2>1. \A n \in Children(next) : Extended(bitmap, {})[n] = {}
      BY ONLY <1>1, <1>3, ExtendedValue
    <2>2. \A n \in Children(next) : Extended(valid, FALSE)[n] = FALSE
      BY ONLY <1>1, <1>3, ExtendedValue
    <2> QED
      BY <2>1, <2>2 DEF Alloc
  <1> QED
    BY <1>2, <1>4, <1>5, <1>6

\* The steps that leave the tree and its slots alone.
Quiet == \/ Start \/ FindEdge \/ ChooseSlot \/ Descend \/ AllocFails
         \/ AddNumNodes \/ AddDegree \/ Search \/ SubDegree \/ Return \/ Crash

LEMMA QuietStep ==
    ASSUME Quiet
    PROVE  UNCHANGED <<bitmap, id, fgpt, valid, child, level, next>>
  BY DEF Quiet, slotVars, treeVars, Start, FindEdge, ChooseSlot, Descend,
         AllocFails, AddNumNodes, AddDegree, Search, SubDegree, Return, Crash

LEMMA ShapeStep ==
    ASSUME TypeInv, Next
    PROVE  ShapeInv'
  <1>1. /\ \A n \in Node : valid[n] =>
              n < child[n] /\ child[n] + NUM_BRANCH <= next
        /\ NUM_BRANCH' = NUM_BRANCH /\ NUM_BRANCH \in Nat \ {0}
        /\ next \in Nat \ {0} /\ cur \in Node
    BY NumBranchType DEF TypeInv, TypeOK, ShapeInv, NUM_BRANCH
  <1>2. \A n \in Node' : valid'[n] =>
           n < child'[n] /\ child'[n] + NUM_BRANCH' <= next'
    <2>1. CASE Quiet
      BY <1>1, <2>1, QuietStep DEF Node
    <2>2. CASE Alloc
      <3>1. ASSUME NEW n \in Node, valid'[n]
            PROVE  n < child'[n] /\ child'[n] + NUM_BRANCH <= next'
        <4>1. /\ child'[n] = child[n] /\ valid[n] /\ child[n] \in Nat
              /\ next' = next + NUM_BRANCH
          BY <2>2, <3>1, AllocStep DEF TypeInv, TypeOK
        <4> QED
          BY <1>1, <4>1
      <3>2. \A n \in Children(next) : ~valid'[n]
        BY <2>2, AllocStep
      <3>3. Node' = Node \cup Children(next)
        BY <2>2, AllocStep
      <3> QED
        BY <1>1, <3>1, <3>2, <3>3
    <2>3. CASE StoreChild
      <3>1. /\ child' = [child EXCEPT ![cur] = mine] /\ valid' = valid
            /\ next' = next /\ Node' = Node /\ ~valid[cur]
        BY <2>3
        DEF StoreChild, Goto, slotVars, Node, TypeInv, ShapeInv, Linking
      <3>2. child \in [Node -> Nat]
        BY DEF TypeInv, TypeOK
      <3> QED
        BY <1>1, <3>1, <3>2
    <2>4. CASE StoreValid
      <3>1. /\ valid' = [valid EXCEPT ![cur] = TRUE] /\ child' = child
            /\ next' = next /\ Node' = Node /\ child[cur] = mine
            /\ cur < mine /\ mine + NUM_BRANCH <= next
        BY <2>4
        DEF StoreValid, Goto, slotVars, Node, TypeInv, ShapeInv, Linking
      <3>2. valid \in [Node -> BOOLEAN]
        BY DEF TypeInv, TypeOK
      <3> QED
        BY <1>1, <3>1, <3>2
    <2>5. CASE ~(Quiet \/ Alloc \/ StoreChild \/ StoreValid)
      <3>1. UNCHANGED <<valid, child, next>>
        BY <2>5
        DEF Next, Insert, Delete, Quiet, InitChildren, StoreId, StoreFgpt,
            SetBit, ClearBit, CopyEdge, CopyFgpt, Update, treeVars, slotVars
      <3> QED
        BY <1>1, <3>1 DEF Node
    <2> QED
      BY <2>1, <2>2, <2>3, <2>4, <2>5
  <1>3. /\ pc' \in Linking =>
              ~valid'[cur'] /\ cur' < mine' /\ mine' + NUM_BRANCH' <= next'
        /\ pc' = "storeValid" => child'[cur'] = mine'
    <2>1. CASE Alloc
      <3>1. /\ pc' = "initChildren" /\ cur' = cur /\ ~valid[cur]
        BY <2>1 DEF Alloc, Goto
      <3>2. ~valid'[cur] /\ mine' = next /\ next' = next + NUM_BRANCH
        BY <1>1, <2>1, <3>1, AllocStep
      <3> QED
        BY <1>1, <3>1, <3>2 DEF Node
    <2>2. CASE InitChildren \/ StoreChild
      BY <1>1, <2>2
      DEF InitChildren, StoreChild, Goto, slotVars, callVars, locals, TypeInv,
          TypeOK, ShapeInv, Linking
    <2>3. CASE ~(Alloc \/ InitChildren \/ StoreChild)
      <3>1. pc' \notin Linking
        BY <2>3
        DEF Next, Insert, Delete, Goto, Linking, Start, FindEdge, ChooseSlot,
            Descend, AllocFails, StoreValid, AddNumNodes, StoreId, StoreFgpt,
            SetBit, AddDegree, Search, ClearBit, SubDegree, CopyEdge, CopyFgpt,
            Update, Return, Crash
      <3> QED
        BY <3>1 DEF Linking
    <2> QED
      BY <2>1, <2>2, <2>3
  <1>4. pc' \in Filling \cup Moving \cup {"clearBit"} => k' \in Slots
    <2>1. CASE ChooseSlot
      BY <1>1, <2>1, FirstZero DEF ChooseSlot, TypeInv
    <2>2. CASE Search
      <3>1. pc' = "clearBit" =>
               \E n \in Node : k' = find_key(n, key) /\ find_key(n, key) >= 0
        BY <2>2 DEF Search, Goto, IsHolder
      <3>2. \A n \in Node : find_key(n, key) >= 0 => find_key(n, key) \in Slots
        BY FindKey DEF TypeInv, TypeOK, Matches
      <3>3. pc' \in {"clearBit", "return"}
        BY <2>2 DEF Search, Goto
      <3> QED
        BY <3>1, <3>2, <3>3 DEF Filling, Moving
    <2>3. CASE ~(ChooseSlot \/ Search)
      BY <2>3
      DEF Next, Insert, Delete, Goto, Filling, Moving, Start, FindEdge,
          Descend, Alloc, AllocFails, InitChildren, StoreChild, StoreValid,
          AddNumNodes, StoreId, StoreFgpt, SetBit, AddDegree, ClearBit,
          SubDegree, CopyEdge, CopyFgpt, Update, Return, Crash, callVars,
          locals, TypeInv, ShapeInv
    <2> QED
      BY <2>1, <2>2, <2>3
  <1> QED
    BY <1>2, <1>3, <1>4 DEF ShapeInv

LEMMA TypeInvariant == Spec => []TypeInv
  <1>1. TypeInv /\ [Next]_vars => TypeInv'
    <2> SUFFICES ASSUME TypeInv, [Next]_vars PROVE TypeInv'
      OBVIOUS
    <2>1. CASE Next
      BY <2>1, TypeOKStep, ShapeStep DEF TypeInv
    <2>2. CASE UNCHANGED vars
      BY <2>2
      DEF vars, TypeInv, TypeOK, ShapeInv, Node, NUM_BRANCH
    <2> QED
      BY <2>1, <2>2
  <1> QED
    BY <1>1, TypeInit, PTL DEF Spec

\* The types of the tree in the file and of the locals of a call, whatever
\* calls are made and wherever the process dies.
THEOREM TypeCorrect == Spec => []TypeOK
  BY TypeInvariant, PTL DEF TypeInv

-----------------------------------------------------------------------------
(* The path of a key.                                                      *)

\* index_branch_addr: where a search for x goes from node m.
Succ(m, x) == child[m] + Branch(x, level[m])

\* The function that OnPath defines by recursion exists: n is visited when
\* some set of nodes has it and, with each of its nodes but the root, a node
\* that comes before and leads there.
LEMMA PathExists ==
    ASSUME TypeOK, NEW x
    PROVE  \E f : f = [n \in Node |->
                          \/ n = 0
                          \/ \E m \in 0 .. n - 1 :
                                /\ valid[m]
                                /\ n = child[m] + Branch(x, level[m])
                                /\ f[m]]
  <1> DEFINE Leads(m, n) == valid[m] /\ n = child[m] + Branch(x, level[m])
             Closed(S) == \A n \in S : \/ n = 0
                                       \/ \E m \in 0 .. n - 1 :
                                             m \in S /\ Leads(m, n)
             Way(n) == \E S \in SUBSET Node : n \in S /\ Closed(S)
             f == [n \in Node |-> Way(n)]
  <1> HIDE DEF Leads
  <1>1. ASSUME NEW n \in Node
        PROVE  Way(n) <=> \/ n = 0
                          \/ \E m \in 0 .. n - 1 : Leads(m, n) /\ Way(m)
    <2>1. ASSUME n = 0 PROVE Way(n)
      <3>1. Closed({n}) /\ {n} \in SUBSET Node /\ n \in {n}
        BY <2>1
      <3> QED
        BY <3>1
    <2>2. ASSUME NEW m \in 0 .. n - 1, Leads(m, n), Way(m) PROVE Way(n)
      <3>1. PICK S \in SUBSET Node : m \in S /\ Closed(S)
        BY <2>2
      <3>2. Closed(S \cup {n})
        BY <2>2, <3>1
      <3>3. S \cup {n} \in SUBSET Node /\ n \in S \cup {n}
        BY <3>1
      <3> QED
        BY <3>2, <3>3
    <2>3. ASSUME Way(n), n # 0
          PROVE  \E m \in 0 .. n - 1 : Leads(m, n) /\ Way(m)
      <3>1. PICK S \in SUBSET Node : n \in S /\ Closed(S)
        BY <2>3
      <3>2. PICK m \in 0 .. n - 1 : m \in S /\ Leads(m, n)
        BY <2>3, <3>1
      <3> QED
        BY <3>1, <3>2
    <2> QED
      BY <2>1, <2>2, <2>3
  <1>2. \A n \in Node : \A m \in 0 .. n - 1 : m \in Node
    BY DEF Node, TypeOK
  <1> HIDE DEF Way
  <1>3. f = [n \in Node |-> \/ n = 0
                            \/ \E m \in 0 .. n - 1 : Leads(m, n) /\ f[m]]
    <2>1. \A n \in Node : f[n] <=> Way(n)
      OBVIOUS
    <2>2. \A n \in Node : Way(n) <=>
             (n = 0 \/ \E m \in 0 .. n - 1 : Leads(m, n) /\ f[m])
      BY <1>1, <1>2, <2>1
    <2>3. \A n \in Node : Way(n) \in BOOLEAN
      BY DEF Way
    <2> HIDE DEF f
    <2>4. \A n \in Node : Way(n) =
             (n = 0 \/ \E m \in 0 .. n - 1 : Leads(m, n) /\ f[m])
      BY <2>2, <2>3
    <2> QED
      BY <2>4, Zenon DEF f
  <1> QED
    BY <1>3 DEF Leads

\* What the recursion comes to: the path starts at the root, follows the
\* children and has nothing else.
PathLaw ==
    \A x \in Nat :
       /\ 0 \in OnPath(x) /\ OnPath(x) \subseteq Node
       /\ \A m \in OnPath(x), n \in Node :
             m < n /\ valid[m] /\ n = Succ(m, x) => n \in OnPath(x)
       /\ \A n \in OnPath(x) : n # 0 =>
             \E m \in OnPath(x) : m < n /\ valid[m] /\ n = Succ(m, x)

LEMMA PathFacts == TypeOK => PathLaw
  <1> SUFFICES ASSUME TypeOK, NEW x \in Nat
               PROVE
       /\ 0 \in OnPath(x) /\ OnPath(x) \subseteq Node
       /\ \A m \in OnPath(x), n \in Node :
             m < n /\ valid[m] /\ n = Succ(m, x) => n \in OnPath(x)
       /\ \A n \in OnPath(x) : n # 0 =>
             \E m \in OnPath(x) : m < n /\ valid[m] /\ n = Succ(m, x)
    BY DEF PathLaw
  <1> DEFINE Eqn(f) == f = [n \in Node |->
                          \/ n = 0
                          \/ \E m \in 0 .. n - 1 :
                                /\ valid[m]
                                /\ n = child[m] + Branch(x, level[m])
                                /\ f[m]]
             visited == CHOOSE f : Eqn(f)
  <1>1. \E f : Eqn(f)
    BY PathExists
  <1>2. Eqn(visited)
    <2> HIDE DEF Eqn
    <2> QED
      BY <1>1
  <1>3. OnPath(x) = {n \in Node : visited[n]}
    BY DEF OnPath
  <1>4. \A n \in Node : visited[n] <=>
           \/ n = 0
           \/ \E m \in 0 .. n - 1 :
                 valid[m] /\ n = Succ(m, x) /\ visited[m]
    <2> HIDE DEF visited
    <2> QED
      BY <1>2 DEF Succ
  <1>5. 0 \in Node /\ \A n \in Node : n \in Nat /\ 0 .. n - 1 \subseteq Node
    BY DEF TypeOK, Node
  <1> HIDE DEF visited
  <1> QED
    BY <1>3, <1>4, <1>5

LEMMA PathFactsNext == TypeOK' => PathLaw'
  BY PathFacts, PTL

\* The children are as the allocation left them until they are linked.
FreshInv ==
    pc \in Linking => \A c \in Children(mine) : ~valid[c] /\ bitmap[c] = {}

LEMMA FreshStep == TypeInv /\ FreshInv /\ Next => FreshInv'
  <1> SUFFICES ASSUME TypeInv, FreshInv, Next PROVE FreshInv'
    OBVIOUS
  <1>0. \A a : Children(a)' = Children(a)
    BY DEF Children, NUM_BRANCH
  <1>1. CASE Alloc
    <2>1. /\ mine' = next
          /\ \A n \in Children(next) : bitmap'[n] = {} /\ ~valid'[n]
      BY <1>1, AllocStep
    <2> QED
      BY <2>1 DEF FreshInv, Children, NUM_BRANCH
  <1>2. CASE InitChildren \/ StoreChild
    <2>1. pc \in Linking /\ UNCHANGED <<bitmap, valid, mine>>
      BY <1>2 DEF InitChildren, StoreChild, Goto, Linking, slotVars, callVars,
                  locals
    <2> QED
      BY <2>1 DEF FreshInv, Children, NUM_BRANCH
  <1>3. CASE ~(Alloc \/ InitChildren \/ StoreChild)
    <2>1. pc' \notin Linking
      BY <1>3
      DEF Next, Insert, Delete, Goto, Linking, Start, FindEdge, ChooseSlot,
          Descend, AllocFails, StoreValid, AddNumNodes, StoreId, StoreFgpt,
          SetBit, AddDegree, Search, ClearBit, SubDegree, CopyEdge, CopyFgpt,
          Update, Return, Crash
    <2> QED
      BY <2>1 DEF FreshInv, Linking
  <1> QED
    BY <1>1, <1>2, <1>3

\* A node that has children keeps them.
LEMMA ParentsStay ==
    ASSUME TypeInv, FreshInv, Next, NEW m \in Node, valid[m]
    PROVE  m \in Node' /\ valid'[m] /\ \A x : Succ(m, x)' = Succ(m, x)
  <1>1. CASE Alloc
    BY <1>1, AllocStep DEF Succ
  <1>2. CASE InitChildren
    <2>1. m \notin Children(mine)
      BY <1>2 DEF InitChildren, Goto, FreshInv, Linking
    <2>2. /\ child' = child /\ level'[m] = level[m]
          /\ valid' = valid /\ Node' = Node
      BY <1>2, <2>1 DEF InitChildren, Node
    <2> QED
      BY <2>2 DEF Succ
  <1>3. CASE StoreChild
    <2>1. /\ ~valid[cur] /\ child' = [child EXCEPT ![cur] = mine]
          /\ level' = level /\ valid' = valid /\ Node' = Node
          /\ child \in [Node -> Nat]
      BY <1>3 DEF StoreChild, Goto, Node, TypeInv, TypeOK, ShapeInv, Linking
    <2>2. child'[m] = child[m]
      BY <2>1
    <2> QED
      BY <2>1, <2>2 DEF Succ
  <1>4. CASE StoreValid
    <2>1. /\ valid' = [valid EXCEPT ![cur] = TRUE]
          /\ valid \in [Node -> BOOLEAN]
          /\ level' = level /\ child' = child /\ Node' = Node
      BY <1>4 DEF StoreValid, Node, TypeInv, TypeOK
    <2>2. valid'[m]
      BY <2>1
    <2> QED
      BY <2>1, <2>2 DEF Succ
  <1>5. CASE ~(Alloc \/ InitChildren \/ StoreChild \/ StoreValid)
    <2>1. UNCHANGED <<valid, child, level, next>>
      BY <1>5, QuietStep
      DEF Next, Insert, Delete, Quiet, treeVars, StoreId, StoreFgpt, SetBit,
          ClearBit, CopyEdge, CopyFgpt, Update
    <2> QED
      BY <2>1 DEF Succ, Node
  <1> QED
    BY <1>1, <1>2, <1>3, <1>4, <1>5

\* A node that has children after a step had them before, or got them now.
LEMMA NewParent ==
    ASSUME TypeInv, Next, NEW m \in Node', valid'[m]
    PROVE  m \in Node /\ (valid[m] \/ (StoreValid /\ m = cur))
  <1>1. CASE Alloc
    <2>1. m \in Node \/ m \in Children(next)
      BY <1>1, AllocStep
    <2> QED
      BY <1>1, <2>1, AllocStep
  <1>2. CASE StoreValid
    BY <1>2 DEF StoreValid, Node, TypeInv, TypeOK
  <1>3. CASE ~(Alloc \/ StoreValid)
    <2>1. UNCHANGED <<valid, next>>
      BY <1>3, QuietStep
      DEF Next, Insert, Delete, Quiet, treeVars, StoreId, StoreFgpt, SetBit,
          ClearBit, CopyEdge, CopyFgpt, Update, InitChildren, StoreChild
    <2> QED
      BY <2>1 DEF Node
  <1> QED
    BY <1>1, <1>2, <1>3

\* A step lengthens the path of a key only by a node it has just linked.
LEMMA PathStep ==
    ASSUME TypeInv, FreshInv, Next, NEW x \in Nat
    PROVE  /\ OnPath(x) \subseteq OnPath(x)'
           /\ \A n \in OnPath(x)' : n \notin OnPath(x) =>
                 StoreValid /\ n \in Children(mine) /\ ~valid'[n]
  <1>1. TypeOK /\ TypeOK' /\ Node \subseteq Node'
    <2>1. ASSUME Alloc PROVE Node \subseteq Node'
      BY <2>1, AllocStep
    <2>2. ASSUME ~Alloc PROVE Node \subseteq Node'
      <3>1. next' = next
        BY <2>2, QuietStep
        DEF Next, Insert, Delete, Quiet, StoreId, StoreFgpt, SetBit, ClearBit,
            CopyEdge, CopyFgpt, Update, InitChildren, StoreChild, StoreValid
      <3> QED
        BY <3>1 DEF Node
    <2> QED
      BY <2>1, <2>2, TypeOKStep DEF TypeInv
  <1>2. /\ 0 \in OnPath(x) /\ OnPath(x) \subseteq Node
        /\ \A m \in OnPath(x), n \in Node :
              m < n /\ valid[m] /\ n = Succ(m, x) => n \in OnPath(x)
        /\ \A n \in OnPath(x) : n # 0 =>
              \E m \in OnPath(x) : m < n /\ valid[m] /\ n = Succ(m, x)
    BY <1>1, PathFacts DEF PathLaw
  <1>3. /\ 0 \in OnPath(x)' /\ OnPath(x)' \subseteq Node'
        /\ \A m \in OnPath(x)', n \in Node' :
              m < n /\ valid'[m] /\ n = Succ(m, x)' => n \in OnPath(x)'
        /\ \A n \in OnPath(x)' : n # 0 =>
              \E m \in OnPath(x)' : m < n /\ valid'[m] /\ n = Succ(m, x)'
    BY <1>1, PathFactsNext DEF PathLaw
  <1>4. Node \subseteq Nat /\ Node' \subseteq Nat
    <2>1. next \in Nat /\ next' \in Nat
      BY <1>1 DEF TypeOK
    <2>2. \A a \in Nat : 0 .. a - 1 \subseteq Nat
      OBVIOUS
    <2>3. Node' = 0 .. next' - 1
      BY DEF Node
    <2> QED
      BY <2>1, <2>2, <2>3 DEF Node
  <1>5. ASSUME OnPath(x) \ OnPath(x)' # {} PROVE FALSE
    <2>1. PICK n \in OnPath(x) \ OnPath(x)' :
             \A z \in OnPath(x) \ OnPath(x)' : n <= z
      BY <1>2, <1>4, <1>5, LeastNumber
    <2>2. PICK m \in OnPath(x) : m < n /\ valid[m] /\ n = Succ(m, x)
      BY <1>2, <1>3, <2>1
    <2>3. m \in OnPath(x)'
      <3>1. m \in Nat /\ n \in Nat
        BY <1>2, <1>4, <2>1, <2>2
      <3> QED
        BY <2>1, <2>2, <3>1
    <2>4. valid'[m] /\ n = Succ(m, x)'
      BY <1>2, <2>2, ParentsStay
    <2> QED
      BY <1>1, <1>2, <1>3, <2>1, <2>2, <2>3, <2>4
  <1> DEFINE New(n) == StoreValid /\ n \in Children(mine) /\ ~valid'[n]
             Odd == {n \in OnPath(x)' : n \notin OnPath(x) /\ ~New(n)}
  <1>6. ASSUME Odd # {} PROVE FALSE
    <2>1. PICK n \in Odd : \A z \in Odd : n <= z
      BY <1>3, <1>4, <1>6, LeastNumber
    <2>2. PICK m \in OnPath(x)' : m < n /\ valid'[m] /\ n = Succ(m, x)'
      BY <1>2, <1>3, <2>1
    <2>3. m \in OnPath(x)
      <3>1. m \in Nat /\ n \in Nat
        BY <1>3, <1>4, <2>1, <2>2
      <3>2. m \notin Odd
        BY <2>1, <2>2, <3>1
      <3> QED
        BY <2>2, <3>2
    <2>4. m \in Node /\ (valid[m] \/ (StoreValid /\ m = cur))
      BY <1>3, <2>2, NewParent
    <2>5. CASE valid[m]
      <3>1. n = Succ(m, x)
        BY <2>2, <2>4, <2>5, ParentsStay
      <3>2. n \in Node
        <4>1. Succ(m, x) \in Children(child[m])
          <5>1. child[m] \in Nat /\ level[m] \in Nat
            BY <1>1, <2>4 DEF TypeOK
          <5>2. Branch(x, level[m]) \in 0 .. NUM_BRANCH - 1
            BY <5>1, BranchInRange
          <5> QED
            BY <5>1, <5>2, NumBranchType DEF Succ, Children
        <4>2. Children(child[m]) \subseteq Node
          BY <1>1, <2>4, <2>5, GroupFacts DEF TypeInv, ShapeInv, TypeOK
        <4> QED
          BY <3>1, <4>1, <4>2
      <3> QED
        BY <1>2, <2>1, <2>2, <2>3, <2>5, <3>1, <3>2
    <2>6. CASE StoreValid /\ m = cur
      <3>1. /\ child'[m] = mine /\ mine \in Nat
            /\ valid' = [valid EXCEPT ![cur] = TRUE]
            /\ pc = "storeValid"
        BY <2>4, <2>6
        DEF StoreValid, Goto, TypeInv, TypeOK, ShapeInv
      <3>2. n \in Children(mine)
        <4>1. level'[m] \in Nat /\ NUM_BRANCH' = NUM_BRANCH
          BY <1>1, <2>4 DEF TypeOK, NUM_BRANCH
        <4>2. Succ(m, x)' = mine + Branch(x, level'[m])
          BY <3>1 DEF Succ
        <4>3. Branch(x, level'[m]) \in 0 .. NUM_BRANCH - 1
          BY <4>1, BranchInRange
        <4> QED
          BY <2>2, <3>1, <4>2, <4>3, NumBranchType DEF Children
      <3>3. ~valid'[n]
        <4>1. ~valid[n] /\ n # cur
          <5>1. cur \in Nat /\ cur < mine /\ mine + NUM_BRANCH <= next
            BY <1>4, <3>1 DEF Linking, TypeInv, TypeOK, ShapeInv
          <5>2. cur \notin Children(mine)
            BY <3>1, <5>1, GroupFacts DEF TypeInv
          <5> QED
            BY <3>1, <3>2, <5>2 DEF FreshInv, Linking
        <4>2. Children(mine) \subseteq Node
          BY <3>1, GroupFacts DEF TypeInv, ShapeInv, Linking
        <4> QED
          BY <1>1, <3>1, <3>2, <4>1, <4>2 DEF TypeOK
      <3> QED
        BY <2>1, <2>6, <3>2, <3>3
    <2> QED
      BY <2>4, <2>5, <2>6
  <1> QED
    BY <1>5, <1>6

-----------------------------------------------------------------------------
(* The entries and the calls.                                              *)

\* Which call is at work, and what it will answer.
CallInv ==
    /\ pc # "idle" => key \in Key
    /\ pc \in {"idle", "find", "search"} => cur = 0
    /\ pc \in {"find", "choose", "addNumNodes", "descend", "addDegree"}
                 \cup Linking \cup Filling => op = "insert"
    /\ pc \in {"search", "clearBit", "subDegree"} \cup Moving => op = "delete"
    /\ pc = "return" => op \in {"insert", "delete"} /\ result \in {0, 1}
    /\ pc \notin {"idle", "return"} => result = -1

\* A node has x.
Holds(n, x) == \E i \in bitmap[n] : id[n][i] = x
Held(x) == \E n \in Node : Holds(n, x)

\* Every entry is complete, can be found, and is the only one of its edge.
EntryInv ==
    /\ \A n \in Node : \A i \in bitmap[n] :
          /\ id[n][i] \in Key /\ n \in OnPath(id[n][i])
          /\ fgpt[n][i] = hashcode(id[n][i])
    /\ \A n, m \in Node : \A i \in bitmap[n], j \in bitmap[m] :
          id[n][i] = id[m][j] => n = m /\ i = j

\* The used slots of a node are the first ones, but for the hole that a
\* deletion is about to fill.
IsPrefix(bm) == \A i \in bm : 0 .. i \subseteq bm
PrefixInv ==
    /\ \A n \in Node : ~(pc \in Moving /\ n = cur) => IsPrefix(bitmap[n])
    /\ pc \in Moving =>
          /\ k \notin bitmap[cur] /\ last \in bitmap[cur]
          /\ bitmap[cur] \cup {k} = 0 .. last

\* What a call knows of the node and the slot it is at.
LocalInv ==
    /\ pc \in {"choose", "addNumNodes", "descend"} \cup Linking \cup Filling
          => cur \in OnPath(key) /\ ~Held(key)
    /\ pc \in Filling =>
          k \notin bitmap[cur] /\ 0 .. k - 1 \subseteq bitmap[cur]
    /\ pc \in {"storeFgpt", "setBit"} => id[cur][k] = key
    /\ pc = "setBit" => fgpt[cur][k] = hashcode(key)
    /\ pc = "clearBit" =>
          /\ k \in bitmap[cur] /\ id[cur][k] = key
          /\ last \in Slots /\ bitmap[cur] = 0 .. last
    /\ pc \in {"copyFgpt", "update"} => id[cur][k] = id[cur][last]
    /\ pc = "update" => fgpt[cur][k] = fgpt[cur][last]

StoreInv == FreshInv /\ CallInv /\ EntryInv /\ PrefixInv /\ LocalInv

\* No process dies while an entry is half moved; it never is when a node has
\* one slot.
MovesFinish == MAX_ENTRY_NUM = 1 \/ CrashPoints \cap Moving = {}

LEMMA CallStep == TypeInv /\ CallInv /\ Next => CallInv'
  <1> SUFFICES ASSUME TypeInv, CallInv, Next PROVE CallInv'
    OBVIOUS
  <1> USE DEF CallInv, Goto, callVars, locals, Linking, Filling, Moving,
              NoLocals
  <1>1. CASE Start
    BY <1>1 DEF Start
  <1>2. CASE FindEdge
    BY <1>2 DEF FindEdge
  <1>3. CASE ChooseSlot \/ Descend \/ Alloc \/ AllocFails
    BY <1>3 DEF ChooseSlot, Descend, Alloc, AllocFails
  <1>4. CASE InitChildren \/ StoreChild \/ StoreValid \/ AddNumNodes
    BY <1>4 DEF InitChildren, StoreChild, StoreValid, AddNumNodes
  <1>5. CASE StoreId \/ StoreFgpt \/ SetBit \/ AddDegree
    BY <1>5 DEF StoreId, StoreFgpt, SetBit, AddDegree
  <1>6. CASE Search
    BY <1>6 DEF Search
  <1>7. CASE ClearBit \/ SubDegree \/ CopyEdge \/ CopyFgpt \/ Update
    BY <1>7 DEF ClearBit, SubDegree, CopyEdge, CopyFgpt, Update
  <1>8. CASE Return \/ Crash
    BY <1>8 DEF Return, Crash
  <1> QED
    BY <1>1, <1>2, <1>3, <1>4, <1>5, <1>6, <1>7, <1>8 DEF Next, Insert, Delete

\* Where the used slots are a prefix, the entry a deletion moves is the last.
LEMMA LastOfPrefix ==
    ASSUME TypeOK, NEW n \in Node, IsPrefix(bitmap[n]), bitmap[n] # {}
    PROVE  LastSlot(n) \in bitmap[n] /\ bitmap[n] = 0 .. LastSlot(n)
  <1>1. MAX_ENTRY_NUM \in Nat \ {0} /\ bitmap[n] \in SUBSET Slots
    BY ConstantsAssumption DEF TypeOK
  <1>2. CASE first_zero(n) = -1 /\ bitmap[n] = Slots
    BY <1>1, <1>2 DEF LastSlot, Slots
  <1>3. CASE /\ first_zero(n) \in Slots \ bitmap[n]
             /\ \A j \in Slots \ bitmap[n] : first_zero(n) <= j
    <2> DEFINE f == first_zero(n)
    <2>1. f \in Nat /\ f < MAX_ENTRY_NUM /\ f \notin bitmap[n]
      BY <1>1, <1>3 DEF Slots
    <2>2. \A j \in bitmap[n] : j \in Nat /\ j < f
      <3> SUFFICES ASSUME NEW j \in bitmap[n] PROVE j \in Nat /\ j < f
        OBVIOUS
      <3>1. j \in Nat /\ 0 .. j \subseteq bitmap[n]
        BY <1>1 DEF Slots, IsPrefix
      <3>2. ~(f <= j)
        BY <2>1, <3>1
      <3> QED
        BY <2>1, <3>1, <3>2
    <2>3. \A j \in Nat : j < f => j \in bitmap[n]
      BY <1>1, <1>3, <2>1 DEF Slots
    <2>4. f # 0
      BY <2>2
    <2>5. bitmap[n] = 0 .. f - 1 /\ f - 1 \in bitmap[n] /\ f # -1
      <3> HIDE DEF f
      <3>1. f - 1 \in Nat /\ f - 1 < f
        BY <2>1, <2>4
      <3>2. \A j \in bitmap[n] : j \in 0 .. f - 1
        BY <2>1, <2>2
      <3>3. \A j \in 0 .. f - 1 : j \in bitmap[n]
        BY <2>1, <2>3
      <3>4. bitmap[n] = 0 .. f - 1
        BY <3>2, <3>3
      <3> QED
        BY <2>1, <2>3, <3>1, <3>4
    <2> QED
      BY <2>5 DEF LastSlot
  <1> QED
    BY <1>2, <1>3, FirstZero

LEMMA PrefixStep ==
    ASSUME MovesFinish, TypeInv, FreshInv, PrefixInv, LocalInv, Next
    PROVE  PrefixInv'
  <1>0. /\ bitmap \in [Node -> SUBSET Slots] /\ cur \in Node
        /\ \A i \in Slots : i \in Nat
    BY SlotsAreNumbers DEF TypeInv, TypeOK
  <1>1. CASE Quiet
    <2>1. pc' \notin Moving /\ UNCHANGED <<bitmap, next>>
      BY <1>1, QuietStep
      DEF Quiet, Start, FindEdge, ChooseSlot, Descend, AllocFails, AddNumNodes,
          AddDegree, Search, SubDegree, Return, Crash, Goto, Moving
    <2>2. CASE pc \in Moving
      <3>1. pc \in CrashPoints
        BY <1>1, <2>2
        DEF Quiet, Start, FindEdge, ChooseSlot, Descend, AllocFails,
            AddNumNodes, AddDegree, Search, SubDegree, Return, Crash, Goto,
            Moving
      <3>2. MAX_ENTRY_NUM = 1
        BY <2>2, <3>1 DEF MovesFinish
      <3>3. Slots = {0}
        BY <3>2 DEF Slots
      <3>4. k \in Slots /\ last \in Slots /\ k # last
        BY <1>0, <2>2 DEF PrefixInv, TypeInv, ShapeInv
      <3> QED
        BY <3>3, <3>4
    <2>3. CASE pc \notin Moving
      BY <2>1, <2>3 DEF PrefixInv, Node
    <2> QED
      BY <2>2, <2>3
  <1>2. CASE Alloc
    <2>1. pc \notin Moving /\ pc' \notin Moving
      BY <1>2 DEF Alloc, Goto, Moving
    <2>2. /\ Node' = Node \cup Children(next)
          /\ \A n \in Node : bitmap'[n] = bitmap[n]
          /\ \A n \in Children(next) : bitmap'[n] = {}
      BY <1>2, AllocStep
    <2> QED
      BY <2>1, <2>2 DEF PrefixInv, IsPrefix
  <1>3. CASE InitChildren \/ StoreChild \/ StoreValid \/ StoreId \/ StoreFgpt
    <2>1. pc \notin Moving /\ pc' \notin Moving /\ UNCHANGED <<bitmap, next>>
      BY <1>3 DEF InitChildren, StoreChild, StoreValid, StoreId, StoreFgpt,
                  Goto, Moving, slotVars
    <2> QED
      BY <2>1 DEF PrefixInv, Node
  <1>4. CASE SetBit
    <2>1. /\ bitmap' = [bitmap EXCEPT ![cur] = @ \cup {k}] /\ Node' = Node
          /\ pc = "setBit" /\ pc' \notin Moving
      BY <1>4 DEF SetBit, Goto, Moving, Node
    <2>2. /\ k \in Slots /\ 0 .. k - 1 \subseteq bitmap[cur]
          /\ \A n \in Node : IsPrefix(bitmap[n])
      BY <2>1 DEF PrefixInv, LocalInv, Filling, Moving, TypeInv, ShapeInv
    <2>3. 0 .. k \subseteq bitmap[cur] \cup {k}
      BY <1>0, <2>2
    <2>4. IsPrefix(bitmap[cur] \cup {k})
      BY <1>0, <2>2, <2>3 DEF IsPrefix
    <2>5. \A n \in Node : IsPrefix(bitmap'[n])
      BY <1>0, <2>1, <2>2, <2>4
    <2> QED
      BY <2>1, <2>5 DEF PrefixInv, IsPrefix
  <1>5. CASE ClearBit
    <2>1. /\ bitmap' = [bitmap EXCEPT ![cur] = @ \ {k}] /\ Node' = Node
          /\ pc = "clearBit" /\ cur' = cur /\ k' = k /\ last' = last
          /\ pc' = IF k = last THEN "subDegree" ELSE "copyEdge"
      BY <1>5 DEF ClearBit, Goto, callVars, locals, Node
    <2>2. /\ k \in bitmap[cur] /\ last \in Slots /\ bitmap[cur] = 0 .. last
          /\ \A n \in Node : IsPrefix(bitmap[n])
      BY <2>1 DEF PrefixInv, LocalInv, Moving
    <2>3. bitmap'[cur] = (0 .. last) \ {k} /\ k \in 0 .. last /\ last \in Nat
      BY <1>0, <2>1, <2>2
    <2>4. \A n \in Node \ {cur} : IsPrefix(bitmap'[n])
      BY <1>0, <2>1, <2>2
    <2>5. CASE k = last
      <3>1. bitmap'[cur] = 0 .. last - 1
        BY <2>3, <2>5
      <3>2. IsPrefix(0 .. last - 1)
        BY <2>3 DEF IsPrefix
      <3> QED
        BY <2>1, <2>4, <2>5, <3>1, <3>2 DEF PrefixInv, Moving, IsPrefix
    <2>6. CASE k # last
      <3>1. k \notin bitmap'[cur] /\ last \in bitmap'[cur]
            /\ bitmap'[cur] \cup {k} = 0 .. last
        BY <2>3, <2>6
      <3>2. pc' \in Moving /\ Node' = Node /\ cur' = cur
        BY <2>1, <2>6 DEF Moving
      <3>3. k' \notin bitmap'[cur'] /\ last' \in bitmap'[cur']
            /\ bitmap'[cur'] \cup {k'} = 0 .. last'
        BY <2>1, <3>1
      <3>4. \A n \in Node' :
               ~(pc' \in Moving /\ n = cur') => IsPrefix(bitmap'[n])
        BY <2>4, <3>2
      <3> QED
        BY <3>3, <3>4 DEF PrefixInv, IsPrefix
    <2> QED
      BY <2>5, <2>6
  <1>6. CASE CopyEdge \/ CopyFgpt
    BY <1>6 DEF CopyEdge, CopyFgpt, Goto, callVars, locals, Moving, PrefixInv,
                Node
  <1>7. CASE Update
    <2>1. /\ last \in bitmap[cur] /\ bitmap[cur] \cup {k} = 0 .. last
          /\ k \notin bitmap[cur] /\ last \in Slots /\ last \in Nat
          /\ \A n \in Node \ {cur} : IsPrefix(bitmap[n])
      BY <1>0, <1>7 DEF Update, Goto, PrefixInv, Moving
    <2>2. /\ bitmap' = [bitmap EXCEPT ![cur] = (@ \ {last}) \cup {k}]
          /\ pc' \notin Moving /\ Node' = Node
      <3>1. last # -1
        BY <2>1
      <3> QED
        BY <1>7, <3>1 DEF Update, Goto, Moving, Node
    <2>3. bitmap'[cur] = 0 .. last - 1
      <3>1. bitmap'[cur] = (0 .. last) \ {last}
        BY <1>0, <2>1, <2>2
      <3> QED
        BY <2>1, <3>1
    <2>4. IsPrefix(0 .. last - 1)
      BY <2>1 DEF IsPrefix
    <2>5. \A n \in Node : IsPrefix(bitmap'[n])
      BY <1>0, <2>1, <2>2, <2>3, <2>4
    <2> QED
      BY <2>2, <2>5 DEF PrefixInv, IsPrefix
  <1> QED
    BY <1>1, <1>2, <1>3, <1>4, <1>5, <1>6, <1>7
    DEF Next, Insert, Delete, Quiet

\* The steps that change no bit leave every entry as it is.
LEMMA SlotsKept ==
    ASSUME TypeInv, PrefixInv, LocalInv, Next, ~(SetBit \/ ClearBit \/ Update)
    PROVE  /\ \A n \in Node : n \in Node' /\ bitmap'[n] = bitmap[n]
           /\ \A n \in Node' : n \notin Node => bitmap'[n] = {}
           /\ \A n \in Node : \A i \in bitmap[n] :
                 id'[n][i] = id[n][i] /\ fgpt'[n][i] = fgpt[n][i]
  <1>1. CASE Quiet
    BY <1>1, QuietStep DEF Node
  <1>2. CASE Alloc
    BY <1>2, AllocStep
  <1>3. CASE InitChildren \/ StoreChild \/ StoreValid
    BY <1>3 DEF InitChildren, StoreChild, StoreValid, slotVars, Node
  <1> DEFINE Kept(f) == \A n \in Node : \A i \in bitmap[n] : f'[n][i] = f[n][i]
  <1>4. ASSUME pc \in Filling \cup Moving
        PROVE  cur \in Node /\ k \in Slots /\ k \notin bitmap[cur]
    BY <1>4 DEF TypeInv, TypeOK, ShapeInv, LocalInv, PrefixInv
  <1>5. CASE StoreId
    <2>1. /\ id' = [id EXCEPT ![cur][k] = key] /\ Node' = Node
          /\ bitmap' = bitmap /\ fgpt' = fgpt /\ pc \in Filling
      BY <1>5 DEF StoreId, Goto, Filling, Node
    <2> QED
      BY <1>4, <2>1 DEF TypeInv, TypeOK
  <1>6. CASE StoreFgpt
    <2>1. /\ fgpt' = [fgpt EXCEPT ![cur][k] = hashcode(key)] /\ Node' = Node
          /\ bitmap' = bitmap /\ id' = id /\ pc \in Filling
      BY <1>6 DEF StoreFgpt, Goto, Filling, Node
    <2> QED
      BY <1>4, <2>1 DEF TypeInv, TypeOK
  <1>7. CASE CopyEdge
    <2>1. PICK x : id' = [id EXCEPT ![cur][k] = x]
      BY <1>7 DEF CopyEdge
    <2>2. Node' = Node /\ bitmap' = bitmap /\ fgpt' = fgpt /\ pc \in Moving
      BY <1>7 DEF CopyEdge, Goto, Moving, Node
    <2> QED
      BY <1>4, <2>1, <2>2 DEF TypeInv, TypeOK
  <1>8. CASE CopyFgpt
    <2>1. PICK x : fgpt' = [fgpt EXCEPT ![cur][k] = x]
      BY <1>8 DEF CopyFgpt
    <2>2. Node' = Node /\ bitmap' = bitmap /\ id' = id /\ pc \in Moving
      BY <1>8 DEF CopyFgpt, Goto, Moving, Node
    <2> QED
      BY <1>4, <2>1, <2>2 DEF TypeInv, TypeOK
  <1> QED
    BY <1>1, <1>2, <1>3, <1>5, <1>6, <1>7, <1>8
    DEF Next, Insert, Delete, Quiet

\* The steps that change a bit: what an entry after them was before.
LEMMA SetBitStep ==
    ASSUME TypeInv, CallInv, LocalInv, SetBit
    PROVE  /\ Node' = Node /\ id' = id /\ fgpt' = fgpt /\ key' = key
           /\ cur \in Node /\ cur \in OnPath(key) /\ key \in Key /\ ~Held(key)
           /\ k \notin bitmap[cur]
           /\ id[cur][k] = key /\ fgpt[cur][k] = hashcode(key)
           /\ \A n \in Node : bitmap'[n] = IF n = cur THEN bitmap[n] \cup {k}
                                           ELSE bitmap[n]
  <1>1. /\ Node' = Node /\ id' = id /\ fgpt' = fgpt /\ key' = key
        /\ pc = "setBit" /\ bitmap' = [bitmap EXCEPT ![cur] = @ \cup {k}]
    BY DEF SetBit, Goto, callVars, Node
  <1>2. /\ cur \in OnPath(key) /\ key \in Key /\ ~Held(key)
        /\ k \notin bitmap[cur]
        /\ id[cur][k] = key /\ fgpt[cur][k] = hashcode(key)
    BY <1>1 DEF CallInv, LocalInv, Filling
  <1>3. cur \in Node /\ bitmap \in [Node -> SUBSET Slots]
    BY DEF TypeInv, TypeOK
  <1> QED
    BY <1>1, <1>2, <1>3

LEMMA ClearBitStep ==
    ASSUME TypeInv, LocalInv, ClearBit
    PROVE  /\ Node' = Node /\ id' = id /\ fgpt' = fgpt /\ key' = key
           /\ cur \in Node /\ k \in bitmap[cur] /\ id[cur][k] = key
           /\ \A n \in Node : bitmap'[n] = IF n = cur THEN bitmap[n] \ {k}
                                           ELSE bitmap[n]
  <1>1. /\ Node' = Node /\ id' = id /\ fgpt' = fgpt /\ key' = key
        /\ pc = "clearBit" /\ bitmap' = [bitmap EXCEPT ![cur] = @ \ {k}]
    BY DEF ClearBit, Goto, callVars, Node
  <1>2. k \in bitmap[cur] /\ id[cur][k] = key
    BY <1>1 DEF LocalInv
  <1>3. cur \in Node /\ bitmap \in [Node -> SUBSET Slots]
    BY DEF TypeInv, TypeOK
  <1> QED
    BY <1>1, <1>2, <1>3

LEMMA UpdateStep ==
    ASSUME TypeInv, PrefixInv, LocalInv, Update
    PROVE  /\ Node' = Node /\ id' = id /\ fgpt' = fgpt /\ cur \in Node
           /\ last \in bitmap[cur] /\ k \notin bitmap[cur]
           /\ id[cur][k] = id[cur][last] /\ fgpt[cur][k] = fgpt[cur][last]
           /\ \A n \in Node :
                 bitmap'[n] = IF n = cur THEN (bitmap[n] \ {last}) \cup {k}
                              ELSE bitmap[n]
  <1>1. Node' = Node /\ id' = id /\ fgpt' = fgpt /\ pc = "update"
    BY DEF Update, Goto, Node
  <1>2. /\ last \in bitmap[cur] /\ k \notin bitmap[cur]
        /\ id[cur][k] = id[cur][last] /\ fgpt[cur][k] = fgpt[cur][last]
    BY <1>1 DEF PrefixInv, Moving, LocalInv
  <1>3. cur \in Node /\ bitmap \in [Node -> SUBSET Slots]
    BY DEF TypeInv, TypeOK
  <1>4. last # -1
    BY <1>2, <1>3, SlotsAreNumbers
  <1>5. bitmap' = [bitmap EXCEPT ![cur] = (@ \ {last}) \cup {k}]
    BY <1>4 DEF Update
  <1> QED
    BY <1>1, <1>2, <1>3, <1>5

\* Entries stay complete, findable and unique when each of them was one
\* before the step, no two of them the same.
LEMMA EntriesFrom ==
    ASSUME TypeInv, FreshInv, EntryInv, Next, NEW src,
           \A n \in Node' : \A i \in bitmap'[n] :
              /\ n \in Node /\ src[n][i] \in bitmap[n]
              /\ id'[n][i] = id[n][src[n][i]]
              /\ fgpt'[n][i] = fgpt[n][src[n][i]],
           \A n \in Node' : \A i, j \in bitmap'[n] :
              src[n][i] = src[n][j] => i = j
    PROVE  EntryInv'
  <1>1. \A x \in Nat : OnPath(x) \subseteq OnPath(x)'
    BY PathStep
  <1>2. ASSUME NEW n \in Node', NEW i \in bitmap'[n]
        PROVE  /\ id'[n][i] \in Key /\ n \in OnPath(id[n][i])'
               /\ fgpt'[n][i] = hashcode(id'[n][i])
    <2>1. /\ id'[n][i] \in Key /\ n \in OnPath(id'[n][i])
          /\ fgpt'[n][i] = hashcode(id'[n][i])
      BY <1>2 DEF EntryInv
    <2>2. id'[n][i] \in Nat
      BY <2>1, ConstantsAssumption
    <2>3. \A x \in Nat : n \in OnPath(x) => n \in OnPath(x)'
      BY <1>1
    <2> QED
      BY <2>1, <2>2, <2>3
  <1>3. ASSUME NEW n \in Node', NEW m \in Node', NEW i \in bitmap'[n],
               NEW j \in bitmap'[m], id'[n][i] = id'[m][j]
        PROVE  n = m /\ i = j
    <2>1. n = m /\ src[n][i] = src[m][j]
      BY <1>3 DEF EntryInv
    <2> QED
      BY <2>1
  <1>4. \A n \in Node' : \A i \in bitmap'[n] :
           /\ id'[n][i] \in Key /\ n \in OnPath(id[n][i])'
           /\ fgpt'[n][i] = hashcode(id[n][i])'
    BY <1>2 DEF hashcode
  <1> QED
    BY <1>3, <1>4 DEF EntryInv

LEMMA EntryStep ==
    ASSUME TypeInv, StoreInv, Next
    PROVE  EntryInv'
  <1> USE DEF StoreInv
  <1>0. \A n \in Node' : \A i \in bitmap'[n] : i \in Slots
    BY TypeOKStep DEF TypeOK
  <1>1. CASE SetBit
    <2>0. /\ Node' = Node /\ id' = id /\ fgpt' = fgpt
          /\ cur \in Node /\ cur \in OnPath(key) /\ key \in Key
          /\ k \notin bitmap[cur]
          /\ id[cur][k] = key /\ fgpt[cur][k] = hashcode(key)
          /\ \A n \in Node : \A i \in bitmap'[n] :
                i \in bitmap[n] \/ (n = cur /\ i = k)
      BY <1>1, SetBitStep
    <2>1. \A x \in Nat : OnPath(x) \subseteq OnPath(x)'
      BY PathStep
    <2>2. ASSUME NEW n \in Node', NEW i \in bitmap'[n]
          PROVE  /\ id'[n][i] \in Key /\ n \in OnPath(id[n][i])'
                 /\ fgpt'[n][i] = hashcode(id'[n][i])
      <3>1. /\ id'[n][i] \in Key /\ n \in OnPath(id'[n][i])
            /\ fgpt'[n][i] = hashcode(id'[n][i])
        <4>1. CASE n = cur /\ i = k
          BY <2>0, <4>1
        <4>2. CASE i \in bitmap[n]
          BY <2>0, <4>2 DEF EntryInv
        <4> QED
          BY <2>0, <2>2, <4>1, <4>2
      <3>2. id'[n][i] \in Nat
        BY <3>1, ConstantsAssumption
      <3>3. \A x \in Nat : n \in OnPath(x) => n \in OnPath(x)'
        BY <2>1
      <3> QED
        BY <3>1, <3>2, <3>3
    <2>3. \A n, m \in Node' : \A i \in bitmap'[n], j \in bitmap'[m] :
             id'[n][i] = id'[m][j] => n = m /\ i = j
      <3>1. \A n \in Node : \A i \in bitmap[n] : id[n][i] # key
        BY <1>1, SetBitStep DEF Held, Holds
      <3>2. \A n, m \in Node : \A i \in bitmap[n], j \in bitmap[m] :
               id[n][i] = id[m][j] => n = m /\ i = j
        BY DEF EntryInv
      <3> QED
        BY <2>0, <3>1, <3>2
    <2>4. \A n \in Node' : \A i \in bitmap'[n] :
             /\ id'[n][i] \in Key /\ n \in OnPath(id[n][i])'
             /\ fgpt'[n][i] = hashcode(id[n][i])'
      BY <2>2 DEF hashcode
    <2> QED
      BY <2>3, <2>4 DEF EntryInv
  <1>2. CASE Update
    <2> DEFINE src == [n \in Node |-> [i \in Slots |->
                            IF n = cur /\ i = k THEN last ELSE i]]
    <2>1. \A n \in Node' : \A i \in bitmap'[n] :
             /\ n \in Node /\ src[n][i] \in bitmap[n]
             /\ id'[n][i] = id[n][src[n][i]]
             /\ fgpt'[n][i] = fgpt[n][src[n][i]]
      BY <1>0, <1>2, UpdateStep
    <2>2. \A n \in Node' : \A i, j \in bitmap'[n] :
             src[n][i] = src[n][j] => i = j
      BY <1>0, <1>2, UpdateStep
    <2> HIDE DEF src
    <2> QED
      BY <2>1, <2>2, EntriesFrom
  <1>3. CASE ~(SetBit \/ Update)
    <2> DEFINE src == [n \in Node |-> [i \in Slots |-> i]]
    <2>1. \A n \in Node' : \A i \in bitmap'[n] :
             /\ n \in Node /\ i \in bitmap[n]
             /\ id'[n][i] = id[n][i] /\ fgpt'[n][i] = fgpt[n][i]
      <3>1. CASE ClearBit
        BY <3>1, ClearBitStep
      <3>2. CASE ~ClearBit
        BY <1>3, <3>2, SlotsKept
      <3> QED
        BY <3>1, <3>2
    <2>2. \A n \in Node' : \A i \in bitmap'[n] :
             /\ n \in Node /\ src[n][i] \in bitmap[n]
             /\ id'[n][i] = id[n][src[n][i]]
             /\ fgpt'[n][i] = fgpt[n][src[n][i]]
      BY <1>0, <2>1
    <2>3. \A n \in Node' : \A i, j \in bitmap'[n] :
             src[n][i] = src[n][j] => i = j
      BY <1>0, <2>1
    <2> HIDE DEF src
    <2> QED
      BY <2>2, <2>3, EntriesFrom
  <1> QED
    BY <1>1, <1>2, <1>3

\* The set of edges changes when a bit is set for a new one or cleared, and
\* not when an entry moves.
LEMMA HeldStep ==
    ASSUME TypeInv, StoreInv, Next, NEW x
    PROVE  /\ SetBit => (Held(x)' <=> Held(x) \/ x = key)
           /\ ClearBit => (Held(x)' <=> Held(x) /\ x # key)
           /\ ~(SetBit \/ ClearBit) => (Held(x)' <=> Held(x))
  <1> USE DEF StoreInv
  <1>a. /\ Held(x) <=> \E n \in Node : \E i \in bitmap[n] : id[n][i] = x
        /\ Held(x)' <=> \E n \in Node' : \E i \in bitmap'[n] : id'[n][i] = x
    BY DEF Held, Holds
  <1>1. ASSUME SetBit PROVE Held(x)' <=> Held(x) \/ x = key
    BY <1>a, <1>1, SetBitStep
  <1>2. ASSUME ClearBit PROVE Held(x)' <=> Held(x) /\ x # key
    <2>1. ASSUME Held(x)' PROVE Held(x) /\ x # key
      <3>1. PICK n \in Node : \E i \in bitmap'[n] : id[n][i] = x
        BY <1>a, <1>2, <2>1, ClearBitStep
      <3>2. PICK i \in bitmap'[n] : id[n][i] = x
        BY <3>1
      <3>3. /\ i \in bitmap[n] /\ ~(n = cur /\ i = k)
            /\ cur \in Node /\ k \in bitmap[cur] /\ id[cur][k] = key
        BY <1>2, <3>2, ClearBitStep
      <3>4. x # key
        BY <3>2, <3>3 DEF EntryInv
      <3> QED
        BY <1>a, <3>2, <3>3, <3>4
    <2>2. ASSUME Held(x), x # key PROVE Held(x)'
      BY <1>a, <1>2, <2>2, ClearBitStep
    <2> QED
      BY <2>1, <2>2
  <1>3. ASSUME ~(SetBit \/ ClearBit) PROVE Held(x)' <=> Held(x)
    <2>1. CASE Update
      BY <1>a, <2>1, UpdateStep
    <2>2. CASE ~Update
      <3>1. /\ \A n \in Node : n \in Node' /\ bitmap'[n] = bitmap[n]
            /\ \A n \in Node' : n \notin Node => bitmap'[n] = {}
            /\ \A n \in Node : \A i \in bitmap[n] : id'[n][i] = id[n][i]
        BY <1>3, <2>2, SlotsKept
      <3> QED
        BY <1>a, <3>1
    <2> QED
      BY <2>1, <2>2
  <1> QED
    BY <1>1, <1>2, <1>3

\* A search finds exactly what a node holds.
LEMMA FoundIsHeld ==
    ASSUME TypeOK, EntryInv, NEW x \in Nat
    PROVE  find_edge_t(x) <=> Held(x)
  <1>1. OnPath(x) \subseteq Node
    BY PathFacts DEF PathLaw
  <1> DEFINE Finds(n) == find_key(n, x) >= 0
  <1>2. ASSUME NEW n \in Node
        PROVE  /\ Finds(n) <=> Holds(n, x)
               /\ Holds(n, x) => n \in OnPath(x)
    <2>1. Matches(n, x) \subseteq Slots
      BY DEF Matches, TypeOK
    <2>2. \/ find_key(n, x) = -1 /\ Matches(n, x) = {}
          \/ find_key(n, x) \in Matches(n, x)
      BY FindKey
    <2>3. Finds(n) <=> Matches(n, x) # {}
      BY <2>1, <2>2, SlotsAreNumbers
    <2>4. Matches(n, x) # {} <=> Holds(n, x)
      BY DEF EntryInv, Matches, Holds
    <2>5. Holds(n, x) => n \in OnPath(x)
      BY DEF EntryInv, Holds
    <2> HIDE DEF Finds
    <2> QED
      BY <2>3, <2>4, <2>5
  <1>3. find_edge_t(x) <=> \E n \in OnPath(x) : Finds(n)
    BY DEF find_edge_t
  <1> HIDE DEF Finds
  <1> QED
    BY <1>1, <1>2, <1>3 DEF Held

\* The node and the slot of a call are still what the call took them for.
LEMMA LocalStep ==
    ASSUME TypeInv, StoreInv, Next
    PROVE  LocalInv'
  <1>t. /\ TypeOK /\ TypeOK' /\ cur \in Node /\ key \in Nat
        /\ bitmap \in [Node -> SUBSET Slots]
        /\ id \in [Node -> [Slots -> Nat]] /\ fgpt \in [Node -> [Slots -> Nat]]
    BY TypeOKStep DEF TypeInv, TypeOK
  <1> DEFINE Placing == {"choose", "addNumNodes", "descend"} \cup Linking
                           \cup Filling
             Placed == cur \in OnPath(key) /\ ~Held(key)
  <1>a. ASSUME pc \in Placing, UNCHANGED key, ~SetBit,
               cur' = cur \/ cur' \in OnPath(key)
        PROVE  Placed'
    <2>1. cur' \in OnPath(key) /\ ~Held(key)
      BY <1>a DEF StoreInv, LocalInv
    <2>2. ~ClearBit
      BY <1>a DEF ClearBit, Goto, Linking, Filling
    <2>3. \A x \in Nat : cur' \in OnPath(x) => cur' \in OnPath(x)'
      BY PathStep DEF StoreInv
    <2>4. \A x \in Nat : Held(x)' <=> Held(x)
      BY <1>a, <2>2, HeldStep
    <2>5. key' \in Nat /\ cur' \in OnPath(key') /\ ~Held(key')
      BY <1>a, <1>t, <2>1
    <2> QED
      BY <2>3, <2>4, <2>5
  <1> HIDE DEF Placing, Placed
  <1>b. ASSUME Placed', pc' \in Placing, pc' \notin Filling PROVE LocalInv'
    BY <1>b DEF LocalInv, Placed, Placing, Filling, Linking
  <1>1. CASE FindEdge
    <2>1. pc' \in {"choose", "return"}
      BY <1>1 DEF FindEdge, Goto
    <2>2. CASE pc' = "choose"
      <3>1. /\ ~find_edge_t(key) /\ key' = key /\ cur' = 0
            /\ ~SetBit /\ ~ClearBit
        BY <1>1, <2>2
        DEF FindEdge, Goto, SetBit, ClearBit, callVars, locals, StoreInv,
            CallInv
      <3>2. ~Held(key)
        BY <1>t, <3>1, FoundIsHeld DEF StoreInv
      <3>3. \A x \in Nat : Held(x)' <=> Held(x)
        BY <3>1, HeldStep
      <3>4. \A x \in Nat : 0 \in OnPath(x)'
        BY <1>t, PathFactsNext DEF PathLaw
      <3>5. key' \in Nat /\ 0 \in OnPath(key)' /\ ~Held(key)'
        <4>1. key' \in Nat /\ ~Held(key')
          BY <1>t, <3>1, <3>2
        <4> QED
          BY <3>3, <3>4, <4>1
      <3>6. cur' \in OnPath(key)'
        BY <3>1, <3>5
      <3> QED
        BY <1>b, <2>2, <3>5, <3>6 DEF Placed, Placing, Filling
    <2> QED
      BY <2>1, <2>2 DEF LocalInv, Linking, Filling
  <1>2. CASE ChooseSlot
    <2>1. /\ pc = "choose" /\ pc' = "storeId" /\ key' = key /\ cur' = cur
          /\ k' = first_zero(cur) /\ first_zero(cur) # -1 /\ bitmap' = bitmap
          /\ ~SetBit
      BY <1>2 DEF ChooseSlot, Goto, slotVars, SetBit
    <2>2. Placed'
      BY <1>a, <2>1 DEF Placing
    <2>3. k' \in Slots \ bitmap[cur] /\ \A j \in Slots \ bitmap[cur] : k' <= j
      BY <1>t, <2>1, FirstZero
    <2>4. 0 .. k' - 1 \subseteq bitmap[cur]
      <3>1. MAX_ENTRY_NUM \in Nat /\ k' \in Nat /\ k' < MAX_ENTRY_NUM
        BY <2>3, ConstantsAssumption DEF Slots
      <3> QED
        BY <2>3, <3>1 DEF Slots
    <2> QED
      BY <2>1, <2>2, <2>3, <2>4 DEF LocalInv, Placed, Linking, Filling
  <1>3. CASE Descend
    <2>1. /\ pc \in {"choose", "descend"} /\ pc' = "choose" /\ key' = key
          /\ valid[cur] /\ cur' = Succ(cur, key) /\ ~SetBit
      BY <1>3 DEF Descend, SetBit, Goto, Succ
    <2>2. cur \in OnPath(key)
      BY <2>1 DEF StoreInv, LocalInv
    <2>3. Succ(cur, key) \in Children(child[cur]) /\ child[cur] \in Nat
      <3>1. child[cur] \in Nat /\ level[cur] \in Nat
        BY <1>t DEF TypeOK
      <3>2. Branch(key, level[cur]) \in 0 .. NUM_BRANCH - 1
        BY <1>t, <3>1, BranchInRange
      <3> QED
        BY <3>1, <3>2, NumBranchType DEF Succ, Children
    <2>4. cur < child[cur] /\ child[cur] + NUM_BRANCH <= next
      BY <1>t, <2>1 DEF TypeInv, ShapeInv
    <2>5. Succ(cur, key) \in Node /\ cur < Succ(cur, key)
      <3>1. Succ(cur, key) \in Node
        BY <1>t, <2>3, <2>4, GroupFacts
      <3>2. cur \in Nat /\ child[cur] <= Succ(cur, key)
        BY <1>t, <2>3, NumBranchType DEF Node, TypeOK, Children
      <3>3. Succ(cur, key) \in Nat
        BY <1>t, <3>1 DEF Node, TypeOK
      <3> QED
        BY <2>3, <2>4, <3>1, <3>2, <3>3
    <2>6. cur' \in OnPath(key)
      BY <1>t, <2>1, <2>2, <2>5, PathFacts DEF PathLaw
    <2>7. Placed'
      BY <1>a, <2>1, <2>6 DEF Placing
    <2> QED
      BY <1>b, <2>1, <2>7 DEF Placing, Filling
  <1>4. CASE Alloc \/ InitChildren \/ StoreChild \/ StoreValid \/ AddNumNodes
    <2>1. /\ pc \in Placing /\ pc' \in Placing /\ pc' \notin Filling
          /\ key' = key /\ cur' = cur /\ ~SetBit
      BY <1>4
      DEF Alloc, InitChildren, StoreChild, StoreValid, AddNumNodes, Goto,
          callVars, locals, SetBit, Placing, Linking, Filling
    <2>2. Placed'
      BY <1>a, <2>1
    <2> QED
      BY <1>b, <2>1, <2>2
  <1>5. CASE StoreId
    <2>1. /\ pc = "storeId" /\ pc' = "storeFgpt" /\ key' = key /\ cur' = cur
          /\ k' = k /\ id' = [id EXCEPT ![cur][k] = key] /\ bitmap' = bitmap
          /\ ~SetBit
      BY <1>5 DEF StoreId, Goto, callVars, locals, SetBit
    <2>2. Placed'
      BY <1>a, <2>1 DEF Placing, Filling
    <2>3. /\ k \in Slots /\ k \notin bitmap[cur]
          /\ 0 .. k - 1 \subseteq bitmap[cur]
      BY <2>1 DEF StoreInv, LocalInv, Filling, TypeInv, ShapeInv
    <2>4. id'[cur][k] = key
      BY <1>t, <2>1, <2>3
    <2> QED
      BY <2>1, <2>2, <2>3, <2>4 DEF LocalInv, Placed, Linking, Filling
  <1>6. CASE StoreFgpt
    <2>1. /\ pc = "storeFgpt" /\ pc' = "setBit" /\ key' = key /\ cur' = cur
          /\ k' = k /\ fgpt' = [fgpt EXCEPT ![cur][k] = hashcode(key)]
          /\ bitmap' = bitmap /\ id' = id /\ ~SetBit
      BY <1>6 DEF StoreFgpt, Goto, callVars, locals, SetBit
    <2>2. Placed'
      BY <1>a, <2>1 DEF Placing, Filling
    <2>3. /\ k \in Slots /\ k \notin bitmap[cur]
          /\ 0 .. k - 1 \subseteq bitmap[cur] /\ id[cur][k] = key
      BY <2>1 DEF StoreInv, LocalInv, Filling, TypeInv, ShapeInv
    <2>4. fgpt'[cur][k] = hashcode(key)
      BY <1>t, <2>1, <2>3
    <2> QED
      BY <2>1, <2>2, <2>3, <2>4
      DEF LocalInv, Placed, Linking, Filling, hashcode
  <1>7. CASE Search
    <2>1. pc' \in {"clearBit", "return"}
      BY <1>7 DEF Search, Goto
    <2>2. CASE pc' = "clearBit"
      <3>1. PICK n \in Node :
               /\ IsHolder(n, key)
               /\ cur' = n /\ k' = find_key(n, key) /\ last' = LastSlot(n)
        BY <1>7, <2>2 DEF Search, Goto
      <3>2. /\ pc = "search" /\ key' = key /\ bitmap' = bitmap /\ id' = id
        BY <1>7 DEF Search, Goto, slotVars
      <3>3. k' \in Matches(n, key)
        <4>1. find_key(n, key) >= 0
          BY <3>1 DEF IsHolder
        <4> QED
          BY <1>t, <3>1, <4>1, FindKey
      <3>4. k' \in bitmap[n] /\ id[n][k'] = key
        BY <3>3 DEF Matches
      <3>5. LastSlot(n) \in bitmap[n] /\ bitmap[n] = 0 .. LastSlot(n)
        <4>1. IsPrefix(bitmap[n])
          BY <3>2 DEF StoreInv, PrefixInv, Moving
        <4> QED
          BY <1>t, <3>4, <4>1, LastOfPrefix
      <3>6. last' \in Slots
        BY <1>t, <3>1, <3>5
      <3> QED
        BY <2>2, <3>1, <3>2, <3>4, <3>5, <3>6 DEF LocalInv, Linking, Filling
    <2> QED
      BY <2>1, <2>2 DEF LocalInv, Linking, Filling
  <1>8. CASE CopyEdge
    <2>1. /\ pc = "copyEdge" /\ pc' = "copyFgpt" /\ cur' = cur /\ k' = k
          /\ last' = last
      BY <1>8 DEF CopyEdge, Goto, callVars, locals
    <2>2. k \notin bitmap[cur] /\ last \in bitmap[cur] /\ k \in Slots
      BY <2>1 DEF StoreInv, PrefixInv, Moving, TypeInv, ShapeInv
    <2>3. last # -1 /\ last \in Slots /\ k # last
      BY <1>t, <2>2, SlotsAreNumbers
    <2>4. id' = [id EXCEPT ![cur][k] = id[cur][last]]
      BY <1>8, <2>3 DEF CopyEdge
    <2>5. id'[cur][k] = id'[cur][last]
      BY <1>t, <2>2, <2>3, <2>4
    <2> QED
      BY <2>1, <2>5 DEF LocalInv, Linking, Filling
  <1>9. CASE CopyFgpt
    <2>1. /\ pc = "copyFgpt" /\ pc' = "update" /\ cur' = cur /\ k' = k
          /\ last' = last /\ id' = id
      BY <1>9 DEF CopyFgpt, Goto, callVars, locals
    <2>2. k \notin bitmap[cur] /\ last \in bitmap[cur] /\ k \in Slots
      BY <2>1 DEF StoreInv, PrefixInv, Moving, TypeInv, ShapeInv
    <2>3. last # -1 /\ last \in Slots /\ k # last
      BY <1>t, <2>2, SlotsAreNumbers
    <2>4. fgpt' = [fgpt EXCEPT ![cur][k] = fgpt[cur][last]]
      BY <1>9, <2>3 DEF CopyFgpt
    <2>5. fgpt'[cur][k] = fgpt'[cur][last]
      BY <1>t, <2>2, <2>3, <2>4
    <2>6. id[cur][k] = id[cur][last]
      BY <2>1 DEF StoreInv, LocalInv
    <2> QED
      BY <2>1, <2>5, <2>6 DEF LocalInv, Linking, Filling
  <1>10. CASE \/ Start \/ AllocFails \/ SetBit \/ AddDegree \/ ClearBit
              \/ SubDegree \/ Update \/ Return \/ Crash
    <2>1. pc' \in {"idle", "find", "search", "addDegree", "return",
                   "subDegree", "copyEdge"}
      BY <1>10
      DEF Start, AllocFails, SetBit, AddDegree, ClearBit, SubDegree, Update,
          Return, Crash, Goto
    <2> QED
      BY <2>1 DEF LocalInv, Linking, Filling
  <1> QED
    BY <1>1, <1>2, <1>3, <1>4, <1>5, <1>6, <1>7, <1>8, <1>9, <1>10
    DEF Next, Insert, Delete

-----------------------------------------------------------------------------
(* The invariant.                                                          *)

LEMMA StoreInit == Init => StoreInv
  <1> SUFFICES ASSUME Init PROVE StoreInv
    OBVIOUS
  <1>1. Node = {0} /\ \A n \in Node : bitmap[n] = {}
    BY DEF Init, Node
  <1>2. EntryInv
    BY <1>1 DEF EntryInv
  <1>3. FreshInv /\ CallInv /\ PrefixInv /\ LocalInv
    BY <1>1
    DEF Init, FreshInv, CallInv, PrefixInv, LocalInv, Linking, Filling, Moving,
        IsPrefix
  <1> QED
    BY <1>2, <1>3 DEF StoreInv

LEMMA StoreInvariant ==
    ASSUME MovesFinish PROVE Spec => [](TypeInv /\ StoreInv)
  <1>1. TypeInv /\ StoreInv /\ [Next]_vars => StoreInv'
    <2> SUFFICES ASSUME TypeInv, StoreInv, [Next]_vars PROVE StoreInv'
      OBVIOUS
    <2>1. CASE Next
      <3>1. FreshInv' /\ CallInv' /\ PrefixInv'
        BY <2>1, FreshStep, CallStep, PrefixStep DEF StoreInv
      <3> QED
        BY <2>1, <3>1, EntryStep, LocalStep DEF StoreInv
    <2>2. CASE UNCHANGED vars
      <3>1. \A x : OnPath(x)' = OnPath(x) /\ (Held(x)' <=> Held(x))
        BY <2>2 DEF vars, OnPath, Held, Holds, Node, Branch
      <3> QED
        BY <2>2, <3>1
        DEF vars, StoreInv, FreshInv, CallInv, EntryInv, PrefixInv, LocalInv,
            Node, Children, NUM_BRANCH, IsPrefix, hashcode
    <2> QED
      BY <2>1, <2>2
  <1> QED
    BY <1>1, StoreInit, TypeInvariant, PTL DEF Spec

-----------------------------------------------------------------------------
(* The abstract store.                                                     *)

StoredIsHeld == Stored = {x \in Key : Held(x)}

LEMMA StoredHeld == TypeOK /\ EntryInv => StoredIsHeld
  <1> SUFFICES ASSUME TypeOK, EntryInv
               PROVE  \A x \in Key : find_edge_t(x) <=> Held(x)
    BY DEF Stored, StoredIsHeld
  <1> QED
    BY FoundIsHeld, ConstantsAssumption

LEMMA StoredHeldNext == (TypeOK /\ EntryInv)' => StoredIsHeld'
  BY StoredHeld, PTL

\* The edges a search finds change with the bit of a new or deleted entry.
LEMMA StoredStep ==
    ASSUME TypeInv, StoreInv, Next
    PROVE  /\ SetBit => Stored' = Stored \cup {key} /\ key \notin Stored
           /\ ClearBit => Stored' = Stored \ {key} /\ key \in Stored
           /\ ~(SetBit \/ ClearBit) => Stored' = Stored
  <1>1. Stored = {x \in Key : Held(x)} /\ Stored' = {x \in Key : Held(x)'}
    BY StoredHeld, StoredHeldNext, TypeOKStep, EntryStep
    DEF TypeInv, StoreInv, StoredIsHeld
  <1>2. ASSUME SetBit
        PROVE  Stored' = Stored \cup {key} /\ key \notin Stored
    <2>1. key \in Key /\ ~Held(key)
      BY <1>2, SetBitStep DEF StoreInv
    <2>2. \A x \in Key : Held(x)' <=> Held(x) \/ x = key
      BY <1>2, HeldStep
    <2> QED
      BY <1>1, <2>1, <2>2
  <1>3. ASSUME ClearBit
        PROVE  Stored' = Stored \ {key} /\ key \in Stored
    <2>1. key \in Key /\ Held(key)
      <3>1. cur \in Node /\ k \in bitmap[cur] /\ id[cur][k] = key
        BY <1>3, ClearBitStep DEF StoreInv
      <3>2. pc = "clearBit"
        BY <1>3 DEF ClearBit, Goto
      <3> QED
        BY <3>1, <3>2 DEF StoreInv, CallInv, Held, Holds
    <2>2. \A x \in Key : Held(x)' <=> Held(x) /\ x # key
      BY <1>3, HeldStep
    <2> QED
      BY <1>1, <2>1, <2>2
  <1>4. ASSUME ~(SetBit \/ ClearBit) PROVE Stored' = Stored
    <2>1. \A x \in Key : Held(x)' <=> Held(x)
      BY <1>4, HeldStep
    <2> QED
      BY <1>1, <2>1
  <1> QED
    BY <1>2, <1>3, <1>4

\* The abstract call and its answer, as the refinement mapping has them.
TheCall == IF pc = "idle" THEN NoCall ELSE <<op, key>>
Decided == {"addDegree", "subDegree", "copyEdge", "copyFgpt", "update"}
TheAnswer == IF pc \in Decided THEN 1 ELSE result

\* Every step is a step of the abstract store or leaves it as it is.
LEMMA EdgeStoreStep ==
    ASSUME TypeInv, StoreInv, Next
    PROVE  Edges!Next \/ UNCHANGED <<Stored, TheCall, TheAnswer>>
  <1>s. /\ SetBit => Stored' = Stored \cup {key} /\ key \notin Stored
        /\ ClearBit => Stored' = Stored \ {key} /\ key \in Stored
        /\ ~(SetBit \/ ClearBit) => Stored' = Stored
    BY StoredStep
  <1>k. /\ \A a, b : NoCall # <<a, b>>
        /\ \A a, b : <<a, b>>[1] = a /\ <<a, b>>[2] = b
    BY DEF NoCall
  <1>c. CallInv
    BY DEF StoreInv
  <1>e. \A x \in Key : find_edge_t(x) <=> x \in Stored
    BY DEF Stored
  <1>1. CASE Start
    <2>1. /\ pc = "idle" /\ pc' \in {"find", "search"}
          /\ op' \in {"insert", "delete"} /\ key' \in Key /\ result' = -1
          /\ ~(SetBit \/ ClearBit)
      BY <1>1 DEF Start, Goto, SetBit, ClearBit
    <2>2. Edges!Start
      BY <1>s, <2>1 DEF Edges!Start, NoCall
    <2> QED
      BY <2>2 DEF Edges!Next
  <1>2. CASE FindEdge
    <2>1. /\ pc = "find" /\ op = "insert" /\ key \in Key /\ result = -1
          /\ op' = op /\ key' = key /\ ~(SetBit \/ ClearBit)
      BY <1>2, <1>c DEF FindEdge, Goto, callVars, SetBit, ClearBit, CallInv
    <2>2. CASE key \in Stored
      <3>1. pc' = "return" /\ result' = 0
        BY <1>2, <1>e, <2>1, <2>2 DEF FindEdge, Goto
      <3>2. Stored' = Stored \cup {key}
        BY <1>s, <2>1, <2>2
      <3>3. Edges!Insert
        BY <1>k, <2>1, <2>2, <3>1, <3>2 DEF Edges!Insert
      <3> QED
        BY <3>3 DEF Edges!Next
    <2>3. CASE key \notin Stored
      <3>1. pc' = "choose" /\ result' = result
        BY <1>2, <1>e, <2>1, <2>3 DEF FindEdge, Goto
      <3> QED
        BY <1>s, <2>1, <3>1 DEF TheCall, TheAnswer, Decided
    <2> QED
      BY <2>2, <2>3
  <1>3. CASE SetBit
    <2>1. /\ pc = "setBit" /\ pc' = "addDegree" /\ op = "insert" /\ key \in Key
          /\ result = -1 /\ op' = op /\ key' = key
      BY <1>3, <1>c DEF SetBit, Goto, callVars, CallInv, Filling
    <2>2. Edges!Insert
      BY <1>3, <1>k, <1>s, <2>1 DEF Edges!Insert
    <2> QED
      BY <2>2 DEF Edges!Next
  <1>4. CASE Search
    <2>1. /\ pc = "search" /\ op = "delete" /\ key \in Key /\ result = -1
          /\ op' = op /\ key' = key /\ ~(SetBit \/ ClearBit)
      BY <1>4, <1>c DEF Search, Goto, SetBit, ClearBit, CallInv
    <2>2. CASE key \notin Stored
      <3>1. pc' = "return" /\ result' = 0
        BY <1>4, <1>e, <2>1, <2>2 DEF Search, Goto
      <3>2. Stored' = Stored \ {key}
        BY <1>s, <2>1, <2>2
      <3>3. Edges!Delete
        BY <1>k, <2>1, <2>2, <3>1, <3>2 DEF Edges!Delete
      <3> QED
        BY <3>3 DEF Edges!Next
    <2>3. CASE key \in Stored
      <3>1. pc' = "clearBit" /\ result' = result
        BY <1>4, <1>e, <2>1, <2>3 DEF Search, Goto
      <3> QED
        BY <1>s, <2>1, <3>1 DEF TheCall, TheAnswer, Decided
    <2> QED
      BY <2>2, <2>3
  <1>5. CASE ClearBit
    <2>1. /\ pc = "clearBit" /\ pc' \in {"subDegree", "copyEdge"}
          /\ op = "delete" /\ key \in Key /\ result = -1
          /\ op' = op /\ key' = key
      BY <1>5, <1>c DEF ClearBit, Goto, callVars, CallInv
    <2>2. Edges!Delete
      BY <1>5, <1>k, <1>s, <2>1 DEF Edges!Delete
    <2> QED
      BY <2>2 DEF Edges!Next
  <1>6. CASE Return
    <2>1. /\ pc = "return" /\ pc' = "idle" /\ result \in {0, 1}
          /\ result' = result /\ ~(SetBit \/ ClearBit)
      BY <1>6, <1>c DEF Return, Goto, SetBit, ClearBit, CallInv
    <2>2. Edges!Return
      BY <1>k, <1>s, <2>1 DEF Edges!Return
    <2> QED
      BY <2>2 DEF Edges!Next
  <1>7. CASE Crash \/ AllocFails
    <2>1. pc' = "idle" /\ result' = -1
      BY <1>7, <1>c DEF Crash, AllocFails, Goto, CallInv
    <2>2. Stored' = Stored
      <3>1. UNCHANGED <<bitmap, id>> /\ Node' = Node
        BY <1>7 DEF Crash, AllocFails, slotVars, Node
      <3>2. ~(SetBit \/ ClearBit)
        BY <1>7, <2>1 DEF SetBit, ClearBit, Goto
      <3> QED
        BY <1>s, <3>2
    <2>3. Edges!Crash
      BY <2>1, <2>2 DEF Edges!Crash
    <2> QED
      BY <2>3 DEF Edges!Next
  <1>8. CASE \/ ChooseSlot \/ Descend \/ Alloc \/ InitChildren \/ StoreChild
             \/ StoreValid \/ AddNumNodes \/ StoreId \/ StoreFgpt
    <2>1. /\ pc \notin {"idle"} \cup Decided /\ pc' \notin {"idle"} \cup Decided
          /\ op' = op /\ key' = key /\ result' = result
          /\ ~(SetBit \/ ClearBit)
      BY <1>8
      DEF ChooseSlot, Descend, Alloc, InitChildren, StoreChild, StoreValid,
          AddNumNodes, StoreId, StoreFgpt, Goto, callVars, Decided, SetBit,
          ClearBit
    <2> QED
      BY <1>s, <2>1 DEF TheCall, TheAnswer
  <1>9. CASE AddDegree \/ SubDegree \/ CopyEdge \/ CopyFgpt \/ Update
    <2>1. /\ pc \in Decided /\ pc' # "idle" /\ op' = op /\ key' = key
          /\ pc' \in Decided \/ result' = 1
          /\ pc' = "return" => result' = 1
          /\ ~(SetBit \/ ClearBit)
      BY <1>9
      DEF AddDegree, SubDegree, CopyEdge, CopyFgpt, Update, Goto, callVars,
          Decided, SetBit, ClearBit
    <2> QED
      BY <1>s, <2>1 DEF TheCall, TheAnswer, Decided
  <1> QED
    BY <1>1, <1>2, <1>3, <1>4, <1>5, <1>6, <1>7, <1>8, <1>9
    DEF Next, Insert, Delete

\* Each call of insert_edge and delete_edge takes effect at one moment, the
\* store of a bit, and answers by what it did; the other stores, and a crash
\* between any two of those it may come between, leave the edges alone.
THEOREM EdgeStoreImplemented ==
    ASSUME MovesFinish PROVE Spec => ImplementsEdgeStore
  <1>1. Init => Edges!Init
    <2> SUFFICES ASSUME Init PROVE Edges!Init
      OBVIOUS
    <2>1. TypeOK /\ EntryInv
      BY TypeInit, StoreInit DEF TypeInv, StoreInv
    <2>2. \A x : ~Held(x)
      BY DEF Init, Held, Holds, Node
    <2>3. Stored = {}
      BY <2>1, <2>2, StoredHeld DEF StoredIsHeld
    <2> QED
      BY <2>3 DEF Init, Edges!Init
  <1>2. TypeInv /\ StoreInv /\ [Next]_vars =>
           [Edges!Next]_<<Stored, TheCall, TheAnswer>>
    <2> SUFFICES ASSUME TypeInv, StoreInv, [Next]_vars
                 PROVE  Edges!Next \/ UNCHANGED <<Stored, TheCall, TheAnswer>>
      OBVIOUS
    <2>1. CASE Next
      BY <2>1, EdgeStoreStep
    <2>2. CASE UNCHANGED vars
      BY <2>2
      DEF vars, Stored, find_edge_t, OnPath, find_key, Matches, Node, Branch,
          hashcode, TheCall, TheAnswer
    <2> QED
      BY <2>1, <2>2
  <1> QED
    BY <1>1, <1>2, StoreInvariant, PTL
    DEF Spec, ImplementsEdgeStore, Edges!Spec, TheCall, TheAnswer, Decided

\* What a deletion knows of its edge once the bit is cleared.
GoneInv ==
    /\ pc \in {"subDegree"} \cup Moving => ~Held(key)
    /\ pc \in {"return", "idle"} /\ op = "delete" /\ result # -1 => ~Held(key)

LEMMA GoneStep ==
    ASSUME TypeInv, StoreInv, GoneInv, Next
    PROVE  GoneInv'
  <1>h. \A x : /\ ClearBit => (Held(x)' <=> Held(x) /\ x # key)
               /\ ~(SetBit \/ ClearBit) => (Held(x)' <=> Held(x))
    BY HeldStep
  <1>c. CallInv
    BY DEF StoreInv
  <1>1. CASE ClearBit
    <2>1. key' = key /\ pc' \notin {"return", "idle"}
      BY <1>1 DEF ClearBit, Goto, callVars
    <2>2. \A x : x = key' => ~Held(x)'
      BY <1>1, <1>h, <2>1
    <2> QED
      BY <2>1, <2>2 DEF GoneInv
  <1>2. CASE Search
    <2>1. /\ key' = key /\ key \in Nat /\ pc' \in {"clearBit", "return"}
          /\ ~(SetBit \/ ClearBit)
      BY <1>2 DEF Search, Goto, SetBit, ClearBit, TypeInv, TypeOK
    <2>2. pc' = "return" => ~Held(key)
      <3>1. pc' = "return" => ~find_edge_t(key)
        BY <1>2 DEF Search, Goto
      <3> QED
        BY <2>1, <3>1, FoundIsHeld DEF TypeInv, StoreInv
    <2>3. pc' = "return" => \A x : x = key' => ~Held(x)'
      BY <1>h, <2>1, <2>2
    <2> QED
      BY <2>1, <2>3 DEF GoneInv, Moving
  <1>3. CASE SubDegree \/ CopyEdge \/ CopyFgpt \/ Update \/ Return
    <2>1. /\ key' = key /\ ~(SetBit \/ ClearBit)
          /\ pc \in {"subDegree", "return"} \cup Moving
          /\ pc = "return" => pc' = "idle" /\ op' = op /\ result' = result
      BY <1>3
      DEF SubDegree, CopyEdge, CopyFgpt, Update, Return, Goto, callVars,
          SetBit, ClearBit, Moving
    <2>2. Held(key)' <=> Held(key)
      BY <1>h, <2>1
    <2> QED
      BY <2>1, <2>2 DEF GoneInv, Moving
  <1>4. CASE ~(ClearBit \/ Search \/ SubDegree \/ CopyEdge \/ CopyFgpt
               \/ Update \/ Return)
    <2>1. /\ pc' \notin {"subDegree"} \cup Moving
          /\ pc' \in {"return", "idle"} => op' # "delete" \/ result' = -1
      BY <1>4, <1>c
      DEF Next, Insert, Delete, Start, FindEdge, ChooseSlot, Descend, Alloc,
          AllocFails, InitChildren, StoreChild, StoreValid, AddNumNodes,
          StoreId, StoreFgpt, SetBit, AddDegree, Crash, Goto, callVars,
          CallInv, Moving
    <2> QED
      BY <2>1 DEF GoneInv
  <1> QED
    BY <1>1, <1>2, <1>3, <1>4

\* A deletion that returned has removed the edge: no other slot has it, and
\* none gets it back.  That no process died while an entry moved is needed,
\* for otherwise a later deletion may copy what is before the first slot.
THEOREM DeletedIsGone ==
    ASSUME MovesFinish PROVE Spec => []DeletedGone
  <1>1. Init => GoneInv
    BY DEF Init, GoneInv, Moving
  <1>2. TypeInv /\ StoreInv /\ GoneInv /\ [Next]_vars => GoneInv'
    <2>1. CASE UNCHANGED vars
      BY <2>1 DEF vars, GoneInv, Held, Holds, Node
    <2> QED
      BY <2>1, GoneStep
  <1>3. TypeInv /\ StoreInv /\ GoneInv => DeletedGone
    BY FoundIsHeld DEF TypeInv, TypeOK, StoreInv, GoneInv, DeletedGone, AtRest
  <1> QED
    BY <1>1, <1>2, <1>3, StoreInvariant, PTL DEF Spec

-----------------------------------------------------------------------------
(* The nodes of the tree.                                                  *)

Parents == {n \in Node : valid[n]}

\* The root and the children of the nodes that have some.
Linked == {0} \cup UNION {Children(child[m]) : m \in Parents}

\* The groups of NUM_BRANCH nodes at a and at b have no node in common.
Apart(a, b) == a + NUM_BRANCH <= b \/ b + NUM_BRANCH <= a

\* Nodes that have children are in the tree themselves, no node has two
\* parents, and the block a call is about to link has none yet.
LinkInv ==
    /\ Parents \subseteq Linked
    /\ \A n, m \in Parents : n # m => Apart(child[n], child[m])
    /\ pc \in Linking => \A n \in Parents : Apart(child[n], mine)

TreeInv == TypeInv /\ StoreInv /\ LinkInv

LEMMA PathLinked ==
    ASSUME TypeInv, NEW x \in Nat
    PROVE  OnPath(x) \subseteq Linked
  <1>1. TypeOK
    BY DEF TypeInv
  <1> SUFFICES ASSUME NEW n \in OnPath(x), n # 0 PROVE n \in Linked
    BY DEF Linked
  <1>2. PICK m \in OnPath(x) : m < n /\ valid[m] /\ n = Succ(m, x)
    BY <1>1, PathFacts DEF PathLaw
  <1>3. m \in Parents /\ child[m] \in Nat /\ level[m] \in Nat
    BY <1>1, <1>2, PathFacts DEF PathLaw, Parents, TypeOK
  <1>4. n \in Children(child[m])
    <2>1. Branch(x, level[m]) \in 0 .. NUM_BRANCH - 1
      BY <1>3, BranchInRange
    <2> QED
      BY <1>2, <1>3, <2>1, NumBranchType DEF Succ, Children
  <1> QED
    BY <1>3, <1>4 DEF Linked

\* The groups of the parents are nodes behind their parent.
LEMMA GroupsInside ==
    ASSUME TypeInv, NEW m \in Parents
    PROVE  /\ m \in Nat /\ child[m] \in Nat /\ m < child[m]
           /\ child[m] + NUM_BRANCH <= next
           /\ Children(child[m]) \subseteq Node
           /\ \A n \in Children(child[m]) : n \in Nat /\ m < n /\ n # 0
  <1>1. /\ m \in Nat /\ child[m] \in Nat /\ m < child[m]
        /\ child[m] + NUM_BRANCH <= next
    BY DEF Parents, TypeInv, TypeOK, ShapeInv, Node
  <1>2. Children(child[m]) \subseteq Node
    BY <1>1, GroupFacts DEF TypeInv
  <1>3. \A n \in Children(child[m]) : n \in Nat /\ m < n /\ n # 0
    BY <1>1, NumBranchType DEF Children
  <1> QED
    BY <1>1, <1>2, <1>3

LEMMA LinkedNodes == ASSUME TypeInv PROVE Linked \subseteq Node
  <1>1. 0 \in Node
    BY DEF TypeInv, TypeOK, Node
  <1> QED
    BY <1>1, GroupsInside DEF Linked

\* Groups that are apart have no node in common.
LEMMA ApartDisjoint ==
    ASSUME NEW a \in Nat, NEW b \in Nat, Apart(a, b)
    PROVE  Children(a) \cap Children(b) = {}
  BY NumBranchType DEF Apart, Children

\* A node gets children with the store of is_offset_valid, and keeps them.
LEMMA ParentsStep ==
    ASSUME TypeInv, FreshInv, Next
    PROVE  /\ \A m \in Parents : child'[m] = child[m]
           /\ ~StoreValid => Parents' = Parents
           /\ StoreValid =>
                 /\ Parents' = Parents \cup {cur} /\ cur \notin Parents
                 /\ child'[cur] = mine
  <1>1. ASSUME NEW m \in Parents PROVE child'[m] = child[m]
    <2>1. m \in Node /\ valid[m]
      BY DEF Parents
    <2>2. CASE Alloc
      BY <2>1, <2>2, AllocStep
    <2>3. CASE StoreChild
      <3>1. ~valid[cur] /\ child' = [child EXCEPT ![cur] = mine]
        BY <2>3 DEF StoreChild, Goto, TypeInv, ShapeInv, Linking
      <3> QED
        BY <2>1, <3>1 DEF TypeInv, TypeOK
    <2>4. CASE ~(Alloc \/ StoreChild)
      BY <2>4, QuietStep
      DEF Next, Insert, Delete, Quiet, treeVars, StoreId, StoreFgpt, SetBit,
          ClearBit, CopyEdge, CopyFgpt, Update, InitChildren, StoreValid
    <2> QED
      BY <2>2, <2>3, <2>4
  <1>2. \A m \in Parents : m \in Parents'
    BY ParentsStay DEF Parents
  <1>3. \A m \in Parents' : m \in Parents \/ (StoreValid /\ m = cur)
    BY NewParent DEF Parents
  <1>4. ASSUME StoreValid
        PROVE  cur \in Parents' /\ cur \notin Parents /\ child'[cur] = mine
    <2>1. /\ pc = "storeValid" /\ valid' = [valid EXCEPT ![cur] = TRUE]
          /\ child' = child /\ Node' = Node
      BY <1>4 DEF StoreValid, Goto, Node
    <2>2. /\ cur \in Node /\ valid \in [Node -> BOOLEAN] /\ ~valid[cur]
          /\ child[cur] = mine
      BY <2>1 DEF TypeInv, TypeOK, ShapeInv, Linking
    <2> QED
      BY <2>1, <2>2 DEF Parents
  <1> QED
    BY <1>1, <1>2, <1>3, <1>4

\* The block that is linked: a parent in the tree, new nodes.
LEMMA NewGroup ==
    ASSUME TreeInv, pc \in Linking
    PROVE  /\ cur \in Linked /\ mine \in Nat /\ cur \in Nat /\ cur < mine
           /\ Children(mine) \cap Linked = {}
           /\ Children(mine) \subseteq Node
  <1>1. cur \in Linked
    <2>1. cur \in OnPath(key) /\ key \in Nat
      BY DEF TreeInv, TypeInv, TypeOK, StoreInv, LocalInv
    <2> QED
      BY <2>1, PathLinked DEF TreeInv
  <1>2. /\ mine \in Nat /\ cur \in Nat /\ cur < mine
        /\ mine + NUM_BRANCH <= next
    BY DEF TreeInv, TypeInv, TypeOK, ShapeInv, Node
  <1>3. Children(mine) \subseteq Node /\ 0 \notin Children(mine)
    BY <1>2, GroupFacts DEF TreeInv, TypeInv
  <1>4. \A n \in Parents : Children(mine) \cap Children(child[n]) = {}
    <2> SUFFICES ASSUME NEW n \in Parents
                 PROVE  Children(mine) \cap Children(child[n]) = {}
      OBVIOUS
    <2>1. child[n] \in Nat /\ Apart(child[n], mine)
      BY GroupsInside DEF TreeInv, LinkInv
    <2> QED
      BY <1>2, <2>1, ApartDisjoint
  <1> QED
    BY <1>1, <1>2, <1>3, <1>4 DEF Linked

\* The tree grows by the block that is linked.
LEMMA LinkedStep ==
    ASSUME TreeInv, Next
    PROVE  /\ StoreValid => Linked' = Linked \cup Children(mine)
           /\ ~StoreValid => Linked' = Linked
  <1>1. /\ \A m \in Parents : child'[m] = child[m]
        /\ ~StoreValid => Parents' = Parents
        /\ StoreValid => Parents' = Parents \cup {cur} /\ child'[cur] = mine
    BY ParentsStep DEF TreeInv, StoreInv
  <1>2. Linked' = {0} \cup UNION {Children(child'[m]) : m \in Parents'}
    BY DEF Linked, Children, NUM_BRANCH
  <1> QED
    BY <1>1, <1>2 DEF Linked

LEMMA LinkStep ==
    ASSUME TreeInv, Next
    PROVE  LinkInv'
  <1> USE DEF TreeInv
  <1>1. /\ \A m \in Parents : child'[m] = child[m]
        /\ ~StoreValid => Parents' = Parents
        /\ StoreValid => Parents' = Parents \cup {cur} /\ child'[cur] = mine
    BY ParentsStep DEF StoreInv
  <1>2. Parents' \subseteq Linked'
    <2>1. StoreValid => cur \in Linked
      BY NewGroup DEF StoreValid, Goto, Linking
    <2>2. Linked \subseteq Linked'
      BY LinkedStep
    <2> QED
      BY <1>1, <2>1, <2>2 DEF LinkInv
  <1>3. \A n, m \in Parents' : n # m => Apart(child[n], child[m])'
    <2>1. \A n, m \in Parents' : n # m => Apart(child'[n], child'[m])
      <3>1. \A n, m \in Parents : n # m => Apart(child[n], child[m])
        BY DEF LinkInv
      <3>2. StoreValid => \A n \in Parents :
                             Apart(child[n], mine) /\ Apart(mine, child[n])
        BY DEF StoreValid, Goto, Linking, LinkInv, Apart
      <3> QED
        BY <1>1, <3>1, <3>2
    <2> QED
      BY <2>1 DEF Apart, NUM_BRANCH
  <1>4. pc' \in Linking => \A n \in Parents' : Apart(child[n], mine)'
    <2>1. CASE Alloc
      <3>1. mine' = next /\ Parents' = Parents
        BY <1>1, <2>1, AllocStep DEF Alloc, StoreValid, Goto
      <3>2. \A n \in Parents : Apart(child'[n], next)
        BY <1>1, GroupsInside DEF Apart
      <3> QED
        BY <3>1, <3>2 DEF Apart, NUM_BRANCH
    <2>2. CASE InitChildren \/ StoreChild
      <3>1. mine' = mine /\ pc \in Linking /\ Parents' = Parents
        BY <1>1, <2>2
        DEF InitChildren, StoreChild, StoreValid, Goto, Linking, callVars,
            locals
      <3>2. \A n \in Parents : Apart(child'[n], mine)
        BY <1>1, <3>1 DEF LinkInv
      <3> QED
        BY <3>1, <3>2 DEF Apart, NUM_BRANCH
    <2>3. CASE ~(Alloc \/ InitChildren \/ StoreChild)
      <3>1. pc' \notin Linking
        BY <2>3
        DEF Next, Insert, Delete, Goto, Linking, Start, FindEdge, ChooseSlot,
            Descend, AllocFails, StoreValid, AddNumNodes, StoreId, StoreFgpt,
            SetBit, AddDegree, Search, ClearBit, SubDegree, CopyEdge, CopyFgpt,
            Update, Return, Crash
      <3> QED
        BY <3>1 DEF Linking
    <2> QED
      BY <2>1, <2>2, <2>3
  <1> QED
    BY <1>2, <1>3, <1>4 DEF LinkInv, Linking

LEMMA TreeInvariant == ASSUME MovesFinish PROVE Spec => []TreeInv
  <1>1. Init => LinkInv
    <2> SUFFICES ASSUME Init PROVE LinkInv
      OBVIOUS
    <2>1. Parents = {}
      BY DEF Init, Parents, Node
    <2> QED
      BY <2>1 DEF Init, LinkInv, Linking
  <1>2. TypeInv /\ StoreInv /\ LinkInv /\ [Next]_vars => LinkInv'
    <2>1. CASE UNCHANGED vars
      BY <2>1
      DEF vars, LinkInv, Parents, Linked, Linking, Apart, Children, NUM_BRANCH,
          Node
    <2> QED
      BY <2>1, LinkStep DEF TreeInv
  <1> QED
    BY <1>1, <1>2, StoreInvariant, PTL DEF Spec, TreeInv

-----------------------------------------------------------------------------
(* The queue of get_adj_edges_l.                                           *)

Elements(q) == {q[j] : j \in 1 .. Len(q)}
Distinct(q) == \A i, j \in 1 .. Len(q) : q[i] = q[j] => i = j

LEMMA Appended ==
    ASSUME NEW S, NEW s \in Seq(S), NEW t \in Seq(S)
    PROVE  /\ Elements(s \o t) = Elements(s) \cup Elements(t)
           /\ Distinct(s) /\ Distinct(t) /\ Elements(s) \cap Elements(t) = {}
                 => Distinct(s \o t)
  <1>1. Len(s) \in Nat /\ Len(t) \in Nat
    OBVIOUS
  <1>2. /\ Len(s \o t) = Len(s) + Len(t)
        /\ \A i \in 1 .. Len(s) + Len(t) :
              (s \o t)[i] = IF i <= Len(s) THEN s[i] ELSE t[i - Len(s)]
    BY ConcatProperties
  <1> DEFINE u == s \o t
  <1> HIDE DEF u
  <1>3. /\ \A i \in 1 .. Len(s) : i \in 1 .. Len(u) /\ u[i] = s[i]
        /\ \A i \in 1 .. Len(t) :
              i + Len(s) \in 1 .. Len(u) /\ u[i + Len(s)] = t[i]
    BY <1>1, <1>2 DEF u
  <1>4. \A i \in 1 .. Len(u) :
           \/ i \in 1 .. Len(s) /\ u[i] = s[i]
           \/ i - Len(s) \in 1 .. Len(t) /\ u[i] = t[i - Len(s)]
    BY <1>1, <1>2 DEF u
  <1>5. Elements(u) = Elements(s) \cup Elements(t)
    <2>1. \A x \in Elements(u) : x \in Elements(s) \cup Elements(t)
      BY <1>4 DEF Elements
    <2>2. \A x \in Elements(s) \cup Elements(t) : x \in Elements(u)
      BY <1>3 DEF Elements
    <2> QED
      BY <2>1, <2>2
  <1>6. ASSUME Distinct(s), Distinct(t), Elements(s) \cap Elements(t) = {},
               NEW i \in 1 .. Len(u), NEW j \in 1 .. Len(u), u[i] = u[j]
        PROVE  i = j
    <2>1. CASE i \in 1 .. Len(s) /\ u[i] = s[i]
      <3>1. ~(j - Len(s) \in 1 .. Len(t) /\ u[j] = t[j - Len(s)])
        BY <1>6, <2>1 DEF Elements
      <3>2. j \in 1 .. Len(s) /\ u[j] = s[j]
        BY <1>4, <3>1
      <3> QED
        BY <1>6, <2>1, <3>2 DEF Distinct
    <2>2. CASE i - Len(s) \in 1 .. Len(t) /\ u[i] = t[i - Len(s)]
      <3>1. ~(j \in 1 .. Len(s) /\ u[j] = s[j])
        BY <1>6, <2>2 DEF Elements
      <3>2. j - Len(s) \in 1 .. Len(t) /\ u[j] = t[j - Len(s)]
        BY <1>4, <3>1
      <3>3. i - Len(s) = j - Len(s)
        BY <1>6, <2>2, <3>2 DEF Distinct
      <3> QED
        BY <1>1, <1>2, <3>3
    <2> QED
      BY <1>4, <2>1, <2>2
  <1> QED
    BY <1>5, <1>6 DEF u, Distinct

\* The children of a node in the order of their addresses.
LEMMA ChildSeqFacts ==
    ASSUME TypeInv, NEW m \in Parents
    PROVE  /\ ChildSeq(m) \in Seq(Node)
           /\ Elements(ChildSeq(m)) = Children(child[m])
           /\ Distinct(ChildSeq(m))
  <1>1. child[m] \in Nat /\ NUM_BRANCH \in Nat /\ Children(child[m]) \subseteq Node
    BY GroupsInside, NumBranchType
  <1> DEFINE s == ChildSeq(m)
  <1>2. /\ \A j \in 1 .. NUM_BRANCH : child[m] + j - 1 \in Children(child[m])
        /\ \A n \in Children(child[m]) :
              /\ n - child[m] + 1 \in 1 .. NUM_BRANCH
              /\ n = child[m] + (n - child[m] + 1) - 1
    BY <1>1 DEF Children
  <1>3. s \in [1 .. NUM_BRANCH -> Node]
    BY <1>1, <1>2 DEF ChildSeq
  <1>4. s \in Seq(Node) /\ Len(s) = NUM_BRANCH
    BY <1>1, <1>3
  <1>5. \A j \in 1 .. NUM_BRANCH : s[j] = child[m] + j - 1
    BY DEF ChildSeq
  <1> HIDE DEF s
  <1>6. Elements(s) = Children(child[m])
    BY <1>2, <1>4, <1>5 DEF Elements
  <1>7. Distinct(s)
    BY <1>1, <1>4, <1>5 DEF Distinct
  <1> QED
    BY <1>4, <1>6, <1>7 DEF s

\* The queue as the loop fills it, round by round.
IsRun(g) ==
    /\ g[0] = IF valid[0] THEN ChildSeq(0) ELSE <<>>
    /\ \A f \in 1 .. next :
          g[f] = IF f <= Len(g[f - 1]) /\ valid[g[f - 1][f]]
                 THEN g[f - 1] \o ChildSeq(g[f - 1][f]) ELSE g[f - 1]

\* Queue is what the loop ends with.
LEMMA QueueRuns ==
    ASSUME TypeInv
    PROVE  \E g \in [0 .. next -> Seq(Node)] : IsRun(g) /\ Queue = g[next]
  <1> DEFINE first == IF valid[0] THEN ChildSeq(0) ELSE <<>>
             more(f, q) == IF f <= Len(q) /\ valid[q[f]]
                           THEN q \o ChildSeq(q[f]) ELSE q
             step == [f \in 1 .. next |-> [q \in Seq(Node) |-> more(f, q)]]
             Eqn(g) == g = [f \in 0 .. next |->
                              IF f = 0 THEN first
                              ELSE LET q == g[f - 1] IN more(f, q)]
             after == CHOOSE g : Eqn(g)
  <1>1. next \in Nat /\ 0 \in Node
    BY DEF TypeInv, TypeOK, Node
  <1>2. first \in Seq(Node)
    BY <1>1, ChildSeqFacts DEF Parents
  <1>3. ASSUME NEW f \in 1 .. next, NEW q \in Seq(Node)
        PROVE  more(f, q) \in Seq(Node)
    <2>1. CASE f <= Len(q) /\ valid[q[f]]
      <3>1. q[f] \in Parents
        BY <1>1, <2>1 DEF Parents
      <3>2. ChildSeq(q[f]) \in Seq(Node)
        BY <3>1, ChildSeqFacts
      <3> QED
        BY <2>1, <3>2
    <2>2. CASE ~(f <= Len(q) /\ valid[q[f]])
      BY <2>2
    <2> QED
      BY <2>1, <2>2
  <1> HIDE DEF first, more
  <1>4. step \in [1 .. next -> [Seq(Node) -> Seq(Node)]]
    BY <1>3
  <1>5. PICK h \in [0 .. next -> Seq(Node)] :
           h[0] = first /\ \A f \in 1 .. next : h[f] = step[f][h[f - 1]]
    <2> DEFINE S == Seq(Node)
    <2>1. next \in Nat /\ first \in S /\ Steps(step, next, S)
      BY <1>1, <1>2, <1>4 DEF Steps
    <2> HIDE DEF step, S
    <2>2. PICK h : Follows(h, step, first, next, S)
      BY <2>1, Recursion
    <2> QED
      BY <2>2 DEF Follows, S
  <1>6. \A f \in 1 .. next : f - 1 \in 0 .. next
    BY <1>1
  <1>7. Eqn(h)
    <2>1. \A f \in 0 .. next :
             h[f] = IF f = 0 THEN first ELSE more(f, h[f - 1])
      <3> SUFFICES ASSUME NEW f \in 0 .. next, f # 0
                   PROVE  h[f] = more(f, h[f - 1])
        BY <1>5
      <3>1. f \in 1 .. next /\ f - 1 \in 0 .. next
        BY <1>1
      <3>2. h[f - 1] \in Seq(Node)
        BY <3>1
      <3> QED
        BY <1>5, <3>1, <3>2
    <2> HIDE DEF step
    <2> QED
      BY <1>5, <2>1
  <1>8. Eqn(after)
    <2> HIDE DEF Eqn
    <2> QED
      BY <1>7
  <1>9. Queue = after[next]
    BY DEF Queue, first, more
  <1> HIDE DEF after, step
  <1>10. /\ after[0] = first
         /\ \A f \in 1 .. next : after[f] = more(f, after[f - 1])
    <2>1. \A f \in 0 .. next :
             after[f] = IF f = 0 THEN first ELSE more(f, after[f - 1])
      BY <1>8
    <2>2. 0 \in 0 .. next /\ \A f \in 1 .. next : f \in 0 .. next /\ f # 0
      BY <1>1
    <2> QED
      BY <2>1, <2>2
  <1>11. after \in [0 .. next -> Seq(Node)]
    <2> DEFINE T == {f \in 0 .. next : after[f] \in Seq(Node)}
    <2>1. 0 \in T
      BY <1>1, <1>2, <1>10
    <2>2. \A f \in 1 .. next : f - 1 \in T => f \in T
      BY <1>1, <1>3, <1>10
    <2>3. 0 .. next \subseteq T
      <3> HIDE DEF T
      <3> QED
        BY <1>1, <2>1, <2>2, Induction
    <2>4. \A f \in 0 .. next : after[f] \in Seq(Node)
      BY <2>3
    <2> QED
      BY <1>8, <2>4
  <1>12. IsRun(after)
    BY <1>10 DEF IsRun, first, more
  <1> QED
    BY <1>9, <1>11, <1>12

\* The parents whose children are in the queue q after f rounds.
Processed(q, f) ==
    {m \in Parents : m = 0 \/ \E j \in 1 .. f : j <= Len(q) /\ q[j] = m}

Grown(q, f) ==
    /\ Distinct(q)
    /\ Elements(q) = UNION {Children(child[m]) : m \in Processed(q, f)}

\* A round appends the children of one node, which are not there yet.
LEMMA Round ==
    ASSUME TreeInv, NEW q \in Seq(Node), NEW f \in Nat \ {0}, Grown(q, f - 1),
           NEW r, r = IF f <= Len(q) /\ valid[q[f]]
                      THEN q \o ChildSeq(q[f]) ELSE q
    PROVE  Grown(r, f)
  <1>0. Len(q) \in Nat /\ \A j \in 1 .. f : j = f \/ j \in 1 .. f - 1
    OBVIOUS
  <1>1. CASE f <= Len(q) /\ valid[q[f]]
    <2> DEFINE m == q[f]
    <2>1. f \in 1 .. Len(q) /\ m \in Parents /\ m \in Elements(q)
      BY <1>0, <1>1 DEF Parents, Elements
    <2>2. m # 0
      BY <2>1, GroupsInside DEF Grown, TreeInv, Processed
    <2>3. m \notin Processed(q, f - 1)
      <3>1. \A j \in 1 .. f - 1 : j \in 1 .. Len(q) /\ j # f
        BY <1>0, <2>1
      <3>2. \A j \in 1 .. f - 1 : q[j] # q[f]
        BY <2>1, <3>1 DEF Grown, Distinct
      <3> QED
        BY <2>2, <3>2 DEF Processed
    <2> HIDE DEF m
    <2>4. ChildSeq(m) \in Seq(Node) /\ Distinct(ChildSeq(m))
          /\ Elements(ChildSeq(m)) = Children(child[m])
      BY <2>1, ChildSeqFacts DEF TreeInv
    <2>5. Elements(q) \cap Children(child[m]) = {}
      <3> SUFFICES ASSUME NEW p \in Processed(q, f - 1)
                   PROVE  Children(child[p]) \cap Children(child[m]) = {}
        BY DEF Grown
      <3>1. p \in Parents /\ p # m
        BY <2>3 DEF Processed
      <3>2. /\ child[p] \in Nat /\ child[m] \in Nat
            /\ Apart(child[p], child[m])
        BY <2>1, <3>1, GroupsInside DEF TreeInv, LinkInv
      <3> QED
        BY <3>2, ApartDisjoint
    <2>6. r = q \o ChildSeq(m)
      BY <1>1 DEF m
    <2>7. Distinct(r) /\ Elements(r) = Elements(q) \cup Children(child[m])
      <3> DEFINE c == ChildSeq(m)
      <3>1. /\ q \in Seq(Node) /\ c \in Seq(Node)
            /\ Distinct(q) /\ Distinct(c)
            /\ Elements(q) \cap Elements(c) = {}
        BY <2>4, <2>5 DEF Grown
      <3> HIDE DEF c
      <3>2. /\ Distinct(q \o c)
            /\ Elements(q \o c) = Elements(q) \cup Elements(c)
        BY <3>1, Appended, ZenonT(60)
      <3> QED
        BY <2>4, <2>6, <3>2 DEF c
    <2>8. Processed(r, f) = Processed(q, f - 1) \cup {m}
      <3>1. \A j \in 1 .. f : j <= Len(q) /\ j <= Len(r) /\ r[j] = q[j]
        <4>1. /\ Len(r) = Len(q) + Len(ChildSeq(m))
              /\ \A j \in 1 .. Len(q) + Len(ChildSeq(m)) :
                    j <= Len(q) => r[j] = q[j]
          BY <2>4, <2>6, ConcatProperties
        <4>2. Len(ChildSeq(m)) \in Nat
          BY <2>4
        <4> QED
          BY <1>0, <2>1, <4>1, <4>2
      <3>2. f \in 1 .. f /\ 1 .. f - 1 \subseteq 1 .. f
        OBVIOUS
      <3>3. Processed(r, f) =
               {p \in Parents : p = 0 \/ \E j \in 1 .. f : q[j] = p}
        BY <3>1 DEF Processed
      <3>4. Processed(q, f - 1) =
               {p \in Parents : p = 0 \/ \E j \in 1 .. f - 1 : q[j] = p}
        BY <3>1, <3>2 DEF Processed
      <3> QED
        BY <1>0, <2>1, <3>2, <3>3, <3>4 DEF m
    <2> QED
      BY <2>7, <2>8 DEF Grown
  <1>2. CASE ~(f <= Len(q) /\ valid[q[f]])
    <2>1. r = q
      BY <1>2
    <2>2. Processed(q, f) = Processed(q, f - 1)
      <3>1. ASSUME NEW p \in Parents, f <= Len(q), q[f] = p PROVE FALSE
        BY <1>2, <3>1 DEF Parents
      <3>2. 1 .. f - 1 \subseteq 1 .. f
        OBVIOUS
      <3> QED
        BY <1>0, <3>1, <3>2 DEF Processed
    <2> QED
      BY <2>1, <2>2 DEF Grown
  <1> QED
    BY <1>1, <1>2

\* Before the loop the queue has the root's children.
LEMMA FirstRound ==
    ASSUME TreeInv, NEW q,
           q = IF valid[0] THEN ChildSeq(0) ELSE <<>>
    PROVE  Grown(q, 0)
  <1>1. 0 \in Node /\ Processed(q, 0) = {m \in Parents : m = 0}
    BY DEF Processed, TreeInv, TypeInv, TypeOK, Node
  <1>2. CASE valid[0]
    <2>1. 0 \in Parents /\ Processed(q, 0) = {0}
      BY <1>1, <1>2 DEF Parents
    <2> QED
      BY <1>2, <2>1, ChildSeqFacts DEF Grown, TreeInv
  <1>3. CASE ~valid[0]
    <2>1. Processed(q, 0) = {} /\ q = <<>>
      BY <1>1, <1>3 DEF Parents
    <2>2. Elements(<<>>) = {} /\ Distinct(<<>>)
      BY DEF Elements, Distinct
    <2> QED
      BY <2>1, <2>2 DEF Grown
  <1> QED
    BY <1>2, <1>3

\* A queue of different nodes, none of them the root, is short enough for the
\* loop to come to its end.
LEMMA QueueLength ==
    ASSUME TypeInv, NEW q \in Seq(Node \ {0}), Distinct(q)
    PROVE  Len(q) < next
  <1>1. next \in Nat \ {0} /\ Node = 0 .. next - 1
    BY DEF TypeInv, TypeOK, Node
  <1>2. Node \ {0} = 1 .. next - 1 /\ Len(q) \in Nat
    BY <1>1
  <1>3. IsFiniteSet(1 .. next - 1) /\ Cardinality(1 .. next - 1) = next - 1
    BY <1>1, FS_Interval
  <1>4. q \in Injection(1 .. Len(q), 1 .. next - 1)
    <2>1. q \in [1 .. Len(q) -> 1 .. next - 1]
      BY <1>2, LenProperties
    <2>2. \A i, j \in 1 .. Len(q) : q[i] = q[j] => i = j
      BY DEF Distinct
    <2> QED
      BY <2>1, <2>2, Fun_IsInj
  <1>5. Cardinality(1 .. Len(q)) <= next - 1
    BY <1>3, <1>4, FS_Injection
  <1>6. Cardinality(1 .. Len(q)) = Len(q)
    <2>1. 1 \in Int /\ Len(q) \in Int /\ Len(q) >= 0
      BY <1>2
    <2>2. Cardinality(1 .. Len(q)) =
             IF 1 > Len(q) THEN 0 ELSE Len(q) - 1 + 1
      BY <2>1, FS_Interval, Zenon
    <2> QED
      BY <2>1, <2>2
  <1> QED
    BY <1>1, <1>2, <1>5, <1>6

\* The queue has every node below the root, and each of them once.
LEMMA QueueIsTree ==
    ASSUME TreeInv
    PROVE  /\ Queue \in Seq(Node) /\ Distinct(Queue)
           /\ 0 \notin Elements(Queue)
           /\ {0} \cup Elements(Queue) = Linked
  <1>1. next \in Nat \ {0} /\ TypeInv
    BY DEF TreeInv, TypeInv, TypeOK
  <1>2. PICK g \in [0 .. next -> Seq(Node)] : IsRun(g) /\ Queue = g[next]
    BY <1>1, QueueRuns
  <1>3. Grown(Queue, next)
    <2> DEFINE T == {f \in 0 .. next : Grown(g[f], f)}
    <2>1. 0 \in T
      BY <1>1, <1>2, FirstRound DEF IsRun
    <2>2. ASSUME NEW f \in 1 .. next, f - 1 \in T PROVE f \in T
      <3>1. g[f - 1] \in Seq(Node) /\ f \in Nat \ {0} /\ f \in 0 .. next
        BY <1>1, <1>2, <2>2
      <3>2. g[f] = IF f <= Len(g[f - 1]) /\ valid[g[f - 1][f]]
                   THEN g[f - 1] \o ChildSeq(g[f - 1][f]) ELSE g[f - 1]
        BY <1>2 DEF IsRun
      <3>3. Grown(g[f], f)
        BY <2>2, <3>1, <3>2, Round
      <3> QED
        BY <3>1, <3>3
    <2>3. 0 .. next \subseteq T
      <3> HIDE DEF T
      <3> QED
        BY <1>1, <2>1, <2>2, Induction
    <2>4. next \in T
      BY <1>1, <2>3
    <2> QED
      BY <1>2, <2>4
  <1>4. Queue \in Seq(Node)
    BY <1>1, <1>2
  <1> DEFINE q == Queue
  <1> HIDE DEF q
  <1>5. 0 \notin Elements(q)
    BY <1>1, <1>3, GroupsInside DEF Grown, Processed, q
  <1>6. q \in Seq(Node \ {0})
    <2>1. Len(q) \in Nat /\ q \in [1 .. Len(q) -> Node]
      BY <1>4 DEF q
    <2>2. q \in [1 .. Len(q) -> Node \ {0}]
      BY <1>5, <2>1 DEF Elements
    <2> QED
      BY <2>1, <2>2
  <1>7. Len(q) < next /\ Len(q) \in Nat
    BY <1>1, <1>3, <1>6, QueueLength DEF Grown, q
  <1>8. Processed(q, next) = {m \in Parents : m = 0 \/ m \in Elements(q)}
    <2>1. \A j \in 1 .. next : j <= Len(q) <=> j \in 1 .. Len(q)
      BY <1>1, <1>7
    <2>2. 1 .. Len(q) \subseteq 1 .. next
      BY <1>1, <1>7
    <2> QED
      BY <2>1, <2>2 DEF Processed, Elements
  <1> DEFINE R == {0} \cup Elements(q)
  <1>9. Elements(q) = UNION {Children(child[m]) : m \in Parents \cap R}
    <2>1. Processed(q, next) = Parents \cap R
      BY <1>8
    <2> QED
      BY <1>3, <2>1 DEF Grown, q
  <1>10. R \subseteq Linked
    BY <1>9 DEF Linked
  <1>11. ASSUME Linked \ R # {} PROVE FALSE
    <2>1. Linked \subseteq Nat
      BY <1>1, LinkedNodes DEF Node
    <2>2. PICK n \in Linked \ R : \A z \in Linked \ R : n <= z
      BY <1>11, <2>1, LeastNumber
    <2>3. PICK m \in Parents : n \in Children(child[m])
      BY <2>2 DEF Linked
    <2>4. m \in Nat /\ m < n /\ n \in Nat
      BY <1>1, <2>3, GroupsInside
    <2>5. m \in Linked
      BY DEF TreeInv, LinkInv
    <2>6. m \in R
      BY <2>2, <2>4, <2>5
    <2> QED
      BY <1>9, <2>2, <2>3, <2>6
  <1> QED
    BY <1>3, <1>4, <1>5, <1>10, <1>11 DEF Grown, q

LEMMA ReachableIsLinked == TreeInv => Reachable = Linked
  BY QueueIsTree DEF Reachable, Elements

-----------------------------------------------------------------------------
(* The edges of the nodes.                                                 *)

\* A sequence without repetitions is as long as it has elements.
LEMMA SeqCount ==
    ASSUME NEW S, NEW q \in Seq(S), Distinct(q)
    PROVE  IsFiniteSet(Elements(q)) /\ Cardinality(Elements(q)) = Len(q)
  <1>1. Len(q) \in Nat /\ q \in [1 .. Len(q) -> S]
    OBVIOUS
  <1>2. q \in [1 .. Len(q) -> Elements(q)]
    BY <1>1 DEF Elements
  <1>3. \A i, j \in 1 .. Len(q) : q[i] = q[j] => i = j
    BY DEF Distinct
  <1>4. \A x \in Elements(q) : \E i \in 1 .. Len(q) : q[i] = x
    BY DEF Elements
  <1>5. q \in Bijection(1 .. Len(q), Elements(q))
    BY <1>2, <1>3, <1>4, Fun_IsBij
  <1>6. ExistsBijection(1 .. Len(q), Elements(q))
    BY <1>5 DEF ExistsBijection
  <1>7. IsFiniteSet(1 .. Len(q))
    BY <1>1, FS_Interval
  <1> QED
    BY <1>1, <1>6, <1>7, FS_Bijection, FS_CountingElements

\* The edges whose entries are in node n.
NodeKeys(n) == {id[n][i] : i \in bitmap[n]}

\* The edges a search finds are those of the nodes in the tree.
LEMMA StoredKeys ==
    ASSUME TreeInv
    PROVE  Stored = UNION {NodeKeys(n) : n \in Linked}
  <1>1. TypeInv /\ TypeOK /\ EntryInv /\ Key \subseteq Nat
    BY ConstantsAssumption DEF TreeInv, StoreInv, TypeInv
  <1>2. Linked \subseteq Node
    BY <1>1, LinkedNodes
  <1>3. Stored = {x \in Key : Held(x)}
    BY <1>1, StoredHeld DEF StoredIsHeld
  <1>4. ASSUME NEW n \in Node, NEW i \in bitmap[n]
        PROVE  id[n][i] \in Key /\ n \in Linked
    <2>1. id[n][i] \in Key /\ n \in OnPath(id[n][i])
      BY <1>1 DEF EntryInv
    <2> QED
      BY <1>1, <2>1, PathLinked
  <1>5. \A x \in Key : Held(x) <=> \E n \in Linked : x \in NodeKeys(n)
    BY <1>2, <1>4 DEF Held, Holds, NodeKeys
  <1>6. \A n \in Linked : NodeKeys(n) \subseteq Key
    BY <1>2, <1>4 DEF NodeKeys
  <1> QED
    BY <1>3, <1>5, <1>6

\* No edge is in two nodes.
LEMMA KeysDisjoint ==
    ASSUME EntryInv, NEW n \in Node, NEW m \in Node, n # m
    PROVE  NodeKeys(n) \cap NodeKeys(m) = {}
  BY DEF EntryInv, NodeKeys

\* A node has as many edges as it has bits.
LEMMA KeysCount ==
    ASSUME TypeOK, EntryInv, NEW n \in Node
    PROVE  /\ IsFiniteSet(bitmap[n]) /\ IsFiniteSet(NodeKeys(n))
           /\ Cardinality(NodeKeys(n)) = Cardinality(bitmap[n])
  <1> DEFINE f == [i \in bitmap[n] |-> id[n][i]]
  <1>1. IsFiniteSet(bitmap[n])
    <2>1. bitmap[n] \in SUBSET Slots /\ 0 \in Int /\ MAX_ENTRY_NUM - 1 \in Int
      BY ConstantsAssumption DEF TypeOK
    <2>2. IsFiniteSet(Slots)
      BY <2>1, FS_Interval DEF Slots
    <2> QED
      BY <2>1, <2>2, FS_Subset
  <1>2. f \in [bitmap[n] -> NodeKeys(n)]
    BY DEF NodeKeys
  <1>3. \A i, j \in bitmap[n] : f[i] = f[j] => i = j
    BY DEF EntryInv
  <1>4. \A x \in NodeKeys(n) : \E i \in bitmap[n] : f[i] = x
    BY DEF NodeKeys
  <1>5. f \in Bijection(bitmap[n], NodeKeys(n))
    <2> HIDE DEF f
    <2> QED
      BY <1>2, <1>3, <1>4, Fun_IsBij
  <1>6. ExistsBijection(bitmap[n], NodeKeys(n))
    BY <1>5 DEF ExistsBijection
  <1> QED
    BY <1>1, <1>6, FS_Bijection

-----------------------------------------------------------------------------
(* get_out_degree_l                                                        *)

\* The edges of the nodes in the tree before node n.
KeysBefore(n) == UNION {NodeKeys(m) : m \in {l \in Linked : l < n}}

\* The next node adds as many edges as it has bits.
LEMMA KeysBeforeStep ==
    ASSUME TreeInv, NEW n \in 1 .. next, IsFiniteSet(KeysBefore(n - 1))
    PROVE  /\ IsFiniteSet(KeysBefore(n))
           /\ Cardinality(KeysBefore(n)) =
                 Cardinality(KeysBefore(n - 1))
                 + IF n - 1 \in Linked THEN Cardinality(bitmap[n - 1]) ELSE 0
  <1>1. TypeInv /\ TypeOK /\ EntryInv /\ next \in Nat
    BY DEF TreeInv, StoreInv, TypeInv, TypeOK
  <1>2. Linked \subseteq Node /\ Node \subseteq Nat
    BY <1>1, LinkedNodes DEF Node
  <1>3. Cardinality(KeysBefore(n - 1)) \in Nat
    BY FS_CardinalityType
  <1>4. {l \in Linked : l < n} =
           IF n - 1 \in Linked THEN {l \in Linked : l < n - 1} \cup {n - 1}
           ELSE {l \in Linked : l < n - 1}
    <2>1. n \in Nat /\ \A l \in Nat : l < n <=> l < n - 1 \/ l = n - 1
      BY <1>1
    <2>2. \A l \in Linked : l < n <=> l < n - 1 \/ l = n - 1
      BY <1>2, <2>1
    <2> QED
      BY <2>2
  <1>5. CASE n - 1 \in Linked
    <2>1. n - 1 \in Node
      BY <1>2, <1>5
    <2>2. KeysBefore(n) = KeysBefore(n - 1) \cup NodeKeys(n - 1)
      BY <1>4, <1>5 DEF KeysBefore
    <2>3. \A l \in Linked : l < n - 1 => l \in Node /\ l # n - 1
      BY <1>2
    <2>4. KeysBefore(n - 1) \cap NodeKeys(n - 1) = {}
      BY <1>1, <2>1, <2>3, KeysDisjoint DEF KeysBefore
    <2>5. /\ IsFiniteSet(NodeKeys(n - 1))
          /\ Cardinality(NodeKeys(n - 1)) = Cardinality(bitmap[n - 1])
          /\ Cardinality(NodeKeys(n - 1)) \in Nat
      BY <1>1, <2>1, KeysCount, FS_CardinalityType
    <2> DEFINE A == KeysBefore(n - 1)
               B == NodeKeys(n - 1)
    <2>6. IsFiniteSet(A) /\ IsFiniteSet(B) /\ A \cap B = {}
      BY <2>4, <2>5
    <2> HIDE DEF A, B
    <2>7. /\ IsFiniteSet(A \cup B)
          /\ Cardinality(A \cup B) = Cardinality(A) + Cardinality(B) - Cardinality({})
      BY <2>6, FS_Union
    <2>8. Cardinality({}) = 0
      BY FS_EmptySet
    <2> QED
      BY <1>3, <1>5, <2>2, <2>5, <2>7, <2>8 DEF A, B
  <1>6. CASE n - 1 \notin Linked
    <2>1. KeysBefore(n) = KeysBefore(n - 1)
      BY <1>4, <1>6 DEF KeysBefore
    <2> QED
      BY <1>3, <1>6, <2>1
  <1> QED
    BY <1>5, <1>6

\* The sum of get_out_degree_l is the number of those edges.
LEMMA OutDegreeCounts ==
    ASSUME TreeInv
    PROVE  IsFiniteSet(Stored) /\ OutDegree = Cardinality(Stored)
  <1> DEFINE more(n, s) == s + IF n - 1 \in Reachable
                               THEN Cardinality(bitmap[n - 1]) ELSE 0
             step == [n \in 1 .. next |-> [s \in Nat |-> more(n, s)]]
             Eqn(g) == g = [n \in 0 .. next |->
                              IF n = 0 THEN 0
                              ELSE g[n - 1] + IF n - 1 \in Reachable
                                              THEN Cardinality(bitmap[n - 1])
                                              ELSE 0]
             upTo == CHOOSE g : Eqn(g)
             count(n) == Cardinality(KeysBefore(n))
  <1>1. TypeInv /\ TypeOK /\ EntryInv /\ next \in Nat /\ Reachable = Linked
    BY ReachableIsLinked DEF TreeInv, StoreInv, TypeInv, TypeOK
  <1>2. Linked \subseteq 0 .. next - 1
    BY <1>1, LinkedNodes DEF Node
  <1>3. \A n \in 0 .. next - 1 : Cardinality(bitmap[n]) \in Nat
    BY <1>1, KeysCount, FS_CardinalityType DEF Node
  <1>4. \A n \in 1 .. next, s \in Nat : more(n, s) \in Nat
    BY <1>1, <1>2, <1>3
  <1>5. PICK h : Follows(h, step, 0, next, Nat)
    <2>1. Steps(step, next, Nat)
      <3> HIDE DEF more
      <3> QED
        BY <1>4 DEF Steps
    <2> HIDE DEF step
    <2> QED
      BY <1>1, <2>1, Recursion
  <1> HIDE DEF more
  <1>6. /\ h \in [0 .. next -> Nat] /\ h[0] = 0
        /\ \A n \in 1 .. next : h[n] = more(n, h[n - 1])
    <2>1. \A n \in 1 .. next : n - 1 \in 0 .. next
      BY <1>1
    <2> QED
      BY <1>5, <2>1 DEF Follows
  <1> HIDE DEF step
  <1>7. Eqn(h)
    BY <1>1, <1>6 DEF more
  <1>8. Eqn(upTo)
    <2> HIDE DEF Eqn
    <2> QED
      BY <1>7
  <1>9. OutDegree = upTo[next]
    BY DEF OutDegree
  <1> HIDE DEF upTo
  <1>10. upTo[0] = 0
    BY <1>1, <1>8
  <1>11. \A n \in 1 .. next : upTo[n] = more(n, upTo[n - 1])
    BY <1>1, <1>8 DEF more
  <1> HIDE DEF Eqn
  <1> DEFINE T == {n \in 0 .. next :
                     /\ IsFiniteSet(KeysBefore(n))
                     /\ upTo[n] = count(n)}
  <1>12. 0 \in T
    <2>1. \A l \in Linked : ~(l < 0)
      BY <1>1, <1>2
    <2>2. KeysBefore(0) = {}
      BY <2>1 DEF KeysBefore
    <2> QED
      BY <1>1, <1>10, <2>2, FS_EmptySet
  <1>13. ASSUME NEW n \in 1 .. next, n - 1 \in T PROVE n \in T
    <2>1. IsFiniteSet(KeysBefore(n - 1)) /\ upTo[n - 1] = count(n - 1)
      BY <1>13
    <2>2. /\ IsFiniteSet(KeysBefore(n))
          /\ count(n) = more(n, count(n - 1))
      BY <1>1, <2>1, KeysBeforeStep DEF more
    <2>3. upTo[n] = more(n, upTo[n - 1])
      BY <1>11
    <2> HIDE DEF count
    <2>4. upTo[n] = count(n) /\ n \in 0 .. next
      BY <1>1, <2>1, <2>2, <2>3
    <2> QED
      BY <2>2, <2>4
  <1> HIDE DEF T
  <1>14. next \in T
    <2>1. 0 .. next \subseteq T
      BY <1>1, <1>12, <1>13, Induction
    <2> QED
      BY <1>1, <2>1
  <1>15. KeysBefore(next) = Stored
    <2>1. \A l \in 0 .. next - 1 : l < next
      BY <1>1
    <2>2. {l \in Linked : l < next} = Linked
      BY <1>2, <2>1
    <2> QED
      BY <2>2, StoredKeys DEF KeysBefore
  <1> QED
    BY <1>9, <1>14, <1>15 DEF T

\* get_out_degree_l counts the edges that a search finds, each of them once,
\* after any calls and any crash that leaves no entry half moved, whatever
\* has become of the counters of the vertex.
THEOREM OutDegreeCorrect ==
    ASSUME MovesFinish PROVE Spec => []OutDegreeExact
  <1>1. TreeInv => OutDegreeExact
    BY OutDegreeCounts DEF OutDegreeExact
  <1> QED
    BY <1>1, TreeInvariant, PTL

-----------------------------------------------------------------------------
(* get_adj_edges_l                                                         *)

\* Where the used slots are a prefix, the entries copied are the edges.
LEMMA FirstEntriesFacts ==
    ASSUME TypeOK, EntryInv, NEW n \in Node, IsPrefix(bitmap[n])
    PROVE  /\ FirstEntries(n) \in Seq(Key)
           /\ Distinct(FirstEntries(n))
           /\ Elements(FirstEntries(n)) = NodeKeys(n)
  <1> DEFINE c == Cardinality(bitmap[n])
             e == FirstEntries(n)
  <1>1. c \in Nat /\ bitmap[n] = 0 .. c - 1
    <2>1. CASE bitmap[n] = {}
      BY <2>1, FS_EmptySet
    <2>2. CASE bitmap[n] # {}
      <3>1. LastSlot(n) \in bitmap[n] /\ bitmap[n] = 0 .. LastSlot(n)
        BY <2>2, LastOfPrefix
      <3>2. LastSlot(n) \in Nat
        BY <3>1, SlotsAreNumbers DEF TypeOK
      <3> DEFINE l == LastSlot(n)
      <3>3. Cardinality(0 .. l) = IF 0 > l THEN 0 ELSE l - 0 + 1
        BY <3>2, FS_Interval
      <3> HIDE DEF l
      <3>4. l \in Nat /\ bitmap[n] = 0 .. l
        BY <3>1, <3>2 DEF l
      <3> QED
        BY <3>3, <3>4
    <2> QED
      BY <2>1, <2>2
  <1>2. e = [i \in 1 .. c |-> id[n][i - 1]]
    BY DEF FirstEntries
  <1> HIDE DEF c, e
  <1>3. \A i \in bitmap[n] : id[n][i] \in Key
    BY DEF EntryInv
  <1>4. \A i \in 1 .. c : i - 1 \in bitmap[n] /\ e[i] = id[n][i - 1]
    BY <1>1, <1>2
  <1>5. e \in Seq(Key) /\ Len(e) = c
    <2>1. e \in [1 .. c -> Key]
      BY <1>2, <1>3, <1>4
    <2> QED
      BY <1>1, <2>1
  <1>6. Distinct(e)
    <2> SUFFICES ASSUME NEW i \in 1 .. c, NEW j \in 1 .. c, e[i] = e[j]
                 PROVE  i = j
      BY <1>5 DEF Distinct
    <2>1. i - 1 = j - 1
      BY <1>4 DEF EntryInv
    <2> QED
      BY <1>1, <2>1
  <1>7. Elements(e) = NodeKeys(n)
    <2>1. ASSUME NEW i \in 1 .. c PROVE e[i] \in NodeKeys(n)
      BY <1>4 DEF NodeKeys
    <2>2. ASSUME NEW i \in bitmap[n]
          PROVE  \E j \in 1 .. c : e[j] = id[n][i]
      <3> DEFINE j == i + 1
      <3>1. j \in 1 .. c /\ j - 1 = i
        BY <1>1
      <3> HIDE DEF j
      <3> QED
        BY <1>4, <3>1
    <2> QED
      BY <1>5, <2>1, <2>2 DEF Elements, NodeKeys
  <1> QED
    BY <1>5, <1>6, <1>7 DEF e

\* The nodes whose entries get_adj_edges_l copies, in their order.
Visited == <<0>> \o IF numNodes <= 1 THEN <<>> ELSE Queue

\* They are nodes of the tree, each of them once.  As long as num_nodes counts
\* the nodes they are all of them, and the queue has room.
LEMMA VisitedFacts ==
    ASSUME TreeInv
    PROVE  /\ Visited \in Seq(Node) /\ Distinct(Visited)
           /\ Elements(Visited) \subseteq Linked
           /\ numNodes = Cardinality(Reachable) =>
                 Elements(Visited) = Linked /\ QueueFits
  <1>1. /\ TypeInv /\ next \in Nat \ {0} /\ 0 \in Node
        /\ Reachable = Linked /\ numNodes \in Nat
    <2>1. TypeInv /\ next \in Nat \ {0} /\ numNodes \in Nat
      BY DEF TreeInv, TypeInv, TypeOK
    <2> QED
      BY <2>1, ReachableIsLinked DEF Node
  <1> DEFINE q == Queue
             r == <<0>>
  <1>2. /\ q \in Seq(Node) /\ Distinct(q) /\ 0 \notin Elements(q)
        /\ {0} \cup Elements(q) = Linked
    BY QueueIsTree
  <1>3. QueueFits <=> (numNodes > 1 => Len(q) <= numNodes - 1)
    BY DEF QueueFits
  <1>4. Visited = r \o IF numNodes <= 1 THEN <<>> ELSE q
    BY DEF Visited
  <1>5. /\ r \in Seq(Node) /\ Distinct(r) /\ Elements(r) = {0}
        /\ r \o <<>> = r
    <2>1. r \in Seq(Node) /\ Len(r) = 1 /\ r[1] = 0 /\ r \o <<>> = r
      BY <1>1
    <2> HIDE DEF r
    <2> QED
      BY <2>1 DEF Distinct, Elements
  <1> HIDE DEF q, r
  <1>6. Len(q) \in Nat
    BY <1>2
  <1>7. /\ r \o q \in Seq(Node) /\ Distinct(r \o q)
        /\ Elements(r \o q) = Linked
    <2>1. r \o q \in Seq(Node)
      BY <1>2, <1>5
    <2>2. Elements(r) \cap Elements(q) = {}
      BY <1>2, <1>5
    <2>3. Elements(r \o q) = Elements(r) \cup Elements(q) /\ Distinct(r \o q)
      BY <1>2, <1>5, <2>2, Appended
    <2> QED
      BY <1>2, <1>5, <2>1, <2>3
  <1>8. \/ Visited = r \o q
        \/ Visited = r /\ numNodes <= 1
    BY <1>4, <1>5
  <1>9. ASSUME numNodes = Cardinality(Reachable)
        PROVE  Elements(Visited) = Linked /\ QueueFits
    <2>1. IsFiniteSet(Elements(q)) /\ Cardinality(Elements(q)) = Len(q)
      BY <1>2, SeqCount
    <2>2. Cardinality(Elements(q) \cup {0}) = Len(q) + 1
      BY <1>2, <2>1, FS_AddElement
    <2>3. Elements(q) \cup {0} = Linked
      BY <1>2
    <2>4. numNodes = Len(q) + 1
      BY <1>1, <1>9, <2>2, <2>3
    <2>5. QueueFits
      BY <1>3, <1>6, <2>4
    <2>6. CASE numNodes <= 1
      <3>1. Len(q) = 0
        BY <1>6, <2>4, <2>6
      <3>2. Elements(q) = {}
        BY <3>1 DEF Elements
      <3> QED
        BY <1>2, <1>5, <1>7, <1>8, <2>5, <3>2
    <2>7. CASE ~(numNodes <= 1)
      BY <1>7, <1>8, <2>5, <2>7
    <2> QED
      BY <2>6, <2>7
  <1> QED
    BY <1>2, <1>5, <1>7, <1>8, <1>9

\* The loop of get_adj_edges_l: one more node's entries with each round.
IsCopy(g) ==
    /\ g[0] = <<>>
    /\ \A j \in 1 .. Len(Visited) :
          g[j] = g[j - 1] \o FirstEntries(Visited[j])

\* AdjEdges is what that loop ends with.
LEMMA CopyRuns ==
    ASSUME Visited \in Seq(Node),
           \A n \in Node : FirstEntries(n) \in Seq(Key)
    PROVE  \E g : /\ g \in [0 .. Len(Visited) -> Seq(Key)] /\ IsCopy(g)
                  /\ AdjEdges = g[Len(Visited)]
  <1> DEFINE nodes == Visited
             N == Len(nodes)
             more(j, s) == s \o FirstEntries(nodes[j])
             step == [j \in 1 .. N |-> [s \in Seq(Key) |-> more(j, s)]]
             Eqn(g) == g = [j \in 0 .. N |->
                              IF j = 0 THEN <<>>
                              ELSE g[j - 1] \o FirstEntries(nodes[j])]
             upTo == CHOOSE g : Eqn(g)
  <1>1. AdjEdges = upTo[N]
    BY DEF AdjEdges, Visited
  <1>2. N \in Nat /\ \A j \in 1 .. N : nodes[j] \in Node
    OBVIOUS
  <1> HIDE DEF nodes, N
  <1>3. \A j \in 1 .. N : FirstEntries(nodes[j]) \in Seq(Key)
    BY <1>2
  <1>4. \A j \in 1 .. N, s \in Seq(Key) : more(j, s) \in Seq(Key)
    BY <1>3
  <1>5. PICK h : Follows(h, step, <<>>, N, Seq(Key))
    <2> DEFINE S == Seq(Key)
               a == <<>>
    <2>1. Steps(step, N, S) /\ a \in S
      <3>1. a \in S
        OBVIOUS
      <3> HIDE DEF more
      <3>2. step \in [1 .. N -> [Seq(Key) -> Seq(Key)]]
        BY <1>4
      <3> HIDE DEF a, step
      <3> QED
        BY <3>1, <3>2 DEF Steps
    <2> HIDE DEF step, S, a
    <2>2. \E h : Follows(h, step, a, N, S)
      BY <1>2, <2>1, Recursion
    <2> QED
      BY <2>2 DEF S, a
  <1> HIDE DEF more
  <1>6. /\ h \in [0 .. N -> Seq(Key)] /\ h[0] = <<>>
        /\ \A j \in 1 .. N : h[j] = more(j, h[j - 1])
    <2>1. \A j \in 1 .. N : j - 1 \in 0 .. N
      BY <1>2
    <2> QED
      BY <1>5, <2>1 DEF Follows
  <1> HIDE DEF step
  <1>7. Eqn(h)
    <2>1. \A j \in 0 .. N : j # 0 => j \in 1 .. N
      BY <1>2
    <2> QED
      BY <1>2, <1>6, <2>1 DEF more
  <1>8. Eqn(upTo)
    <2> HIDE DEF Eqn
    <2> QED
      BY <1>7
  <1> HIDE DEF upTo
  <1>9. upTo[0] = <<>> /\ \A j \in 1 .. N : upTo[j] = more(j, upTo[j - 1])
    <2>1. 0 \in 0 .. N /\ \A j \in 1 .. N : j \in 0 .. N /\ j # 0
      BY <1>2
    <2>2. upTo[0] = <<>>
      BY <1>8, <2>1
    <2>3. \A j \in 1 .. N : upTo[j] = more(j, upTo[j - 1])
      BY <1>8, <2>1 DEF more
    <2> QED
      BY <2>2, <2>3
  <1>10. upTo \in [0 .. N -> Seq(Key)]
    <2> DEFINE T == {j \in 0 .. N : upTo[j] \in Seq(Key)}
    <2>1. 0 \in T
      <3>1. 0 \in 0 .. N
        BY <1>2
      <3>2. <<>> \in Seq(Key)
        OBVIOUS
      <3> QED
        BY <1>9, <3>1, <3>2, Zenon
    <2>2. ASSUME NEW j \in 1 .. N, j - 1 \in T PROVE j \in T
      BY <1>2, <1>4, <1>9, <2>2
    <2>3. 0 .. N \subseteq T
      <3> HIDE DEF T
      <3> QED
        BY <1>2, <2>1, <2>2, Induction
    <2>4. DOMAIN upTo = 0 .. N /\ upTo = [j \in 0 .. N |-> upTo[j]]
      BY <1>8
    <2> QED
      BY <2>3, <2>4
  <1>11. IsCopy(upTo)
    BY <1>9 DEF IsCopy, N, nodes, more
  <1> QED
    BY <1>1, <1>10, <1>11 DEF N, nodes

\* After all rounds the buffer has edges of the vertex, each of them once,
\* and all of them if all nodes were visited.
LEMMA CopyIsStored ==
    ASSUME TreeInv, pc = "idle"
    PROVE  /\ AdjEdges \in Seq(Key) /\ Distinct(AdjEdges)
           /\ Elements(AdjEdges) \subseteq Stored
           /\ Elements(Visited) = Linked => Elements(AdjEdges) = Stored
  <1>1. TypeInv /\ TypeOK /\ EntryInv /\ PrefixInv
    BY DEF TreeInv, StoreInv, TypeInv
  <1>2. \A n \in Node : IsPrefix(bitmap[n])
    BY <1>1 DEF PrefixInv, Moving
  <1> DEFINE nodes == Visited
             N == Len(nodes)
             keys(j) == UNION {NodeKeys(nodes[i]) : i \in 1 .. j}
  <1>3. /\ nodes \in Seq(Node) /\ Distinct(nodes)
        /\ Elements(nodes) \subseteq Linked
    BY VisitedFacts
  <1>4. \A n \in Node : /\ FirstEntries(n) \in Seq(Key)
                        /\ Distinct(FirstEntries(n))
                        /\ Elements(FirstEntries(n)) = NodeKeys(n)
    BY <1>1, <1>2, FirstEntriesFacts
  <1>5. PICK g : /\ g \in [0 .. N -> Seq(Key)] /\ IsCopy(g)
                 /\ AdjEdges = g[N]
    BY <1>3, <1>4, CopyRuns
  <1>6. /\ g[0] = <<>>
        /\ \A j \in 1 .. N : g[j] = g[j - 1] \o FirstEntries(nodes[j])
    BY <1>5 DEF IsCopy
  <1> HIDE DEF nodes
  <1>7. N \in Nat /\ \A j \in 1 .. N : nodes[j] \in Node
    BY <1>3
  <1>8. \A i, j \in 1 .. N : nodes[i] = nodes[j] => i = j
    BY <1>3 DEF Distinct
  <1> HIDE DEF N
  <1> DEFINE T == {j \in 0 .. N : Distinct(g[j]) /\ Elements(g[j]) = keys(j)}
  <1>9. 0 \in T
    <2>1. Elements(<<>>) = {} /\ Distinct(<<>>)
      BY DEF Elements, Distinct
    <2>2. keys(0) = {} /\ 0 \in 0 .. N
      BY <1>7
    <2> QED
      BY <1>6, <2>1, <2>2
  <1>10. ASSUME NEW j \in 1 .. N, j - 1 \in T PROVE j \in T
    <2> DEFINE s == g[j - 1]
               t == FirstEntries(nodes[j])
    <2>1. j - 1 \in 0 .. N /\ j \in 0 .. N /\ nodes[j] \in Node
      BY <1>7
    <2>2. s \in Seq(Key) /\ Distinct(s) /\ Elements(s) = keys(j - 1)
      BY <1>5, <1>10, <2>1
    <2>3. t \in Seq(Key) /\ Distinct(t) /\ Elements(t) = NodeKeys(nodes[j])
      BY <1>4, <2>1
    <2>4. g[j] = s \o t
      BY <1>6
    <2> HIDE DEF s, t
    <2>5. keys(j - 1) \cap NodeKeys(nodes[j]) = {}
      <3> SUFFICES ASSUME NEW i \in 1 .. j - 1
                   PROVE  NodeKeys(nodes[i]) \cap NodeKeys(nodes[j]) = {}
        OBVIOUS
      <3>1. i \in 1 .. N /\ i # j
        BY <1>7
      <3>2. nodes[i] # nodes[j] /\ nodes[i] \in Node
        BY <1>7, <1>8, <3>1
      <3> QED
        BY <1>1, <2>1, <3>2, KeysDisjoint
    <2>6. keys(j) = keys(j - 1) \cup NodeKeys(nodes[j])
      <3>1. \A i \in 1 .. j : i = j \/ i \in 1 .. j - 1
        BY <1>7
      <3>2. j \in 1 .. j /\ 1 .. j - 1 \subseteq 1 .. j
        BY <1>7
      <3> QED
        BY <3>1, <3>2
    <2> HIDE DEF keys
    <2>7. Elements(s) \cap Elements(t) = {}
      BY <2>2, <2>3, <2>5
    <2>8. Distinct(s \o t) /\ Elements(s \o t) = Elements(s) \cup Elements(t)
      BY <2>2, <2>3, <2>7, Appended
    <2> QED
      BY <2>1, <2>2, <2>3, <2>4, <2>6, <2>8
  <1>11. N \in T
    <2>1. 0 .. N \subseteq T
      <3> HIDE DEF T
      <3> QED
        BY <1>7, <1>9, <1>10, Induction
    <2> QED
      BY <1>7, <2>1
  <1>12. keys(N) = UNION {NodeKeys(n) : n \in Elements(nodes)}
    BY DEF Elements, N
  <1>13. g[N] \in Seq(Key) /\ Distinct(g[N]) /\ Elements(g[N]) = keys(N)
    BY <1>5, <1>7, <1>11
  <1> QED
    BY <1>3, <1>5, <1>12, <1>13, StoredKeys DEF nodes

\* get_adj_edges_l copies the edges of the vertex, each of them once and
\* nothing else, and its queue has room, wherever num_nodes counts the nodes:
\* after any calls and any crash that leaves no entry half moved.
THEOREM AdjacencyCorrect ==
    ASSUME MovesFinish PROVE Spec => []AdjacencyExact
  <1>1. ASSUME TreeInv PROVE AdjacencyExact
    <2> SUFFICES ASSUME AtRest, NumNodesExact
                 PROVE  /\ QueueFits
                        /\ Len(AdjEdges) = Cardinality(Stored)
                        /\ Elements(AdjEdges) = Stored
      BY DEF AdjacencyExact, Elements
    <2>1. pc = "idle" /\ numNodes = Cardinality(Reachable)
      BY DEF AtRest, NumNodesExact
    <2>2. QueueFits /\ Elements(Visited) = Linked
      BY <1>1, <2>1, VisitedFacts
    <2>3. /\ AdjEdges \in Seq(Key) /\ Distinct(AdjEdges)
          /\ Elements(AdjEdges) = Stored
      BY <1>1, <2>1, <2>2, CopyIsStored
    <2>4. Cardinality(Elements(AdjEdges)) = Len(AdjEdges)
      BY <2>3, SeqCount
    <2> QED
      BY <2>2, <2>3, <2>4
  <1> QED
    BY <1>1, TreeInvariant, PTL

-----------------------------------------------------------------------------
(* num_nodes                                                               *)

\* num_nodes is behind the tree from the store that links a group to the one
\* that counts it, and at no other time.
Uncounted == IF pc = "addNumNodes" THEN NUM_BRANCH ELSE 0
CountInv == Cardinality(Linked) = numNodes + Uncounted

\* The tree has finitely many nodes.
LEMMA LinkedIsFinite == TypeInv => IsFiniteSet(Linked)
  <1> SUFFICES ASSUME TypeInv PROVE IsFiniteSet(Linked)
    OBVIOUS
  <1>1. 0 \in Int /\ next - 1 \in Int
    BY DEF TypeInv, TypeOK
  <1>2. IsFiniteSet(0 .. next - 1)
    BY <1>1, FS_Interval
  <1> QED
    BY <1>2, LinkedNodes, FS_Subset DEF Node

\* The group that is linked has NUM_BRANCH nodes, none of them in the tree.
LEMMA GroupCount ==
    ASSUME TreeInv, pc \in Linking
    PROVE  Cardinality(Linked \cup Children(mine)) =
              Cardinality(Linked) + NUM_BRANCH
  <1> DEFINE A == Linked
             B == Children(mine)
             b == NUM_BRANCH
  <1>1. IsFiniteSet(A) /\ Cardinality(A) \in Nat
    BY LinkedIsFinite, FS_CardinalityType DEF TreeInv
  <1>2. mine \in Nat /\ A \cap B = {}
    BY NewGroup
  <1>3. b \in Nat \ {0} /\ B = mine .. mine + b - 1
    BY NumBranchType DEF Children
  <1> HIDE DEF A, B, b
  <1>4. mine + b - 1 \in Int /\ mine \in Int /\ ~(mine > mine + b - 1)
        /\ (mine + b - 1) - mine + 1 = b
    BY <1>2, <1>3
  <1>5. IsFiniteSet(B) /\ Cardinality(B) = b
    BY <1>3, <1>4, FS_Interval
  <1>6. Cardinality(A \cup B) =
           Cardinality(A) + Cardinality(B) - Cardinality({})
    BY <1>1, <1>2, <1>5, FS_Union
  <1>7. Cardinality(A \cup B) = Cardinality(A) + b
    BY <1>1, <1>3, <1>5, <1>6, FS_EmptySet
  <1> QED
    BY <1>7 DEF A, B, b

LEMMA CountInit == Init => CountInv
  <1> SUFFICES ASSUME Init PROVE CountInv
    OBVIOUS
  <1>1. Node = {0}
    BY DEF Init, Node
  <1>2. Parents = {}
    BY <1>1 DEF Init, Parents
  <1>3. Linked = {0}
    BY <1>2 DEF Linked
  <1>4. Cardinality({0}) = 1
    BY FS_Singleton
  <1> QED
    BY <1>3, <1>4 DEF Init, CountInv, Uncounted

\* Linking a group and counting it, and nothing else, move the two.
LEMMA CountStep ==
    ASSUME "addNumNodes" \notin CrashPoints, TreeInv, CountInv, Next
    PROVE  CountInv'
  <1>1. numNodes \in Nat /\ NUM_BRANCH \in Nat
    BY NumBranchType DEF TreeInv, TypeInv, TypeOK
  <1>2. CASE StoreValid
    <2>1. Linked' = Linked \cup Children(mine)
      BY <1>2, LinkedStep
    <2>2. pc = "storeValid" /\ pc' = "addNumNodes" /\ numNodes' = numNodes
      BY <1>2 DEF StoreValid, Goto, counters
    <2>3. Cardinality(Linked \cup Children(mine)) =
             Cardinality(Linked) + NUM_BRANCH
      BY <2>2, GroupCount DEF Linking
    <2>4. Cardinality(Linked)' = Cardinality(Linked) + NUM_BRANCH
      BY <2>1, <2>3
    <2> QED
      BY <1>1, <2>2, <2>4 DEF CountInv, Uncounted
  <1>3. CASE ~StoreValid
    <2>1. Linked' = Linked
      BY <1>3, LinkedStep
    <2>2. CASE AddNumNodes
      <3>1. /\ pc = "addNumNodes" /\ pc' = "descend"
            /\ numNodes' = numNodes + NUM_BRANCH
        BY <2>2 DEF AddNumNodes, Goto
      <3> QED
        BY <1>1, <2>1, <3>1 DEF CountInv, Uncounted
    <2>3. CASE ~AddNumNodes
      <3>1. /\ pc # "addNumNodes" /\ pc' # "addNumNodes"
            /\ numNodes' = numNodes
        BY <1>3, <2>3
           DEF Next, Insert, Delete, Start, FindEdge, ChooseSlot, Descend,
               Alloc, AllocFails, InitChildren, StoreChild, StoreId,
               StoreFgpt, SetBit, AddDegree, Search, ClearBit, SubDegree,
               CopyEdge, CopyFgpt, Update, Return, Crash, Goto, counters
      <3> QED
        BY <2>1, <3>1 DEF CountInv, Uncounted
    <2> QED
      BY <2>2, <2>3
  <1> QED
    BY <1>2, <1>3

\* Between two calls num_nodes is the number of nodes of the tree, provided
\* that no process dies between linking a group and counting it.
THEOREM NumNodesCorrect ==
    ASSUME MovesFinish, "addNumNodes" \notin CrashPoints
    PROVE  Spec => []NumNodesExact
  <1>1. TreeInv /\ CountInv => NumNodesExact
    <2> SUFFICES ASSUME TreeInv, CountInv, pc = "idle"
                 PROVE  numNodes = Cardinality(Reachable)
      BY DEF NumNodesExact, AtRest
    <2>1. numNodes \in Nat /\ Uncounted = 0
      BY DEF Uncounted, TreeInv, TypeInv, TypeOK
    <2> QED
      BY <2>1, ReachableIsLinked DEF CountInv
  <1>2. TreeInv /\ CountInv /\ [Next]_vars => CountInv'
    <2>1. CASE Next
      BY <2>1, CountStep
    <2>2. CASE UNCHANGED vars
      BY <2>2 DEF vars, CountInv, Uncounted, Linked, Parents, Node
    <2> QED
      BY <2>1, <2>2
  <1> QED
    BY <1>1, <1>2, CountInit, TreeInvariant, PTL DEF Spec

-----------------------------------------------------------------------------
(* degree                                                                  *)

Owed == IF pc = "subDegree" THEN 1 ELSE 0
Due == IF pc = "addDegree" THEN 1 ELSE 0
Inserting == {"find", "choose", "addNumNodes", "descend", "addDegree"}
                \cup Linking \cup Filling

\* degree is behind by the insertion that has set its bit, ahead by the
\* deletion that has cleared one, and short of the bound while an insertion
\* may still add to it.  A deletion that moved an entry leaves it too high.
DegreeInv ==
    /\ Cardinality(Stored) + Owed <= degree + Due
    /\ degree <= MaxDegree
    /\ pc \in Inserting => degree < MaxDegree

LEMMA DegreeInit ==
    ASSUME MaxDegree \in Nat
    PROVE  Init /\ TypeInv /\ EntryInv => DegreeInv
  <1> SUFFICES ASSUME Init, TypeInv, EntryInv PROVE DegreeInv
    OBVIOUS
  <1>1. \A x \in Key : ~Held(x)
    BY DEF Init, Held, Holds, Node
  <1>2. Stored = {}
    BY <1>1, StoredHeld DEF StoredIsHeld, TypeInv
  <1>3. Cardinality(Stored) = 0
    BY <1>2, FS_EmptySet
  <1> QED
    BY <1>3
       DEF Init, DegreeInv, Owed, Due, Inserting, Linking, Filling

\* Each step keeps the balance of degree and edges, and the bound.
LEMMA DegreeStep ==
    ASSUME MaxDegree \in 0 .. DEGREE_SIZE - 1, "addDegree" \notin CrashPoints,
           TreeInv, DegreeInv, Next
    PROVE  DegreeInv'
  <1> DEFINE s == Cardinality(Stored)
             t == Cardinality(Stored')
  <1>1. /\ TypeInv /\ StoreInv /\ IsFiniteSet(Stored) /\ s \in Nat
        /\ DEGREE_SIZE \in Nat \ {0} /\ degree \in 0 .. DEGREE_SIZE - 1
        /\ MaxDegree \in Nat
    BY OutDegreeCounts, FS_CardinalityType, ConstantsAssumption
       DEF TreeInv, TypeInv, TypeOK
  <1>2. /\ SetBit => t = s + 1
        /\ ClearBit => t = s - 1
        /\ ~(SetBit \/ ClearBit) => t = s
    <2>1. CASE SetBit
      <3>1. Stored' = Stored \cup {key} /\ key \notin Stored /\ ~ClearBit
        BY <1>1, <2>1, StoredStep DEF SetBit, ClearBit, Goto
      <3> QED
        BY <1>1, <2>1, <3>1, FS_AddElement
    <2>2. CASE ClearBit
      <3>1. Stored' = Stored \ {key} /\ key \in Stored /\ ~SetBit
        BY <1>1, <2>2, StoredStep DEF SetBit, ClearBit, Goto
      <3> QED
        BY <1>1, <2>2, <3>1, FS_RemoveElement
    <2>3. CASE ~(SetBit \/ ClearBit)
      BY <1>1, <2>3, StoredStep
    <2> QED
      BY <2>1, <2>2, <2>3
  <1>3. Cardinality(Stored)' = t
    OBVIOUS
  <1> HIDE DEF s, t
  <1>4. /\ s + Owed <= degree + Due /\ degree <= MaxDegree
        /\ pc \in Inserting => degree < MaxDegree
    BY DEF DegreeInv, s
  <1> SUFFICES /\ t + Owed' <= degree' + Due' /\ degree' <= MaxDegree
               /\ pc' \in Inserting => degree' < MaxDegree
    BY <1>3 DEF DegreeInv
  <1>5. CASE SetBit
    <2>1. pc = "setBit" /\ pc' = "addDegree" /\ degree' = degree
      BY <1>5 DEF SetBit, Goto, counters
    <2> QED
      BY <1>1, <1>2, <1>4, <1>5, <2>1
         DEF Owed, Due, Inserting, Filling, ClearBit, Goto
  <1>6. CASE ClearBit
    <2>1. /\ pc = "clearBit" /\ pc' \in {"subDegree", "copyEdge"}
          /\ degree' = degree
      BY <1>6 DEF ClearBit, Goto, counters
    <2> QED
      BY <1>1, <1>2, <1>4, <1>6, <2>1
         DEF Owed, Due, Inserting, Linking, Filling, SetBit, Goto
  <1>7. CASE AddDegree
    <2>1. /\ pc = "addDegree" /\ pc' = "return"
          /\ degree' = (degree + 1) % DEGREE_SIZE
      BY <1>7 DEF AddDegree, Goto
    <2>2. degree + 1 <= MaxDegree
      BY <1>1, <1>4, <2>1 DEF Inserting
    <2>3. degree' = degree + 1
      BY <1>1, <2>1, <2>2
    <2>4. t = s
      BY <1>2, <2>1 DEF SetBit, ClearBit, Goto
    <2> QED
      BY <1>1, <1>4, <2>1, <2>2, <2>3, <2>4
         DEF Owed, Due, Inserting, Linking, Filling
  <1>8. CASE SubDegree
    <2>1. /\ pc = "subDegree" /\ pc' = "return"
          /\ degree' = (degree - 1) % DEGREE_SIZE
      BY <1>8 DEF SubDegree, Goto
    <2>2. s + 1 <= degree
      BY <1>1, <1>4, <2>1 DEF Owed, Due
    <2>3. degree' = degree - 1
      BY <1>1, <2>1, <2>2
    <2>4. t = s
      BY <1>2, <2>1 DEF SetBit, ClearBit, Goto
    <2> QED
      BY <1>1, <1>4, <2>1, <2>2, <2>3, <2>4
         DEF Owed, Due, Inserting, Linking, Filling
  <1>9. CASE Start
    <2>1. /\ pc = "idle" /\ degree' = degree /\ pc' \in {"find", "search"}
          /\ pc' = "find" => degree # MaxDegree
      BY <1>9 DEF Start, Goto, counters
    <2>2. t = s
      BY <1>2, <2>1 DEF SetBit, ClearBit, Goto
    <2> QED
      BY <1>1, <1>4, <2>1, <2>2
         DEF Owed, Due, Inserting, Linking, Filling
  <1>10. CASE ~(SetBit \/ ClearBit \/ AddDegree \/ SubDegree \/ Start)
    <2>1. /\ degree' = degree
          /\ pc' \notin {"addDegree", "subDegree"}
          /\ pc # "addDegree"
          /\ pc' \in Inserting => pc \in Inserting
      BY <1>10
         DEF Next, Insert, Delete, FindEdge, ChooseSlot, Descend, Alloc,
             AllocFails, InitChildren, StoreChild, StoreValid, AddNumNodes,
             StoreId, StoreFgpt, Search, CopyEdge, CopyFgpt, Update, Return,
             Crash, Goto, counters, Inserting, Linking, Filling
    <2>2. t = s
      BY <1>2, <1>10
    <2> QED
      BY <1>1, <1>4, <2>1, <2>2 DEF Owed, Due
  <1> QED
    BY <1>5, <1>6, <1>7, <1>8, <1>9, <1>10

\* A buffer of degree entries has room for what get_adj_edges_l copies, as
\* long as no process dies before the degree of an edge it has put in is
\* counted and degree stays below the largest value of its type; num_nodes may
\* be anything.
THEOREM DegreeSuffices ==
    ASSUME MovesFinish, "addDegree" \notin CrashPoints,
           MaxDegree \in 0 .. DEGREE_SIZE - 1
    PROVE  Spec => []DegreeCovers
  <1>1. TreeInv /\ DegreeInv => DegreeCovers
    <2> SUFFICES ASSUME TreeInv, DegreeInv, pc = "idle"
                 PROVE  Len(AdjEdges) <= degree
      BY DEF DegreeCovers, AtRest
    <2>1. IsFiniteSet(Stored) /\ Cardinality(Stored) \in Nat
      BY OutDegreeCounts, FS_CardinalityType
    <2>2. /\ AdjEdges \in Seq(Key) /\ Distinct(AdjEdges)
          /\ Elements(AdjEdges) \subseteq Stored
      BY CopyIsStored
    <2>3. Cardinality(Elements(AdjEdges)) = Len(AdjEdges)
      BY <2>2, SeqCount
    <2>4. Cardinality(Elements(AdjEdges)) <= Cardinality(Stored)
      BY <2>1, <2>2, FS_Subset
    <2>5. Cardinality(Stored) <= degree
      <3>1. degree \in Nat
        BY ConstantsAssumption DEF TreeInv, TypeInv, TypeOK
      <3> QED
        BY <2>1, <3>1 DEF DegreeInv, Owed, Due
    <2>6. Len(AdjEdges) \in Nat /\ degree \in Nat
      BY <2>2, ConstantsAssumption DEF TreeInv, TypeInv, TypeOK
    <2> QED
      BY <2>1, <2>3, <2>4, <2>5, <2>6
  <1>2. Init /\ TreeInv => DegreeInv
    BY DegreeInit, ConstantsAssumption DEF TreeInv, StoreInv
  <1>3. TreeInv /\ DegreeInv /\ [Next]_vars => DegreeInv'
    <2>1. CASE Next
      BY <2>1, DegreeStep
    <2>2. CASE UNCHANGED vars
      <3>1. Stored' = Stored
        BY <2>2 DEF vars, Stored, find_edge_t, OnPath, find_key, Matches,
                    Node, Branch, hashcode
      <3>2. degree' = degree /\ pc' = pc
        BY <2>2 DEF vars
      <3> QED
        BY <3>1, <3>2 DEF DegreeInv, Owed, Due
    <2> QED
      BY <2>1, <2>2
  <1> QED
    BY <1>1, <1>2, <1>3, TreeInvariant, PTL DEF Spec

=============================================================================
