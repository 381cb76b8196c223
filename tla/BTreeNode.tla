----------------------------- MODULE BTreeNode -----------------------------
(***************************************************************************)
(* The nodes of the B-tree baseline (src/common/btree.h) and what its      *)
(* member functions return, unweighted build.                              *)
(*                                                                         *)
(* A node is [leaf, keys, kids]: keys holds the first num_keys entries of  *)
(* its array, kids the subtrees its offsets lead to (no node has two       *)
(* parents).  Positions start at 1.  A function that stores into nodes is  *)
(* an operator that returns the subtree as the function leaves it.         *)
(***************************************************************************)
EXTENDS Integers, SequencesExt

CONSTANT MIN_KEYS       \* 64 in the code

ASSUME MinKeysAssumption == MIN_KEYS \in Nat /\ MIN_KEYS >= 2

MAX_KEYS == 2 * MIN_KEYS - 1

\* node::init(true).  The tree without a node (root_offset = 0) is written as
\* an empty leaf: btree::remove leaves no root empty.
EmptyLeaf == [leaf |-> TRUE, keys |-> <<>>, kids |-> <<>>]
NoTree == EmptyLeaf

\* findKey: the first position whose key is not below k, num_keys + 1 if none.
findKey(n, k) ==
    LET i == SelectInSeq(n.keys, LAMBDA x : x >= k)
    IN  IF i = 0 THEN Len(n.keys) + 1 ELSE i

Holds(n, i, k) == i <= Len(n.keys) /\ n.keys[i] = k

-----------------------------------------------------------------------------
\* The full child i keeps its lower half, gives its upper half to a new
\* sibling on its right, and its middle key moves up into n.
splitChild(n, i) ==
    LET c == n.kids[i]
        half(a, b) == [c EXCEPT !.keys = SubSeq(@, a, b - 1),
                                !.kids = IF c.leaf THEN @ ELSE SubSeq(@, a, b)]
    IN  [n EXCEPT
           !.keys = InsertAt(@, i, c.keys[MIN_KEYS]),
           !.kids = InsertAt(ReplaceAt(@, i, half(1, MIN_KEYS)),
                             i + 1, half(MIN_KEYS + 1, 2 * MIN_KEYS))]

\* The node after insertNonFull, and what the call returned.
RECURSIVE insertNonFull(_, _)
insertNonFull(n, k) ==
    LET i == findKey(n, k)
        full == Len(n.kids[i].keys) = MAX_KEYS
        m == IF full THEN splitChild(n, i) ELSE n
        j == IF full /\ m.keys[i] < k THEN i + 1 ELSE i
        below == insertNonFull(m.kids[j], k)
    IN  CASE Holds(n, i, k) -> [node |-> n, isNew |-> FALSE]
          [] ~Holds(n, i, k) /\ n.leaf ->
               [node |-> [n EXCEPT !.keys = InsertAt(@, i, k)], isNew |-> TRUE]
          [] ~Holds(n, i, k) /\ ~n.leaf /\ full /\ m.keys[i] = k ->
               [node |-> m, isNew |-> FALSE]
          [] OTHER ->
               [node |-> [m EXCEPT !.kids[j] = below.node], isNew |-> below.isNew]

\* btree::insert, and the second half of ntgraph_btree's insert_edge.  Below a
\* root that was split it compares k with the key that moved up for < only.
insert(root, k) ==
    LET s == splitChild([leaf |-> FALSE, keys |-> <<>>, kids |-> <<root>>], 1)
        i == IF s.keys[1] < k THEN 2 ELSE 1
        below == insertNonFull(s.kids[i], k)
    IN  CASE root = NoTree ->
               [node |-> [EmptyLeaf EXCEPT !.keys = <<k>>], isNew |-> TRUE]
          [] Len(root.keys) = MAX_KEYS ->
               [node |-> [s EXCEPT !.kids[i] = below.node], isNew |-> below.isNew]
          [] OTHER -> insertNonFull(root, k)

-----------------------------------------------------------------------------
\* Child i takes the key before it; that key's place goes to the sibling's last.
borrowFromPrev(n, i) ==
    LET c == n.kids[i]
        s == n.kids[i - 1]
    IN  [n EXCEPT
           !.keys[i - 1] = Last(s.keys),
           !.kids[i] = [c EXCEPT
               !.keys = <<n.keys[i - 1]>> \o @,
               !.kids = IF c.leaf THEN @ ELSE <<Last(s.kids)>> \o @],
           !.kids[i - 1] = [s EXCEPT
               !.keys = Front(@), !.kids = IF c.leaf THEN @ ELSE Front(@)]]

borrowFromNext(n, i) ==
    LET c == n.kids[i]
        s == n.kids[i + 1]
    IN  [n EXCEPT
           !.keys[i] = Head(s.keys),
           !.kids[i] = [c EXCEPT
               !.keys = Append(@, n.keys[i]),
               !.kids = IF c.leaf THEN @ ELSE Append(@, Head(s.kids))],
           !.kids[i + 1] = [s EXCEPT
               !.keys = Tail(@), !.kids = IF s.leaf THEN @ ELSE Tail(@)]]

\* The key between children i and i + 1 goes to position MIN_KEYS of child i,
\* whatever it holds, and the sibling's keys behind it.
merge(n, i) ==
    LET c == n.kids[i]
        s == n.kids[i + 1]
        num == Len(c.keys) + Len(s.keys) + 1
        both == [c EXCEPT
            !.keys = [p \in 1 .. num |->
                CASE p < MIN_KEYS -> c.keys[p]
                  [] p = MIN_KEYS -> n.keys[i]
                  [] p > MIN_KEYS -> s.keys[p - MIN_KEYS]],
            !.kids = IF c.leaf THEN @ ELSE SubSeq(@, 1, MIN_KEYS) \o s.kids]
    IN  [n EXCEPT !.keys = RemoveAt(@, i),
                  !.kids = RemoveAt(ReplaceAt(@, i, both), i + 1)]

CanGive(n, i) == i \in DOMAIN n.kids /\ Len(n.kids[i].keys) >= MIN_KEYS

fill(n, i) ==
    CASE CanGive(n, i - 1) -> borrowFromPrev(n, i)
      [] ~CanGive(n, i - 1) /\ CanGive(n, i + 1) -> borrowFromNext(n, i)
      [] OTHER -> merge(n, IF i <= Len(n.keys) THEN i ELSE i - 1)

\* The last key of the rightmost leaf, the first key of the leftmost leaf.
RECURSIVE lastKey(_), firstKey(_)
lastKey(n) == IF n.leaf THEN Last(n.keys) ELSE lastKey(Last(n.kids))
firstKey(n) == IF n.leaf THEN Head(n.keys) ELSE firstKey(Head(n.kids))
\* Mutant: the walk stops at the child.
getPredOfChild(n, i) == Last(n.kids[i].keys)
getPred(n, i) == lastKey(n.kids[i])
getSucc(n, i) == firstKey(n.kids[i + 1])

\* node::remove stores into the nodes; what it returns says only whether the
\* search ended in a leaf at once.
RECURSIVE remove(_, _)
removeFromLeaf(n, i) == [n EXCEPT !.keys = RemoveAt(@, i)]

removeFromNonLeaf(n, i) ==
    CASE CanGive(n, i) ->
           [n EXCEPT !.keys[i] = getPred(n, i),
                     !.kids[i] = remove(@, getPred(n, i))]
      [] ~CanGive(n, i) /\ CanGive(n, i + 1) ->
           [n EXCEPT !.keys[i] = getSucc(n, i),
                     !.kids[i + 1] = remove(@, getSucc(n, i))]
      [] OTHER -> [merge(n, i) EXCEPT !.kids[i] = remove(@, n.keys[i])]

remove(n, k) ==
    LET i == findKey(n, k)
        m == IF CanGive(n, i) THEN n ELSE fill(n, i)
        j == IF i = Len(n.keys) + 1 /\ i > Len(m.keys) + 1 THEN i - 1 ELSE i
    IN  CASE Holds(n, i, k) /\ n.leaf -> removeFromLeaf(n, i)
          [] Holds(n, i, k) /\ ~n.leaf -> removeFromNonLeaf(n, i)
          [] ~Holds(n, i, k) /\ n.leaf -> n
          [] OTHER -> [m EXCEPT !.kids[j] = remove(@, k)]

removed(n, k) == ~n.leaf \/ Holds(n, findKey(n, k), k)

\* btree::remove: a root without keys gives way to its only child.
removeRoot(root, k) ==
    LET r == remove(root, k)
    IN  IF Len(r.keys) = 0 /\ ~r.leaf THEN r.kids[1] ELSE r

-----------------------------------------------------------------------------
\* Readers.

RECURSIVE find(_, _), traverse(_), sum(_), get_num_nodes(_)
find(n, k) ==
    LET i == findKey(n, k)
    IN  Holds(n, i, k) \/ (~n.leaf /\ find(n.kids[i], k))

\* The keys in the order in which traverse prints them.
traverse(n) ==
    IF n.leaf THEN n.keys
    ELSE FoldLeftDomain(LAMBDA out, i : out \o <<n.keys[i]>> \o traverse(n.kids[i + 1]),
                        traverse(n.kids[1]), n.keys)

sum(n) == FoldLeft(LAMBDA a, k : a + k, 0, n.keys)
          + FoldLeft(LAMBDA a, c : a + sum(c), 0, n.kids)

get_num_nodes(n) == 1 + FoldLeft(LAMBDA a, c : a + get_num_nodes(c), 0, n.kids)

\* node_iterator: the stack of (node, position) and the current pair.
RECURSIVE leftPath(_)
leftPath(n) ==
    <<[node |-> n, idx |-> 1]>> \o (IF n.leaf THEN <<>> ELSE leftPath(n.kids[1]))

\* Mutant: the walk to the leftmost leaf is left out.
beginAtRoot(n) == [stack |-> <<[node |-> n, idx |-> 1]>>, node |-> n, idx |-> 1]
begin(n) ==
    LET st == leftPath(n) IN [stack |-> st, node |-> Last(st).node, idx |-> 1]

advance(it) ==
    LET n == it.node
        up == Front(it.stack)
        rest == IF it.idx = Len(n.keys) THEN up ELSE it.stack
        down == rest \o leftPath(n.kids[it.idx + 1])
    IN  CASE n.leaf /\ it.idx < Len(n.keys) -> [it EXCEPT !.idx = @ + 1]
          [] n.leaf /\ it.idx = Len(n.keys) /\ up = <<>> -> [it EXCEPT !.stack = up]
          [] n.leaf /\ it.idx = Len(n.keys) /\ up # <<>> ->
               [stack |-> [up EXCEPT ![Len(up)].idx = @ + 1],
                node |-> Last(up).node, idx |-> Last(up).idx]
          [] OTHER -> [stack |-> down, node |-> Last(down).node, idx |-> 1]

\* The keys a loop over the iterator sees.
RECURSIVE iterate(_)
iterate(it) ==
    IF it.stack = <<>> THEN <<>> ELSE <<it.node.keys[it.idx]>> \o iterate(advance(it))

-----------------------------------------------------------------------------
\* The shape of a B-tree below its root: sorted, every node but the root with
\* at least MIN_KEYS - 1 keys, all leaves at one depth.
RECURSIVE depth(_), Shape(_)
depth(n) == IF n.leaf THEN 0 ELSE 1 + depth(n.kids[1])
Shape(n) ==
    /\ Len(n.keys) <= MAX_KEYS
    /\ IF n.leaf THEN n.kids = <<>> ELSE Len(n.kids) = Len(n.keys) + 1
    /\ \A i \in DOMAIN n.kids :
         /\ Shape(n.kids[i])
         /\ Len(n.kids[i].keys) >= MIN_KEYS - 1
         /\ depth(n.kids[i]) = depth(n) - 1

Increasing(s) == \A i, j \in DOMAIN s : i < j => s[i] < s[j]

BTreeShape(root) ==
    /\ Shape(root)
    /\ Increasing(traverse(root))
    /\ ~root.leaf => root.keys # <<>>
=============================================================================
