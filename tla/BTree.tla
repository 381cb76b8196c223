------------------------------- MODULE BTree -------------------------------
(***************************************************************************)
(* class btree of src/common/btree.h as its callers use it: a key is       *)
(* inserted only after find has not found it (ntgraph_btree.h:341; the     *)
(* test inserts each key once), and any key is removed.  One process.      *)
(***************************************************************************)
EXTENDS BTreeNode, FiniteSets

CONSTANT Key

ASSUME KeyAssumption == Key \subseteq Nat

VARIABLES
    root,       \* root_offset
    answer      \* what the last insert or remove returned

vars == <<root, answer>>

Init == root = NoTree /\ answer = TRUE

\* Mutant: insert without the search before it.
InsertKeyUnsearched(k) ==
    /\ root' = insert(root, k).node
    /\ answer' = insert(root, k).isNew

InsertKey(k) ==
    /\ ~find(root, k)
    /\ root' = insert(root, k).node
    /\ answer' = insert(root, k).isNew

RemoveKey(k) ==
    /\ root' = IF root = NoTree THEN NoTree ELSE removeRoot(root, k)
    /\ answer' = (root # NoTree /\ removed(root, k))

Next == \E k \in Key : InsertKey(k) \/ RemoveKey(k)

Spec == Init /\ [][Next]_vars

-----------------------------------------------------------------------------
\* The tree keeps the shape of a B-tree and no key twice, whatever was split,
\* borrowed and merged (btree.h:110-123, 144-148, 166-192): an insertion of a
\* key that is there would break it at a root that splits (btree.h:603-625).
WellFormed == BTreeShape(root)

\* btree_iterator's stack and the readers agree with the tree: a loop over the
\* iterator sees every key once, in order, and stops (btree.h:480-530); find
\* finds exactly these keys; sum adds them up; no node is without a key.
ReadersAgree ==
    LET keys == traverse(root)
    IN  /\ root # NoTree => iterate(begin(root)) = keys
        /\ {k \in Key : find(root, k)} = ToSet(keys)
        /\ sum(root) = FoldLeft(LAMBDA a, k : a + k, 0, keys)
        /\ root # NoTree => get_num_nodes(root) <= Len(keys)

\* The tree is a set of keys: every call changes it by its own key only and
\* answers as a set would (btree.h:578-653).
Keys == INSTANCE KeySet WITH keys <- ToSet(traverse(root))
ImplementsKeySet == Keys!Spec
=============================================================================
