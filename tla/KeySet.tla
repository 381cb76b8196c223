------------------------------- MODULE KeySet -------------------------------
(***************************************************************************)
(* What class btree promises its callers, with no nodes: a set of keys.    *)
(* An insertion answers TRUE, a removal answers TRUE for a key that was    *)
(* there and anything for one that was not.                                *)
(***************************************************************************)
CONSTANT Key

VARIABLES keys, answer

Init == keys = {} /\ answer = TRUE

Insert(k) == k \notin keys /\ keys' = keys \cup {k} /\ answer' = TRUE

Remove(k) ==
    /\ keys' = keys \ {k}
    /\ answer' \in IF k \in keys THEN {TRUE} ELSE BOOLEAN

Next == \E k \in Key : Insert(k) \/ Remove(k)

Spec == Init /\ [][Next]_<<keys, answer>>
=============================================================================
