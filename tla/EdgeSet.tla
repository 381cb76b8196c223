------------------------------ MODULE EdgeSet ------------------------------
(***************************************************************************)
(* What insert_edge_parallel promises about the edges of one source        *)
(* vertex, with no tree, no slots and no locks: every call has its edge in *)
(* the set from some moment before it returns, an edge never leaves, and   *)
(* the degree counts what the calls that have returned put in.             *)
(***************************************************************************)
EXTENDS Naturals, FiniteSets

CONSTANT Key

VARIABLES
    edges,      \* the edges a search finds
    waiting,    \* the edges some call has started to insert
    returned    \* how many calls have returned

Init == edges = {} /\ waiting = {} /\ returned = 0

Call(k) ==
    /\ k \notin edges \cup waiting
    /\ waiting' = waiting \cup {k}
    /\ UNCHANGED <<edges, returned>>

Insert(k) ==
    /\ k \in waiting
    /\ edges' = edges \cup {k}
    /\ waiting' = waiting \ {k}
    /\ UNCHANGED returned

Return ==
    /\ returned < Cardinality(edges)
    /\ returned' = returned + 1
    /\ UNCHANGED <<edges, waiting>>

Next == Return \/ \E k \in Key : Call(k) \/ Insert(k)

Spec == Init /\ [][Next]_<<edges, waiting, returned>>
=============================================================================
