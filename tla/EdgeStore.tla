----------------------------- MODULE EdgeStore -----------------------------
(***************************************************************************)
(* What insert_edge and delete_edge promise about the edges of one source  *)
(* vertex, with no tree and no slots: a call takes effect at one moment    *)
(* between its start and its return, answers 1 if it changed the set and 0 *)
(* if it did not, and a crash ends it before or after that moment.         *)
(***************************************************************************)
EXTENDS Integers

CONSTANTS Key, NoCall

VARIABLES
    edges,      \* the edges a search finds
    call,       \* <<operation, key>> of the call that is running, or NoCall
    answer      \* its answer, -1 before it has taken effect

Init == edges = {} /\ call = NoCall /\ answer = -1

Start ==
    /\ call = NoCall
    /\ call' \in {"insert", "delete"} \X Key
    /\ answer' = -1
    /\ UNCHANGED edges

Insert ==
    /\ call # NoCall /\ answer = -1
    /\ call[1] = "insert"
    /\ edges' = edges \cup {call[2]}
    /\ answer' = IF call[2] \in edges THEN 0 ELSE 1
    /\ UNCHANGED call

Delete ==
    /\ call # NoCall /\ answer = -1
    /\ call[1] = "delete"
    /\ edges' = edges \ {call[2]}
    /\ answer' = IF call[2] \in edges THEN 1 ELSE 0
    /\ UNCHANGED call

Return ==
    /\ call # NoCall /\ answer # -1
    /\ call' = NoCall
    /\ UNCHANGED <<edges, answer>>

Crash ==
    /\ call' = NoCall
    /\ answer' = -1
    /\ UNCHANGED edges

Next == Start \/ Insert \/ Delete \/ Return \/ Crash

Spec == Init /\ [][Next]_<<edges, call, answer>>
=============================================================================
