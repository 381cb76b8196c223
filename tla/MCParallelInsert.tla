-------------------------- MODULE MCParallelInsert --------------------------
(* Small instances of ParallelInsert. *)
EXTENDS ParallelInsert, TLC

Symmetric == Permutations(Threads)

\* Each edge occurs once in the input.
Once == [k \in Key |-> 1]

\* Some edge occurs twice.
TwiceFirst == [k \in Key |-> IF \A j \in Key : k <= j THEN 2 ELSE 1]
Twice == [k \in Key |-> 2]

\* What a call does after it has found its edge is looked at elsewhere.
UntilFallThrough == ~fellThrough
=============================================================================
