--------------------------- MODULE MCVertexIndex ---------------------------
(* Small instances of VertexIndex. *)
EXTENDS VertexIndex, TLC

Symmetric == Permutations(Threads)

\* Batches whose edges share their end points, a vertex being source and
\* destination; all ids the index has places for occur.
Batches == {{<<0, 1>>, <<1, 1>>, <<0, 0>>}, {<<0, 1>>, <<1, 0>>, <<0, 0>>}}

\* All edges leave one vertex, whose root node has fewer slots.
Star == {{<<0, 0>>, <<0, 1>>, <<0, 2>>}}
=============================================================================
