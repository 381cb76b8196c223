---------------------------- MODULE MCIngestion ----------------------------
EXTENDS BaselineIngestion

\* One vertex with an edge to every vertex, itself included, and one edge of
\* another vertex.
MCLines == {<<1, d>> : d \in 1 .. num_vertices} \cup {<<3, 2>>}
=============================================================================
