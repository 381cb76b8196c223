----------------------------- MODULE Ingestion -----------------------------
(***************************************************************************)
(* Reading an edge file in batches into a graph, and deleting its edges    *)
(* again (src/apps/ingestion.h, src/apps/deletion.h), in three builds:     *)
(*   "btree"       one thread, no deletion;                                *)
(*   "sequential"  NO_CONCURRENT: one thread, ingestion, then deletion;    *)
(*   "parallel"    THREAD_NUM threads per batch, ingestion only.           *)
(* The graph is the set of edges that insert_edge, insert_edge_parallel    *)
(* and delete_edge promise, and a call is one step: EdgeStore and EdgeSet  *)
(* show that the last two builds keep it, and BaselineIngestion lets the   *)
(* graph of the first one run beside the set.                              *)
(*                                                                         *)
(* insert_edge_parallel promises the set to edges that are new only.  One  *)
(* that is there already is found, and the call writes it over another     *)
(* entry (ParallelInsert, FoundFallsThrough).  Here that is one step that  *)
(* may lose an edge of the same source and may leave a node whose two maps *)
(* differ, where every later call of insert_edge_parallel spins.           *)
(***************************************************************************)
EXTENDS Integers, SequencesExt

CONSTANTS
    Lines,          \* the lines of a file: pairs of ids, counted from 1
    MaxLines,       \* bound: the lines of a file
    BATCH_SIZE,
    THREAD_NUM

ASSUME IngestionAssumption ==
    /\ Lines \subseteq (Nat \ {0}) \X (Nat \ {0})
    /\ MaxLines \in Nat
    /\ BATCH_SIZE \in Nat \ {0}
    /\ THREAD_NUM \in Nat \ {0}

VARIABLES
    build, is_directed,
    file, newline,      \* the lines, and whether the last one ends in \n
    phase,              \* "ingestion" or "deletion"
    pc,                 \* "read", "run", "check", "done"
    pos,                \* the lines read so far
    batch,              \* src_vertices and dst_vertices
    batch_id,
    last,               \* the batch is the one behind the loop
    todo,               \* thread -> the positions of the batch left to it
    stored,             \* the edges of the graph
    broken,             \* sources with a node whose bitmap is not its locate_map
    spinning            \* threads in a call on such a node

config == <<build, is_directed, file, newline>>
damage == <<broken, spinning>>
vars == <<config, phase, pc, pos, batch, batch_id, last, todo, stored, damage>>

Thread == 0 .. THREAD_NUM - 1

\* start_from_1, and both directions of an undirected edge.
Edge(line) == <<line[1] - 1, line[2] - 1>>
Turned(e) == <<e[2], e[1]>>
EdgesOfLine(line) ==
    IF is_directed THEN <<Edge(line)>> ELSE <<Edge(line), Turned(Edge(line))>>

\* num_edges / BATCH_SIZE + 1, where num_edges counts both directions.
num_batches == (Len(file) * IF is_directed THEN 1 ELSE 2) \div BATCH_SIZE + 1

\* Positions a .. b - 1, counted from 0 as in the code.
Positions(a, b) == [i \in 1 .. b - a |-> a + i]

\* Mutant (SharesEqual): the last thread takes no more than the others.
\* Threads 0 .. THREAD_NUM - 2 take AVG_NUM positions each, the last the rest;
\* without threads one loop takes all.
SharesEqual(num) ==
    LET avg == num \div THREAD_NUM
    IN  [t \in Thread |-> IF build = "parallel" THEN Positions(t * avg, (t + 1) * avg)
                         ELSE IF t = 0 THEN Positions(0, num) ELSE <<>>]
Shares(num) ==
    LET avg == num \div THREAD_NUM
    IN  [t \in Thread |->
          CASE build # "parallel" -> IF t = 0 THEN Positions(0, num) ELSE <<>>
            [] build = "parallel" /\ t < THREAD_NUM - 1 -> Positions(t * avg, (t + 1) * avg)
            [] OTHER -> Positions(t * avg, num)]

Found(e) == e \in stored

-----------------------------------------------------------------------------
Init ==
    /\ build \in {"btree", "sequential", "parallel"}
    /\ is_directed \in BOOLEAN
    /\ file \in BoundedSeq(Lines, MaxLines)
    /\ newline \in BOOLEAN
    /\ phase = "ingestion" /\ pc = "read" /\ pos = 0
    /\ batch = <<>> /\ batch_id = 0 /\ last = FALSE
    /\ todo = [t \in Thread |-> <<>>]
    /\ stored = {}
    /\ broken = {} /\ spinning = {}

\* The loop's peek: behind the last number of a file without a newline at its
\* end it sees the end of the file, and the line is not stored.
NextLine == pos < Len(file) /\ (pos + 1 = Len(file) => newline)

\* One round of the loop, with the batch it may start.
ReadLine ==
    /\ pc = "read" /\ NextLine
    /\ pos' = pos + 1
    /\ batch' = batch \o EdgesOfLine(file[pos'])
    /\ IF Len(batch') >= BATCH_SIZE /\ batch_id # num_batches - 1
       THEN pc' = "run" /\ todo' = Shares(Len(batch'))
       ELSE UNCHANGED <<pc, todo>>
    /\ UNCHANGED <<config, phase, batch_id, last, stored, damage>>

\* The batch after the loop, which may be empty.
EndOfFile ==
    /\ pc = "read" /\ ~NextLine
    /\ pc' = "run" /\ last' = TRUE
    /\ todo' = Shares(Len(batch))
    /\ UNCHANGED <<config, phase, pos, batch, batch_id, stored, damage>>

\* A thread comes to the next edge of its share.
Inserts(t, e) ==
    /\ pc = "run" /\ phase = "ingestion" /\ todo[t] # <<>> /\ t \notin spinning
    /\ e = batch[Head(todo[t])]

Overwrites(e) == build = "parallel" /\ Found(e)

\* One call of insert_edge or insert_edge_parallel by a thread.
InsertEdge(t) ==
    /\ \E e \in ToSet(batch) : /\ Inserts(t, e)
                               /\ ~Overwrites(e)
                               /\ stored' = stored \cup {e}
    /\ todo' = [todo EXCEPT ![t] = Tail(@)]
    /\ UNCHANGED <<config, phase, pc, pos, batch, batch_id, last, damage>>

\* insert_edge_parallel finds the edge and goes on below its loop: the slot it
\* writes may be another edge's, and it may be one that was not claimed.
FallThrough(t) ==
    /\ \E e \in ToSet(batch) :
          /\ Inserts(t, e)
          /\ Overwrites(e)
          /\ \/ UNCHANGED stored
             \/ \E lost \in stored \ {e} :
                   lost[1] = e[1] /\ stored' = stored \ {lost}
          /\ \/ UNCHANGED broken
             \/ broken' = broken \cup {e[1]}
    /\ todo' = [todo EXCEPT ![t] = Tail(@)]
    /\ UNCHANGED <<config, phase, pc, pos, batch, batch_id, last, spinning>>

\* The way of an edge leads to a node that reads the same maps for ever.
Spin(t) ==
    /\ \E e \in ToSet(batch) : Inserts(t, e) /\ e[1] \in broken
    /\ spinning' = spinning \cup {t}
    /\ UNCHANGED <<config, phase, pc, pos, batch, batch_id, last, todo, stored, broken>>

\* One call of delete_edge.
DeleteEdge(t) ==
    /\ pc = "run" /\ phase = "deletion" /\ todo[t] # <<>>
    /\ todo' = [todo EXCEPT ![t] = Tail(@)]
    /\ stored' = stored \ {batch[Head(todo[t])]}
    /\ UNCHANGED <<config, phase, pc, pos, batch, batch_id, last, damage>>

\* Mutants: only the first thread is joined; an empty batch is waited for.
\* The threads are joined; a build with CHECK looks for the batch's edges.
JoinFirst ==
    /\ pc = "run" /\ todo[0] = <<>>
    /\ pc' = "check"
    /\ batch_id' = batch_id + 1
    /\ UNCHANGED <<config, phase, pos, batch, last, todo, stored, damage>>
JoinNonEmpty ==
    /\ pc = "run" /\ \A t \in Thread : todo[t] = <<>>
    /\ batch # <<>>
    /\ pc' = "check"
    /\ batch_id' = batch_id + 1
    /\ UNCHANGED <<config, phase, pos, batch, last, todo, stored, damage>>
Join ==
    /\ pc = "run" /\ \A t \in Thread : todo[t] = <<>>
    /\ pc' = "check"
    /\ batch_id' = batch_id + 1
    /\ UNCHANGED <<config, phase, pos, batch, last, todo, stored, damage>>

EndBatch ==
    /\ pc = "check"
    /\ batch' = <<>>
    /\ pc' = IF last THEN "done" ELSE "read"
    /\ UNCHANGED <<config, phase, pos, batch_id, last, todo, stored, damage>>

\* test_deletion_performance opens the same file again.
StartDeletion ==
    /\ pc = "done" /\ phase = "ingestion" /\ build = "sequential"
    /\ phase' = "deletion" /\ pc' = "read" /\ pos' = 0
    /\ batch_id' = 0 /\ last' = FALSE
    /\ UNCHANGED <<config, batch, todo, stored, damage>>

Next == \/ ReadLine \/ EndOfFile \/ Join \/ EndBatch \/ StartDeletion
        \/ \E t \in Thread : \/ InsertEdge(t) \/ FallThrough(t) \/ Spin(t)
                             \/ DeleteEdge(t)

\* The program runs to the end of main.
Spec == Init /\ [][Next]_vars /\ WF_vars(Next)

-----------------------------------------------------------------------------
\* The lines of the file, without the one the loop leaves out, and their edges.
FileLines == 1 .. IF newline THEN Len(file) ELSE Len(file) - 1
FileEdges == UNION {ToSet(EdgesOfLine(file[i])) : i \in FileLines}

\* No edge is twice in the file, also as the other direction of an undirected
\* one.
NoEdgeTwice ==
    /\ \A i, j \in FileLines :
          i # j => ToSet(EdgesOfLine(file[i])) \cap ToSet(EdgesOfLine(file[j])) = {}
    /\ is_directed \/ \A i \in FileLines : file[i][1] # file[i][2]

\* The files a build can load: insert_edge looks for the edge first,
\* insert_edge_parallel needs edges that are all different.
Supported == build = "parallel" => NoEdgeTwice

\* At the end the graph has the file's edges and no other, whatever the batch
\* size, the threads' shares and the order in which the edges came; after the
\* deletion of the same file it has none.  (ingestion.h:181-241)
IngestedExact ==
    Supported /\ pc = "done" =>
       stored = IF phase = "ingestion" THEN FileEdges ELSE {}

\* What the CHECK build asserts: after its batch an edge is found, or not found
\* any more.  (ingestion.h:31, deletion.h:21)
BatchFound ==
    Supported /\ pc = "check" =>
       \A e \in ToSet(batch) : Found(e) = (phase = "ingestion")

\* Every supported file is read to its end: no batch waits for a thread for
\* ever.
LoadEnds ==
    Supported => <>[](pc = "done" /\ (build = "sequential" => phase = "deletion"))
=============================================================================
