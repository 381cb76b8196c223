------------------------- MODULE VertexIndexProofs -------------------------
(***************************************************************************)
(* Proofs about VertexIndex, for any number of threads, any size of the    *)
(* vertex array and of the index, and any batches.                         *)
(***************************************************************************)
EXTENDS VertexIndex, FiniteSetTheorems, FunctionTheorems, TLAPS

Publishing == {t \in Threads : pc[t] = "publish"}

\* Where a thread has the spin lock of its vertex, where it knows the entry of
\* its vertex, and where the edge is in the tree of its source.
Locked == {"findAgain", "alloc", "publish", "unlockNew", "unlockOld"}
Known == {"unlockNew", "unlockOld", "setId", "setNumNodes", "setCount",
          "return", "insert", "addNumNodes", "addDegree"}
InTree == {"addNumNodes", "addDegree"}

\* The edges that are in a tree, and those that a degree counts.
Stored == {e \in batch \ todo :
              \A t \in Threads : edge[t] = e => pc[t] \in InTree \cup {"idle"}}
Counted == {e \in batch \ todo :
               \A t \in Threads : edge[t] = e => pc[t] = "idle"}

Of(S, i) == {e \in S : find_vertex(e[1]) = i}


\* A thread's own edge, vertex, lock and entry.
CallInv(t) ==
    pc[t] # "idle" =>
       /\ edge[t] \in batch \ todo
       /\ vertex_id[t] = IF src_index[t] = -1 THEN edge[t][1] ELSE edge[t][2]
       /\ src_index[t] # -1 => src_index[t] = find_vertex(edge[t][1])
       /\ pc[t] \in Locked => flags[vertex_id[t]]
       /\ pc[t] \in {"alloc", "publish"} => find_vertex(vertex_id[t]) = -1
       /\ pc[t] \in Known =>
             entry[t] # -1 /\ entry[t] = find_vertex(vertex_id[t])
       /\ pc[t] \in InTree \cup {"insert"} => src_index[t] # -1

\* No two threads have one lock or one edge.
ApartInv ==
    \A t, u \in Threads : t # u =>
       /\ pc[t] \in Locked /\ pc[u] \in Locked => vertex_id[t] # vertex_id[u]
       /\ pc[t] # "idle" /\ pc[u] # "idle" => edge[t] # edge[u]

\* Each entry below high has one owner, a vertex or a thread that publishes it.
EntryInv ==
    /\ \A v \in Mapped : find_vertex(v) < high
    /\ \A v, w \in Mapped : find_vertex(v) = find_vertex(w) => v = w
    /\ \A t \in Publishing :
          /\ entry[t] \in 0 .. high - 1
          /\ \A v \in Mapped : find_vertex(v) # entry[t]
    /\ \A t, u \in Publishing : entry[t] = entry[u] => t = u
    /\ \A i \in 0 .. high - 1 : \/ \E v \in Mapped : find_vertex(v) = i
                                \/ \E t \in Publishing : entry[t] = i

IndexInv ==
    /\ TypeOK /\ ApartInv /\ EntryInv
    /\ \A t \in Threads : CallInv(t)

\* The id of a mapped entry is set or about to be set.
IdInv ==
    \A v \in Mapped :
       \/ id[find_vertex(v)] = v
       \/ \E t \in Threads :
             pc[t] \in {"unlockNew", "setId"} /\ vertex_id[t] = v

\* The trees hold the edges that their threads have inserted, the degrees
\* count those that are over.
BatchInv ==
    /\ IdInv
    /\ \A e \in Stored : e[1] \in Mapped /\ e[2] \in Mapped
    /\ \A i \in Entry : stored[i] = Cardinality(Of(Stored, i))
    /\ \A i \in Entry : degree[i] = Cardinality(Of(Counted, i))

AllInv == IndexInv /\ BatchInv

-----------------------------------------------------------------------------
(* The parts of IndexInv, each preserved by every step of a thread.       *)

\* The initial state: an empty index, a batch nobody has begun.
LEMMA IndexInit == Init => AllInv
  <1> SUFFICES ASSUME Init PROVE AllInv
    OBVIOUS
  <1> USE ConstantsAssumption DEF Init
  <1>1. /\ Publishing = {} /\ Mapped = {} /\ Stored = {} /\ Counted = {}
        /\ \A t \in Threads : pc[t] = "idle"
    BY DEF Publishing, Mapped, Stored, Counted, find_vertex
  <1>2. TypeOK
    <2>1. /\ p_t_l_mapper \in [Physical -> Entry \cup {-1}]
          /\ flags \in [Physical -> BOOLEAN]
          /\ pc \in [Threads -> PC]
          /\ edge \in [Threads -> batch \cup {<<>>}]
          /\ src_index \in [Threads -> Entry \cup {-1}]
          /\ exited = FALSE
          /\ entry \in [Threads -> Entry \cup {-1}]
      BY Zenon DEF PC
    <2>2. /\ high \in 0 .. num_vertices /\ count \in Entry \cup {0}
          /\ id \in [Entry -> Nat] /\ num_nodes \in [Entry -> Nat]
          /\ degree \in [Entry -> Nat] /\ stored \in [Entry -> Nat]
          /\ nodes \in [Entry -> Nat]
          /\ vertex_id \in [Threads -> Nat]
      OBVIOUS
    <2> QED
      BY <2>1, <2>2 DEF TypeOK
  <1>3. ApartInv /\ EntryInv /\ \A t \in Threads : CallInv(t)
    BY <1>1 DEF ApartInv, EntryInv, CallInv, Locked
  <1>4. \A i \in Entry : Of({}, i) = {} /\ stored[i] = 0 /\ degree[i] = 0
    BY DEF Of
  <1>5. BatchInv
    BY <1>1, <1>4, FS_EmptySet DEF BatchInv, IdInv
  <1> QED
    BY <1>2, <1>3, <1>5 DEF AllInv, IndexInv

\* What a thread with an edge has in its variables.
LEMMA CallFacts ==
    ASSUME IndexInv, NEW t \in Threads, pc[t] # "idle"
    PROVE  /\ edge[t] \in batch \ todo
           /\ edge[t][1] \in Physical /\ edge[t][2] \in Physical
           /\ vertex_id[t] \in Physical
           /\ pc[t] \in Known \cup {"publish"} => entry[t] \in Entry
           /\ pc[t] \in InTree \cup {"insert"} => src_index[t] \in Entry
  <1>1. edge[t] \in batch \ todo /\ batch \subseteq Physical \X Physical
    BY ConstantsAssumption DEF IndexInv, CallInv, TypeOK
  <1>2. edge[t][1] \in Physical /\ edge[t][2] \in Physical
    BY <1>1
  <1>3. vertex_id[t] \in Physical
    BY <1>2 DEF IndexInv, CallInv
  <1>4. pc[t] \in Known => entry[t] \in Entry
    BY <1>3 DEF IndexInv, CallInv, TypeOK, find_vertex
  <1>5. pc[t] = "publish" => entry[t] \in Entry
    BY ConstantsAssumption DEF IndexInv, EntryInv, Publishing, Entry, TypeOK
  <1>6. pc[t] \in InTree \cup {"insert"} => src_index[t] \in Entry
    BY DEF IndexInv, CallInv, TypeOK
  <1> QED
    BY <1>1, <1>2, <1>3, <1>4, <1>5, <1>6

\* A thread that asks for an entry finds one: each entry taken belongs to a
\* vertex, mapped or about to be published, and none of them is the vertex this
\* thread has the lock of.
LEMMA EntryLeft ==
    ASSUME IndexInv, NEW t \in Threads, pc[t] = "alloc"
    PROVE  high < num_vertices
  <1> USE ConstantsAssumption DEF find_vertex
  <1>1. TypeOK /\ ApartInv /\ EntryInv /\ \A u \in Threads : CallInv(u)
    BY DEF IndexInv
  <1>2. /\ vertex_id[t] \in Physical /\ p_t_l_mapper[vertex_id[t]] = -1
        /\ \A u \in Publishing : /\ vertex_id[u] \in Physical
                                 /\ vertex_id[u] # vertex_id[t]
                                 /\ p_t_l_mapper[vertex_id[u]] = -1
    BY <1>1, CallFacts DEF Publishing, ApartInv, Locked, CallInv
  <1> DEFINE Owner(i, v) ==
                \/ v \in Mapped /\ p_t_l_mapper[v] = i
                \/ \E u \in Publishing : entry[u] = i /\ vertex_id[u] = v
             Others == Physical \ {vertex_id[t]}
             f == [i \in 0 .. high - 1 |-> CHOOSE v \in Others : Owner(i, v)]
  <1>3. ASSUME NEW i \in 0 .. high - 1 PROVE \E v \in Others : Owner(i, v)
    <2>1. CASE \E v \in Mapped : p_t_l_mapper[v] = i
      BY <1>2, <2>1 DEF Mapped
    <2>2. CASE \E u \in Publishing : entry[u] = i
      BY <1>2, <2>2
    <2> QED
      BY <1>1, <2>1, <2>2 DEF EntryInv
  <1>4. ASSUME NEW i, NEW j, NEW v, Owner(i, v), Owner(j, v) PROVE i = j
    <2>1. v \in Mapped => p_t_l_mapper[v] # -1
      BY DEF Mapped
    <2>2. \A u, w \in Publishing : vertex_id[u] = vertex_id[w] => u = w
      BY <1>1 DEF ApartInv, Publishing, Locked
    <2> QED
      BY <1>2, <1>4, <2>1, <2>2
  <1>5. \A i \in 0 .. high - 1 : f[i] \in Others /\ Owner(i, f[i])
    BY <1>3
  <1>6. f \in Injection(0 .. high - 1, Others)
    <2>1. f \in [0 .. high - 1 -> Others]
      BY <1>5
    <2>2. \A i, j \in 0 .. high - 1 : f[i] = f[j] => i = j
      <3> HIDE DEF Owner, f, Others
      <3> QED
        BY <1>4, <1>5
    <2> HIDE DEF f, Others
    <2> QED
      BY <2>1, <2>2 DEF Injection, IsInjective
  <1>7. /\ IsFiniteSet(Physical) /\ Cardinality(Physical) = num_vertices
        /\ IsFiniteSet(0 .. high - 1) /\ Cardinality(0 .. high - 1) = high
    <2>1. /\ IsFiniteSet(0 .. num_vertices - 1)
          /\ Cardinality(0 .. num_vertices - 1) = num_vertices
      BY FS_Interval
    <2>2. high \in Nat
      BY <1>1 DEF TypeOK
    <2>3. /\ IsFiniteSet(0 .. high - 1)
          /\ Cardinality(0 .. high - 1) = high
      BY <2>2, FS_Interval
    <2> QED
      BY <2>1, <2>3 DEF Physical
  <1>8. IsFiniteSet(Others) /\ Cardinality(Others) = num_vertices - 1
    BY <1>2, <1>7, FS_RemoveElement
  <1>9. high <= num_vertices - 1
    <2> HIDE DEF f, Others
    <2>1. Cardinality(0 .. high - 1) <= Cardinality(Others)
      BY <1>6, <1>8, FS_Injection
    <2> QED
      BY <1>7, <1>8, <2>1
  <1> QED
    BY <1>1, <1>9 DEF TypeOK

\* The types.
LEMMA TypeStep ==
    ASSUME IndexInv, NEW t \in Threads, ThreadStep(t)
    PROVE  TypeOK'
  <1> USE ConstantsAssumption
      DEF Goto, arrayVars, treeVars, find_vertex
  <1>0. ~exited /\ batch' = batch
    BY DEF ThreadStep
  <1>1. TypeOK
    BY DEF IndexInv
  <1>a. \A v : v \in Physical => v \in Nat
    BY DEF Physical
  <1>2. pc[t] # "idle" =>
           /\ edge[t][1] \in Physical /\ edge[t][2] \in Physical
           /\ vertex_id[t] \in Physical
           /\ pc[t] \in Known \cup {"publish"} => entry[t] \in Entry
           /\ pc[t] \in InTree \cup {"insert"} => src_index[t] \in Entry
    BY <1>0, CallFacts
  <1> USE DEF TypeOK, Known, InTree
  <1>3. CASE TakeEdge(t)
    <2>1. PICK e \in todo : /\ todo' = todo \ {e}
                           /\ edge' = [edge EXCEPT ![t] = e]
                           /\ vertex_id' = [vertex_id EXCEPT ![t] = e[1]]
      BY <1>3 DEF TakeEdge
    <2>2. e \in batch /\ e[1] \in Nat
      BY <1>1, <1>a, ConstantsAssumption
    <2>3. /\ edge' \in [Threads -> batch \cup {<<>>}] /\ todo' \subseteq batch
          /\ vertex_id' \in [Threads -> Nat]
      BY <1>1, <2>1, <2>2
    <2>4. /\ src_index' \in [Threads -> Entry \cup {-1}]
          /\ entry' \in [Threads -> Entry \cup {-1}]
      BY <1>1, <1>3 DEF TakeEdge
    <2>5. pc' \in [Threads -> PC]
      BY <1>1, <1>3 DEF TakeEdge, PC
    <2> QED
      BY <1>0, <1>1, <1>3, <2>3, <2>4, <2>5 DEF TakeEdge
  <1>4. CASE Find(t)
    <2>1. pc' \in [Threads -> PC]
      BY <1>1, <1>4 DEF Find, PC
    <2>2. entry' \in [Threads -> Entry \cup {-1}]
      BY <1>0, <1>1, <1>2, <1>4 DEF Find
    <2> QED
      BY <1>0, <1>1, <1>4, <2>1, <2>2 DEF Find
  <1>5. CASE Lock(t)
    <2>1. pc' \in [Threads -> PC]
      BY <1>1, <1>5 DEF Lock, PC
    <2>2. flags' \in [Physical -> BOOLEAN]
      BY <1>0, <1>1, <1>2, <1>5 DEF Lock, Entry
    <2> QED
      BY <1>0, <1>1, <1>5, <2>1, <2>2 DEF Lock
  <1>6. CASE FindAgain(t)
    <2>1. pc' \in [Threads -> PC]
      BY <1>1, <1>6 DEF FindAgain, PC
    <2>2. entry' \in [Threads -> Entry \cup {-1}]
      BY <1>0, <1>1, <1>2, <1>6 DEF FindAgain
    <2> QED
      BY <1>0, <1>1, <1>6, <2>1, <2>2 DEF FindAgain
  <1>7. CASE AllocEntry(t)
    <2>1. pc' \in [Threads -> PC]
      BY <1>1, <1>7 DEF AllocEntry, PC
    <2>0. high < num_vertices
      BY <1>7, EntryLeft DEF AllocEntry
    <2>2. entry' \in [Threads -> Entry \cup {-1}]
      BY <1>0, <1>1, <1>2, <1>7, <2>0 DEF AllocEntry, Entry
    <2>3. high' \in 0 .. num_vertices
      BY <1>0, <1>1, <1>2, <1>7, <2>0 DEF AllocEntry
    <2>4. flags' \in [Physical -> BOOLEAN] /\ exited' = FALSE
      BY <1>0, <1>1, <1>2, <1>7, <2>0 DEF AllocEntry
    <2> QED
      BY <1>0, <1>1, <1>7, <2>1, <2>2, <2>3, <2>4 DEF AllocEntry
  <1>8. CASE Publish(t)
    <2>1. pc' \in [Threads -> PC]
      BY <1>1, <1>8 DEF Publish, PC
    <2>2. p_t_l_mapper' \in [Physical -> Entry \cup {-1}]
      BY <1>0, <1>1, <1>2, <1>8 DEF Publish, Entry
    <2> QED
      BY <1>0, <1>1, <1>8, <2>1, <2>2 DEF Publish
  <1>9. CASE Unlock(t)
    <2>1. pc' \in [Threads -> PC]
      BY <1>1, <1>9 DEF Unlock, PC
    <2>2. flags' \in [Physical -> BOOLEAN]
      BY <1>0, <1>1, <1>2, <1>9 DEF Unlock, Entry
    <2> QED
      BY <1>0, <1>1, <1>9, <2>1, <2>2 DEF Unlock
  <1>10. CASE SetId(t)
    <2>1. pc' \in [Threads -> PC]
      BY <1>1, <1>10 DEF SetId, PC
    <2>2. id' \in [Entry -> Nat]
      BY <1>0, <1>1, <1>2, <1>10 DEF SetId, Entry
    <2> QED
      BY <1>0, <1>1, <1>10, <2>1, <2>2 DEF SetId
  <1>11. CASE SetNumNodes(t)
    <2>1. pc' \in [Threads -> PC]
      BY <1>1, <1>11 DEF SetNumNodes, PC
    <2>2. num_nodes' \in [Entry -> Nat]
      BY <1>0, <1>1, <1>2, <1>11 DEF SetNumNodes, Entry
    <2> QED
      BY <1>0, <1>1, <1>11, <2>1, <2>2 DEF SetNumNodes
  <1>12. CASE SetCount(t)
    <2>1. pc' \in [Threads -> PC]
      BY <1>1, <1>12 DEF SetCount, PC
    <2>2. count' \in Entry \cup {0}
      BY <1>0, <1>1, <1>2, <1>12 DEF SetCount
    <2> QED
      BY <1>0, <1>1, <1>12, <2>1, <2>2 DEF SetCount
  <1>13. CASE Return(t)
    <2>1. entry[t] \in Entry /\ edge[t][2] \in Nat
      BY <1>2, <1>a, <1>13, ConstantsAssumption DEF Return
    <2>2. pc' \in [Threads -> PC]
      BY <1>1, <1>13 DEF Return, PC
    <2>3. src_index' \in [Threads -> Entry \cup {-1}]
      BY <1>0, <1>1, <2>1, <1>13, ConstantsAssumption DEF Return, Entry
    <2>4. vertex_id' \in [Threads -> Nat]
      BY <1>0, <1>1, <2>1, <1>13, ConstantsAssumption DEF Return, Entry
    <2> QED
      BY <1>0, <1>1, <1>13, <2>1, <2>2, <2>3, <2>4 DEF Return
  <1>14. CASE InsertEdge(t)
    <2>1. src_index[t] \in Entry
      BY <1>2, <1>14, ConstantsAssumption DEF InsertEdge
    <2>2. pc' \in [Threads -> PC]
      BY <1>1, <1>14 DEF InsertEdge, PC
    <2>3. stored' \in [Entry -> Nat]
      <3>1. stored' = [stored EXCEPT ![src_index[t]] = @ + 1]
        BY <1>14 DEF InsertEdge
      <3> QED
        BY <1>1, <2>1, <3>1
    <2>4. \/ nodes' = nodes
          \/ nodes' = [nodes EXCEPT ![src_index[t]] = @ + NUM_BRANCH]
      BY <1>14 DEF InsertEdge
    <2>5. nodes[src_index[t]] + NUM_BRANCH \in Nat
      BY <1>1, <2>1, ConstantsAssumption
    <2>6. nodes' \in [Entry -> Nat]
      BY <1>1, <2>4, <2>5
    <2> QED
      BY <1>0, <1>1, <1>14, <2>1, <2>2, <2>3, <2>4, <2>5, <2>6 DEF InsertEdge
  <1>15. CASE AddNumNodes(t)
    <2>1. src_index[t] \in Entry
      BY <1>2, <1>15, ConstantsAssumption DEF AddNumNodes
    <2>2. pc' \in [Threads -> PC]
      BY <1>1, <1>15 DEF AddNumNodes, PC
    <2>3. num_nodes' \in [Entry -> Nat]
      BY <1>0, <1>1, <2>1, <1>15, ConstantsAssumption DEF AddNumNodes
    <2> QED
      BY <1>0, <1>1, <1>15, <2>1, <2>2, <2>3 DEF AddNumNodes
  <1>16. CASE AddDegree(t)
    <2>1. src_index[t] \in Entry
      BY <1>2, <1>16, ConstantsAssumption DEF AddDegree
    <2>2. pc' \in [Threads -> PC]
      BY <1>1, <1>16 DEF AddDegree, PC
    <2>3. degree' \in [Entry -> Nat]
      BY <1>0, <1>1, <2>1, <1>16, ConstantsAssumption DEF AddDegree
    <2> QED
      BY <1>0, <1>1, <1>16, <2>1, <2>2, <2>3 DEF AddDegree
  <1> QED
    BY <1>3, <1>4, <1>5, <1>6, <1>7, <1>8, <1>9, <1>10, <1>11, <1>12, <1>13,
        <1>14, <1>15, <1>16 DEF ThreadStep

\* A step of t changes no other thread's variables.
LEMMA OthersFrame ==
    ASSUME IndexInv, NEW t \in Threads, ThreadStep(t),
           NEW u \in Threads, u # t
    PROVE  /\ pc'[u] = pc[u] /\ edge'[u] = edge[u]
           /\ vertex_id'[u] = vertex_id[u]
           /\ entry'[u] = entry[u] /\ src_index'[u] = src_index[u]
  <1> USE ConstantsAssumption
      DEF Goto, TypeOK
  <1>0. ~exited /\ batch' = batch
    BY DEF ThreadStep
  <1>t. TypeOK
    BY DEF IndexInv
  <1>1. CASE TakeEdge(t)
    BY <1>0, <1>t, <1>1 DEF TakeEdge
  <1>2. CASE Find(t)
    BY <1>0, <1>t, <1>2 DEF Find
  <1>3. CASE Lock(t)
    BY <1>0, <1>t, <1>3 DEF Lock
  <1>4. CASE FindAgain(t)
    BY <1>0, <1>t, <1>4 DEF FindAgain
  <1>5. CASE AllocEntry(t)
    BY <1>0, <1>t, <1>5 DEF AllocEntry
  <1>6. CASE Publish(t)
    BY <1>0, <1>t, <1>6 DEF Publish
  <1>7. CASE Unlock(t)
    BY <1>0, <1>t, <1>7 DEF Unlock
  <1>8. CASE SetId(t)
    BY <1>0, <1>t, <1>8 DEF SetId
  <1>9. CASE SetNumNodes(t)
    BY <1>0, <1>t, <1>9 DEF SetNumNodes
  <1>10. CASE SetCount(t)
    BY <1>0, <1>t, <1>10 DEF SetCount
  <1>11. CASE Return(t)
    BY <1>0, <1>t, <1>11 DEF Return
  <1>12. CASE InsertEdge(t)
    BY <1>0, <1>t, <1>12 DEF InsertEdge
  <1>13. CASE AddNumNodes(t)
    BY <1>0, <1>t, <1>13 DEF AddNumNodes
  <1>14. CASE AddDegree(t)
    BY <1>0, <1>t, <1>14 DEF AddDegree
  <1> QED
    BY <1>1, <1>2, <1>3, <1>4, <1>5, <1>6, <1>7, <1>8, <1>9, <1>10, <1>11,
        <1>12, <1>13, <1>14 DEF ThreadStep

\* What a step of t changes of the index and of the locks.
LEMMA SharedFrame ==
    ASSUME IndexInv, NEW t \in Threads, ThreadStep(t)
    PROVE  /\ todo' \subseteq todo
           /\ \A v \in Physical : flags[v] /\ ~flags'[v] =>
                 v = vertex_id[t] /\ pc[t] \in Locked
           /\ \A v \in Physical : find_vertex(v)' # find_vertex(v) =>
                 /\ pc[t] = "publish" /\ v = vertex_id[t]
                 /\ find_vertex(v) = -1
  <1> USE ConstantsAssumption
      DEF Goto, TypeOK, find_vertex, Locked
  <1>0. ~exited /\ batch' = batch
    BY DEF ThreadStep
  <1>t. TypeOK
    BY DEF IndexInv
  <1>1. CASE TakeEdge(t)
    BY <1>0, <1>t, <1>1 DEF TakeEdge
  <1>2. CASE Find(t)
    BY <1>0, <1>t, <1>2 DEF Find
  <1>3. CASE Lock(t)
    BY <1>0, <1>t, <1>3 DEF Lock
  <1>4. CASE FindAgain(t)
    BY <1>0, <1>t, <1>4 DEF FindAgain
  <1>5. CASE AllocEntry(t)
    BY <1>0, <1>t, <1>5 DEF AllocEntry
  <1>6. CASE Publish(t)
    <2>1. find_vertex(vertex_id[t]) = -1
      BY <1>0, <1>6 DEF Publish, IndexInv, CallInv
    <2> QED
      BY <1>t, <1>6, <2>1 DEF Publish
  <1>7. CASE Unlock(t)
    BY <1>0, <1>t, <1>7 DEF Unlock
  <1>8. CASE SetId(t)
    BY <1>0, <1>t, <1>8 DEF SetId
  <1>9. CASE SetNumNodes(t)
    BY <1>0, <1>t, <1>9 DEF SetNumNodes
  <1>10. CASE SetCount(t)
    BY <1>0, <1>t, <1>10 DEF SetCount
  <1>11. CASE Return(t)
    BY <1>0, <1>t, <1>11 DEF Return
  <1>12. CASE InsertEdge(t)
    BY <1>0, <1>t, <1>12 DEF InsertEdge
  <1>13. CASE AddNumNodes(t)
    BY <1>0, <1>t, <1>13 DEF AddNumNodes
  <1>14. CASE AddDegree(t)
    BY <1>0, <1>t, <1>14 DEF AddDegree
  <1> QED
    BY <1>1, <1>2, <1>3, <1>4, <1>5, <1>6, <1>7, <1>8, <1>9, <1>10, <1>11,
        <1>12, <1>13, <1>14 DEF ThreadStep

\* What each thread knows of its own call: the index only grows, and the lock
\* of a vertex keeps other threads from entering it.
LEMMA CallStep ==
    ASSUME IndexInv, NEW t \in Threads, ThreadStep(t), NEW u \in Threads
    PROVE  CallInv(u)'
  <1>1. /\ ~exited /\ TypeOK /\ CallInv(t) /\ CallInv(u) /\ ApartInv
        /\ batch' = batch
    BY DEF IndexInv, ThreadStep
  <1>2. pc[t] # "idle" =>
           /\ edge[t][1] \in Physical /\ edge[t][2] \in Physical
           /\ vertex_id[t] \in Physical
           /\ pc[t] \in Known \cup {"publish"} => entry[t] \in Entry
           /\ pc[t] \in InTree \cup {"insert"} => src_index[t] \in Entry
    BY <1>1, CallFacts
  <1>3. CASE u # t
    <2> SUFFICES ASSUME pc[u] # "idle" PROVE CallInv(u)'
      BY <1>3, OthersFrame DEF CallInv
    <2>1. /\ pc'[u] = pc[u] /\ edge'[u] = edge[u]
          /\ vertex_id'[u] = vertex_id[u]
          /\ entry'[u] = entry[u] /\ src_index'[u] = src_index[u]
      BY <1>3, OthersFrame
    <2>2. /\ edge[u][1] \in Physical /\ edge[u][2] \in Physical
          /\ vertex_id[u] \in Physical
      BY <1>1, CallFacts
    <2>3. edge'[u] \in batch' \ todo'
      BY <1>1, <2>1, SharedFrame DEF CallInv
    <2>4. src_index[u] # -1 => src_index[u] = find_vertex(edge[u][1])'
      BY <1>1, <2>1, <2>2, SharedFrame DEF CallInv
    <2>5. pc[u] \in Locked => flags'[vertex_id[u]]
      BY <1>1, <1>3, <2>2, SharedFrame DEF CallInv, ApartInv
    <2>6. pc[u] \in {"alloc", "publish"} => find_vertex(vertex_id[u])' = -1
      <3> SUFFICES ASSUME pc[u] \in {"alloc", "publish"}
                   PROVE  find_vertex(vertex_id[u])' = -1
        OBVIOUS
      <3>1. find_vertex(vertex_id[u]) = -1 /\ pc[u] \in Locked
        BY <1>1 DEF CallInv, Locked
      <3>2. ~(pc[t] = "publish" /\ vertex_id[u] = vertex_id[t])
        BY <1>1, <1>3, <3>1 DEF ApartInv, Locked
      <3> QED
        BY <2>1, <2>2, <3>1, <3>2, SharedFrame
    <2>7. pc[u] \in Known =>
             entry[u] # -1 /\ entry[u] = find_vertex(vertex_id[u])'
      BY <1>1, <2>1, <2>2, SharedFrame DEF CallInv
    <2> QED
      BY <1>1, <2>1, <2>3, <2>4, <2>5, <2>6, <2>7 DEF CallInv
  <1>4. CASE u = t
    <2> SUFFICES CallInv(t)'
      BY <1>4
    <2> USE ConstantsAssumption
        DEF Goto, TypeOK, find_vertex, CallInv, Locked, Known, InTree
    <2>1. CASE TakeEdge(t)
      BY <1>1, <1>2, <2>1 DEF TakeEdge
    <2>2. CASE Find(t)
      BY <1>1, <1>2, <2>2 DEF Find
    <2>3. CASE Lock(t)
      BY <1>1, <1>2, <2>3 DEF Lock
    <2>4. CASE FindAgain(t)
      BY <1>1, <1>2, <2>4 DEF FindAgain
    <2>5. CASE AllocEntry(t)
      <3>1. high < num_vertices
        BY <2>5, EntryLeft DEF AllocEntry
      <3> QED
        BY <1>1, <1>2, <2>5, <3>1 DEF AllocEntry
    <2>6. CASE Publish(t)
      <3>1. /\ pc[t] = "publish" /\ pc'[t] = "unlockNew"
            /\ p_t_l_mapper' = [p_t_l_mapper EXCEPT ![vertex_id[t]] = entry[t]]
            /\ UNCHANGED <<flags, edge, vertex_id, entry, src_index, todo>>
        BY <1>1, <2>6 DEF Publish
      <3>2. /\ vertex_id[t] \in Physical /\ edge[t][1] \in Physical
            /\ entry[t] \in Entry /\ entry[t] # -1
        BY <1>2, <3>1 DEF Entry
      <3>3. p_t_l_mapper'[vertex_id[t]] = entry[t]
        BY <1>1, <3>1, <3>2
      <3>4. src_index[t] # -1 => src_index[t] = p_t_l_mapper'[edge[t][1]]
        BY <1>1, <3>1, <3>2
      <3> QED
        BY <1>1, <3>1, <3>2, <3>3, <3>4
    <2>7. CASE Unlock(t)
      BY <1>1, <1>2, <2>7 DEF Unlock
    <2>8. CASE SetId(t)
      BY <1>1, <1>2, <2>8 DEF SetId
    <2>9. CASE SetNumNodes(t)
      BY <1>1, <1>2, <2>9 DEF SetNumNodes
    <2>10. CASE SetCount(t)
      BY <1>1, <1>2, <2>10 DEF SetCount
    <2>11. CASE Return(t)
      <3>1. /\ pc[t] = "return" /\ entry[t] # -1
            /\ entry[t] = p_t_l_mapper[vertex_id[t]]
            /\ UNCHANGED <<p_t_l_mapper, flags, edge, entry, todo>>
        BY <1>1, <2>11 DEF Return
      <3>2. CASE src_index[t] = -1
        <4>1. /\ pc'[t] = "find" /\ src_index'[t] = entry[t]
              /\ vertex_id'[t] = edge[t][2]
          BY <1>1, <2>11, <3>2 DEF Return
        <4> QED
          BY <1>1, <3>1, <3>2, <4>1
      <3>3. CASE src_index[t] # -1
        <4>1. pc'[t] = "insert" /\ UNCHANGED <<src_index, vertex_id>>
          BY <1>1, <2>11, <3>3 DEF Return
        <4> QED
          BY <1>1, <3>1, <3>3, <4>1
      <3> QED
        BY <3>2, <3>3
    <2>12. CASE InsertEdge(t)
      BY <1>1, <1>2, <2>12 DEF InsertEdge
    <2>13. CASE AddNumNodes(t)
      BY <1>1, <1>2, <2>13 DEF AddNumNodes
    <2>14. CASE AddDegree(t)
      BY <1>1, <1>2, <2>14 DEF AddDegree
    <2> QED
      BY <2>1, <2>2, <2>3, <2>4, <2>5, <2>6, <2>7, <2>8, <2>9, <2>10, <2>11,
          <2>12, <2>13, <2>14 DEF ThreadStep
  <1> QED
    BY <1>3, <1>4

\* Locks and edges are taken by one thread only.
LEMMA ApartStep ==
    ASSUME IndexInv, NEW t \in Threads, ThreadStep(t)
    PROVE  ApartInv'
  <1>1. /\ ~exited /\ TypeOK /\ ApartInv
        /\ \A u \in Threads : CallInv(u)
    BY DEF IndexInv, ThreadStep
  <1>2. ASSUME NEW u \in Threads, u # t, pc'[t] \in Locked, pc[u] \in Locked
        PROVE  vertex_id'[t] # vertex_id[u]
    <2>1. CASE pc[t] \in Locked /\ vertex_id'[t] = vertex_id[t]
      BY <1>1, <1>2, <2>1 DEF ApartInv
    <2>2. CASE Lock(t)
      BY <1>1, <1>2, <2>2 DEF Lock, Locked, CallInv, TypeOK
    <2> QED
      BY <1>1, <1>2, <2>1, <2>2
      DEF ThreadStep, Goto, Locked, TypeOK, TakeEdge, Find, FindAgain,
          AllocEntry, Publish, Unlock, SetId, SetNumNodes, SetCount, Return,
          InsertEdge, AddNumNodes, AddDegree
  <1>3. ASSUME NEW u \in Threads, u # t, pc'[t] # "idle", pc[u] # "idle"
        PROVE  edge'[t] # edge[u]
    <2>1. CASE pc[t] # "idle" /\ edge'[t] = edge[t]
      BY <1>1, <1>3, <2>1 DEF ApartInv
    <2>2. CASE TakeEdge(t)
      <3>1. PICK e \in todo : edge' = [edge EXCEPT ![t] = e]
        BY <2>2 DEF TakeEdge
      <3> QED
        BY <1>1, <1>3, <3>1 DEF CallInv, TypeOK
    <2> QED
      BY <1>1, <1>3, <2>1, <2>2
      DEF ThreadStep, Goto, Lock, Find, FindAgain, AllocEntry, Publish, Unlock,
          SetId, SetNumNodes, SetCount, Return, InsertEdge, AddNumNodes,
          AddDegree
  <1>4. \A u \in Threads : u # t =>
           /\ pc'[u] = pc[u] /\ edge'[u] = edge[u]
           /\ vertex_id'[u] = vertex_id[u]
    BY OthersFrame
  <1> QED
    BY <1>1, <1>2, <1>3, <1>4 DEF ApartInv

\* Entries get one owner each, in the order of high.
LEMMA EntryStep ==
    ASSUME IndexInv, NEW t \in Threads, ThreadStep(t)
    PROVE  EntryInv'
  <1> USE ConstantsAssumption DEF find_vertex
  <1>1. ~exited /\ TypeOK /\ ApartInv /\ EntryInv /\ CallInv(t)
    BY DEF IndexInv, ThreadStep
  <1>2. \A u \in Threads : u # t => pc'[u] = pc[u] /\ entry'[u] = entry[u]
    BY OthersFrame
  <1>3. CASE AllocEntry(t)
    <2>1. /\ pc[t] = "alloc" /\ pc'[t] = "publish"
          /\ high' = high + 1 /\ entry'[t] = high
          /\ p_t_l_mapper' = p_t_l_mapper
      BY <1>1, <1>3 DEF AllocEntry, Goto, TypeOK
    <2>2. Mapped' = Mapped
      BY <2>1 DEF Mapped
    <2>3. Publishing' = Publishing \cup {t} /\ t \notin Publishing
      BY <1>2, <2>1 DEF Publishing
    <2>4. \A u \in Publishing :
             entry'[u] = entry[u] /\ entry[u] \in 0 .. high - 1
      BY <1>1, <1>2, <2>3 DEF EntryInv, Publishing
    <2>5. high \in Nat /\ \A v \in Mapped : p_t_l_mapper[v] < high
      BY <1>1 DEF EntryInv, TypeOK
    <2>6. \A v \in Mapped : p_t_l_mapper[v] \in Nat
      BY <1>1 DEF Mapped, TypeOK, Entry
    <2>7. \A i \in 0 .. high : i # high => i \in 0 .. high - 1
      BY <2>5
    <2> QED
      BY <1>1, <2>1, <2>2, <2>3, <2>4, <2>5, <2>6, <2>7 DEF EntryInv
  <1>4. CASE Publish(t)
    <2> DEFINE v == vertex_id[t]
    <2>1. /\ pc[t] = "publish" /\ pc'[t] = "unlockNew" /\ high' = high
          /\ entry' = entry /\ t \in Publishing
          /\ p_t_l_mapper' = [p_t_l_mapper EXCEPT ![v] = entry[t]]
      BY <1>1, <1>4 DEF Publish, Goto, TypeOK, Publishing
    <2>2. v \in Physical /\ entry[t] \in Entry /\ entry[t] # -1
      BY <1>1, <2>1, CallFacts DEF Entry
    <2>3. p_t_l_mapper[v] = -1
      BY <1>1, <2>1 DEF CallInv
    <2>4. Mapped' = Mapped \cup {v} /\ v \notin Mapped
      BY <1>1, <2>1, <2>2, <2>3 DEF Mapped, TypeOK
    <2>5. p_t_l_mapper'[v] = entry[t]
          /\ \A w \in Mapped : p_t_l_mapper'[w] = p_t_l_mapper[w]
      BY <1>1, <2>1, <2>2, <2>3 DEF Mapped, TypeOK
    <2>6. Publishing' = Publishing \ {t}
      BY <1>2, <2>1 DEF Publishing
    <2>7. /\ entry[t] \in 0 .. high - 1 /\ high \in Nat
          /\ \A w \in Mapped : p_t_l_mapper[w] # entry[t]
          /\ \A u \in Publishing \ {t} : entry[u] # entry[t]
      BY <1>1, <2>1 DEF EntryInv, TypeOK
    <2> HIDE DEF v
    <2> QED
      BY <1>1, <2>1, <2>4, <2>5, <2>6, <2>7 DEF EntryInv
  <1>5. CASE ~AllocEntry(t) /\ ~Publish(t)
    <2>1. high' = high /\ p_t_l_mapper' = p_t_l_mapper
      BY <1>5
      DEF ThreadStep, TakeEdge, Find, Lock, FindAgain, Unlock, SetId,
          SetNumNodes, SetCount, Return, InsertEdge, AddNumNodes, AddDegree
    <2>2. pc[t] # "publish" /\ pc'[t] # "publish"
      BY <1>1, <1>5
      DEF ThreadStep, Goto, TypeOK, TakeEdge, Find, Lock, FindAgain, Unlock,
          SetId, SetNumNodes, SetCount, Return, InsertEdge, AddNumNodes,
          AddDegree
    <2>3. Mapped' = Mapped
      BY <2>1 DEF Mapped
    <2>4. /\ Publishing' = Publishing
          /\ \A u \in Publishing : entry'[u] = entry[u]
      BY <1>2, <2>2 DEF Publishing
    <2> QED
      BY <1>1, <2>1, <2>3, <2>4 DEF EntryInv
  <1> QED
    BY <1>3, <1>4, <1>5


\* IndexInv is inductive.
LEMMA IndexStep == IndexInv /\ [Next]_vars => IndexInv'
  <1>1. ASSUME IndexInv, NEW t \in Threads, ThreadStep(t) PROVE IndexInv'
    BY <1>1, TypeStep, CallStep, ApartStep, EntryStep DEF IndexInv
  <1>2. ASSUME IndexInv, UNCHANGED vars PROVE IndexInv'
    BY <1>2
    DEF vars, IndexInv, TypeOK, CallInv, ApartInv, EntryInv, Mapped,
        Publishing, find_vertex
  <1> QED
    BY <1>1, <1>2 DEF Next, Terminated

-----------------------------------------------------------------------------
(* The edges that are stored and counted.                                  *)

\* A thread's edge is in the tree after InsertEdge, and no other edge's state
\* changes.
LEMMA StoredStep ==
    ASSUME IndexInv, NEW t \in Threads, ThreadStep(t)
    PROVE  /\ InsertEdge(t) => Stored' = Stored \cup {edge[t]}
           /\ ~InsertEdge(t) => Stored' = Stored
           /\ pc[t] = "insert" => edge[t] \notin Stored
  <1> USE DEF Stored, InTree
  <1>1. /\ ~exited /\ TypeOK /\ CallInv(t) /\ ApartInv /\ batch' = batch
    BY DEF IndexInv, ThreadStep
  <1>2. \A u \in Threads : u # t => pc'[u] = pc[u] /\ edge'[u] = edge[u]
    BY OthersFrame
  <1>3. pc[t] = "insert" => edge[t] \notin Stored
    BY Zenon
  <1>4. CASE InsertEdge(t)
    <2>1. /\ pc[t] = "insert" /\ pc'[t] \in {"addNumNodes", "addDegree"}
          /\ edge' = edge /\ todo' = todo
      BY <1>1, <1>4 DEF InsertEdge, Goto, TypeOK
    <2>2. edge[t] \in batch \ todo
      BY <1>1, <2>1 DEF CallInv
    <2>3. \A u \in Threads : u # t /\ edge[u] = edge[t] => pc[u] = "idle"
      BY <1>1, <2>1 DEF ApartInv
    <2> QED
      BY <1>1, <1>2, <1>3, <1>4, <2>1, <2>2, <2>3
  <1>5. CASE TakeEdge(t)
    <2>1. PICK e \in todo : /\ todo' = todo \ {e}
                            /\ edge' = [edge EXCEPT ![t] = e]
      BY <1>5 DEF TakeEdge
    <2>2. pc[t] = "idle" /\ pc'[t] = "find" /\ edge'[t] = e
      BY <1>1, <1>5, <2>1 DEF TakeEdge, Goto, TypeOK
    <2>3. ~InsertEdge(t)
      BY <2>2 DEF InsertEdge
    <2>4. Stored' = Stored
      BY <1>1, <1>2, <2>1, <2>2
    <2> QED
      BY <1>3, <2>3, <2>4
  <1>6. CASE ~InsertEdge(t) /\ ~TakeEdge(t)
    <2>1. edge' = edge /\ todo' = todo
      BY <1>6
      DEF ThreadStep, Find, Lock, FindAgain, AllocEntry, Publish, Unlock,
          SetId, SetNumNodes, SetCount, Return, AddNumNodes, AddDegree
    <2>2. pc'[t] \in InTree \cup {"idle"} <=> pc[t] \in InTree \cup {"idle"}
      BY <1>1, <1>6
      DEF ThreadStep, Goto, TypeOK, Find, Lock, FindAgain, AllocEntry, Publish,
          Unlock, SetId, SetNumNodes, SetCount, Return, AddNumNodes, AddDegree
    <2> QED
      BY <1>1, <1>2, <1>3, <1>6, <2>1, <2>2
  <1> QED
    BY <1>4, <1>5, <1>6

\* The same of AddDegree.
LEMMA CountedStep ==
    ASSUME IndexInv, NEW t \in Threads, ThreadStep(t)
    PROVE  /\ AddDegree(t) => Counted' = Counted \cup {edge[t]}
           /\ ~AddDegree(t) => Counted' = Counted
           /\ pc[t] = "addDegree" => edge[t] \notin Counted
  <1> USE DEF Counted
  <1>1. /\ ~exited /\ TypeOK /\ CallInv(t) /\ ApartInv /\ batch' = batch
    BY DEF IndexInv, ThreadStep
  <1>2. \A u \in Threads : u # t => pc'[u] = pc[u] /\ edge'[u] = edge[u]
    BY OthersFrame
  <1>3. pc[t] = "addDegree" => edge[t] \notin Counted
    BY Zenon
  <1>4. CASE AddDegree(t)
    <2>1. /\ pc[t] = "addDegree" /\ pc'[t] = "idle"
          /\ edge' = edge /\ todo' = todo
      BY <1>1, <1>4 DEF AddDegree, Goto, TypeOK
    <2>2. edge[t] \in batch \ todo
      BY <1>1, <2>1 DEF CallInv
    <2>3. \A u \in Threads : u # t /\ edge[u] = edge[t] => pc[u] = "idle"
      BY <1>1, <2>1 DEF ApartInv
    <2> QED
      BY <1>1, <1>2, <1>3, <1>4, <2>1, <2>2, <2>3
  <1>5. CASE TakeEdge(t)
    <2>1. PICK e \in todo : /\ todo' = todo \ {e}
                            /\ edge' = [edge EXCEPT ![t] = e]
      BY <1>5 DEF TakeEdge
    <2>2. pc[t] = "idle" /\ pc'[t] = "find" /\ edge'[t] = e
      BY <1>1, <1>5, <2>1 DEF TakeEdge, Goto, TypeOK
    <2>3. ~AddDegree(t)
      BY <2>2 DEF AddDegree, Goto
    <2>4. Counted' = Counted
      BY <1>1, <1>2, <2>1, <2>2
    <2> QED
      BY <1>3, <2>3, <2>4
  <1>6. CASE ~AddDegree(t) /\ ~TakeEdge(t)
    <2>1. edge' = edge /\ todo' = todo
      BY <1>6
      DEF ThreadStep, Find, Lock, FindAgain, AllocEntry, Publish, Unlock,
          SetId, SetNumNodes, SetCount, Return, InsertEdge, AddNumNodes
    <2>2. pc'[t] = "idle" <=> pc[t] = "idle"
      BY <1>1, <1>6
      DEF ThreadStep, Goto, TypeOK, Find, Lock, FindAgain, AllocEntry, Publish,
          Unlock, SetId, SetNumNodes, SetCount, Return, InsertEdge, AddNumNodes
    <2> QED
      BY <1>1, <1>2, <1>3, <1>6, <2>1, <2>2
  <1> QED
    BY <1>4, <1>5, <1>6

\* The ids of the entries, and the edges stored and counted per entry.
LEMMA BatchStep ==
    ASSUME IndexInv, BatchInv, NEW t \in Threads, ThreadStep(t)
    PROVE  BatchInv'
  <1> USE ConstantsAssumption
  <1>1. /\ ~exited /\ TypeOK /\ CallInv(t) /\ EntryInv /\ batch' = batch
    BY DEF IndexInv, ThreadStep
  <1>2. \A u \in Threads :
           u # t => pc'[u] = pc[u] /\ vertex_id'[u] = vertex_id[u]
    BY OthersFrame
  <1>3. \A v \in Mapped : v \in Mapped' /\ find_vertex(v)' = find_vertex(v)
    BY SharedFrame DEF Mapped
  <1>4. IdInv'
    <2> SUFFICES ASSUME NEW v \in Mapped'
                 PROVE  \/ id'[find_vertex(v)'] = v
                        \/ \E u \in Threads :
                              /\ pc'[u] \in {"unlockNew", "setId"}
                              /\ vertex_id'[u] = v
      BY DEF IdInv
    <2>1. CASE v \notin Mapped
      <3>1. pc[t] = "publish" /\ v = vertex_id[t]
        BY <2>1, SharedFrame DEF Mapped
      <3>2. pc'[t] = "unlockNew" /\ vertex_id'[t] = vertex_id[t]
        BY <1>1, <3>1
        DEF ThreadStep, Goto, TypeOK, TakeEdge, Find, Lock, FindAgain,
            AllocEntry, Publish, Unlock, SetId, SetNumNodes, SetCount, Return,
            InsertEdge, AddNumNodes, AddDegree
      <3> QED
        BY <3>1, <3>2
    <2>2. CASE v \in Mapped /\ SetId(t)
      <3>1. /\ pc[t] = "setId" /\ vertex_id[t] \in Mapped
            /\ id' = [id EXCEPT ![entry[t]] = vertex_id[t]]
            /\ entry[t] = find_vertex(vertex_id[t]) /\ entry[t] \in Entry
        BY <1>1, <2>2, CallFacts
        DEF SetId, Goto, CallInv, Known, Mapped
      <3>2. CASE v = vertex_id[t]
        BY <1>1, <1>3, <3>1, <3>2 DEF TypeOK
      <3>3. CASE v # vertex_id[t]
        <4>1. id'[find_vertex(v)] = id[find_vertex(v)]
          BY <1>1, <2>2, <3>1, <3>3 DEF EntryInv, TypeOK
        <4> QED
          BY <1>2, <1>3, <2>2, <3>3, <4>1 DEF BatchInv, IdInv
      <3> QED
        BY <3>2, <3>3
    <2>3. CASE v \in Mapped /\ ~SetId(t)
      <3>1. id' = id
        BY <2>3
        DEF ThreadStep, arrayVars, TakeEdge, Find, Lock, FindAgain, AllocEntry,
            Publish, Unlock, SetNumNodes, SetCount, Return, InsertEdge,
            AddNumNodes, AddDegree
      <3>2. pc[t] \in {"unlockNew", "setId"} =>
               pc'[t] = "setId" /\ vertex_id'[t] = vertex_id[t]
        BY <1>1, <2>3
        DEF ThreadStep, Goto, TypeOK, TakeEdge, Find, Lock, FindAgain,
            AllocEntry, Publish, Unlock, SetNumNodes, SetCount, Return,
            InsertEdge, AddNumNodes, AddDegree
      <3> QED
        BY <1>2, <1>3, <2>3, <3>1, <3>2 DEF BatchInv, IdInv
    <2> QED
      BY <2>1, <2>2, <2>3
  <1>5. pc[t] \in InTree \cup {"insert"} =>
           /\ edge[t][1] \in Mapped /\ edge[t][2] \in Mapped
           /\ src_index[t] = find_vertex(edge[t][1]) /\ src_index[t] \in Entry
    BY <1>1, CallFacts DEF CallInv, Mapped, Known, InTree
  <1>6. /\ \A e \in Stored' : e[1] \in Mapped' /\ e[2] \in Mapped'
        /\ \A e \in Stored : find_vertex(e[1])' = find_vertex(e[1])
    <2>1. \A e \in Stored : e[1] \in Mapped /\ e[2] \in Mapped
      BY DEF BatchInv
    <2>2. InsertEdge(t) => pc[t] = "insert"
      BY DEF InsertEdge
    <2> QED
      BY <1>3, <1>5, <2>1, <2>2, StoredStep
  <1>7. IsFiniteSet(Stored) /\ IsFiniteSet(Counted) /\ Counted \subseteq Stored
    <2>1. Stored \subseteq batch /\ Counted \subseteq Stored
      BY Zenon DEF Stored, Counted
    <2>2. IsFiniteSet(Physical)
      BY FS_Interval DEF Physical
    <2>3. IsFiniteSet(Physical \X Physical)
      BY <2>2, FS_Product
    <2>4. batch \subseteq Physical \X Physical
      BY <1>1 DEF TypeOK
    <2> QED
      BY <2>1, <2>3, <2>4, FS_Subset
  <1>8. \A i : /\ IsFiniteSet(Of(Stored, i)) /\ IsFiniteSet(Of(Counted, i))
               /\ Cardinality(Of(Stored, i)) \in Nat
               /\ Cardinality(Of(Counted, i)) \in Nat
    <2> TAKE i
    <2>1. Of(Stored, i) \subseteq Stored /\ Of(Counted, i) \subseteq Counted
      BY DEF Of
    <2> QED
      BY <1>7, <2>1, FS_Subset, FS_CardinalityType
  <1>9. \A i \in Entry : stored'[i] = Cardinality(Of(Stored, i)')
    <2> TAKE i \in Entry
    <2>1. stored[i] = Cardinality(Of(Stored, i))
      BY DEF BatchInv
    <2>2. CASE InsertEdge(t)
      <3>1. /\ pc[t] = "insert"
            /\ stored' = [stored EXCEPT ![src_index[t]] = @ + 1]
            /\ p_t_l_mapper' = p_t_l_mapper
        BY <2>2 DEF InsertEdge
      <3>2. Stored' = Stored \cup {edge[t]} /\ edge[t] \notin Stored
        BY <2>2, <3>1, StoredStep
      <3>3. CASE i = src_index[t]
        <4>1. Of(Stored, i)' = Of(Stored, i) \cup {edge[t]}
          BY <1>5, <3>1, <3>2, <3>3 DEF Of, find_vertex
        <4>2. edge[t] \notin Of(Stored, i)
          BY <3>2 DEF Of
        <4>3. Cardinality(Of(Stored, i) \cup {edge[t]})
                 = Cardinality(Of(Stored, i)) + 1
          <5>1. IsFiniteSet(Of(Stored, i))
            BY <1>8
          <5> HIDE DEF Of
          <5> QED
            BY <4>2, <5>1, FS_AddElement
        <4>4. Cardinality(Of(Stored, i)') = stored[i] + 1
          BY <2>1, <4>1, <4>3
        <4> QED
          BY <1>1, <3>1, <3>3, <4>4 DEF TypeOK
      <3>4. CASE i # src_index[t]
        <4>1. Of(Stored, i)' = Of(Stored, i)
          BY <1>5, <3>1, <3>2, <3>4 DEF Of, find_vertex
        <4> QED
          BY <1>1, <2>1, <3>1, <3>4, <4>1 DEF TypeOK
      <3> QED
        BY <3>3, <3>4
    <2>3. CASE ~InsertEdge(t)
      <3>1. stored' = stored /\ Stored' = Stored
        BY <2>3, StoredStep
        DEF ThreadStep, treeVars, TakeEdge, Find, Lock, FindAgain, AllocEntry,
            Publish, Unlock, SetId, SetNumNodes, SetCount, Return, AddNumNodes,
            AddDegree
      <3>2. Of(Stored, i)' = Of(Stored, i)
        BY <1>6, <3>1 DEF Of
      <3> QED
        BY <2>1, <3>1, <3>2
    <2> QED
      BY <2>2, <2>3
  <1>10. \A i \in Entry : degree'[i] = Cardinality(Of(Counted, i)')
    <2> TAKE i \in Entry
    <2>1. degree[i] = Cardinality(Of(Counted, i))
      BY DEF BatchInv
    <2>2. CASE AddDegree(t)
      <3>1. /\ pc[t] = "addDegree"
            /\ degree' = [degree EXCEPT ![src_index[t]] = @ + 1]
            /\ p_t_l_mapper' = p_t_l_mapper
        BY <2>2 DEF AddDegree, Goto
      <3>2. Counted' = Counted \cup {edge[t]} /\ edge[t] \notin Counted
        BY <2>2, <3>1, CountedStep
      <3>3. CASE i = src_index[t]
        <4>1. Of(Counted, i)' = Of(Counted, i) \cup {edge[t]}
          BY <1>5, <3>1, <3>2, <3>3 DEF Of, find_vertex, InTree
        <4>2. edge[t] \notin Of(Counted, i)
          BY <3>2 DEF Of
        <4>3. Cardinality(Of(Counted, i) \cup {edge[t]})
                 = Cardinality(Of(Counted, i)) + 1
          <5>1. IsFiniteSet(Of(Counted, i))
            BY <1>8
          <5> HIDE DEF Of
          <5> QED
            BY <4>2, <5>1, FS_AddElement
        <4>4. Cardinality(Of(Counted, i)') = degree[i] + 1
          BY <2>1, <4>1, <4>3
        <4> QED
          BY <1>1, <3>1, <3>3, <4>4 DEF TypeOK
      <3>4. CASE i # src_index[t]
        <4>1. Of(Counted, i)' = Of(Counted, i)
          BY <1>5, <3>1, <3>2, <3>4 DEF Of, find_vertex, InTree
        <4> QED
          BY <1>1, <2>1, <3>1, <3>4, <4>1 DEF TypeOK
      <3> QED
        BY <3>3, <3>4
    <2>3. CASE ~AddDegree(t)
      <3>1. degree' = degree /\ Counted' = Counted
        BY <2>3, CountedStep
        DEF ThreadStep, arrayVars, TakeEdge, Find, Lock, FindAgain, AllocEntry,
            Publish, Unlock, SetId, SetNumNodes, SetCount, Return, InsertEdge,
            AddNumNodes
      <3>2. Of(Counted, i)' = Of(Counted, i)
        BY <1>6, <1>7, <3>1 DEF Of
      <3> QED
        BY <2>1, <3>1, <3>2
    <2> QED
      BY <2>2, <2>3
  <1> QED
    BY <1>4, <1>6, <1>9, <1>10 DEF BatchInv

-----------------------------------------------------------------------------
\* AllInv is inductive.
THEOREM IndexInvariant == Spec => []AllInv
  <1>1. AllInv /\ [Next]_vars => AllInv'
    <2> SUFFICES ASSUME AllInv, [Next]_vars PROVE AllInv'
      OBVIOUS
    <2>1. IndexInv'
      BY IndexStep DEF AllInv
    <2>2. ASSUME NEW t \in Threads, ThreadStep(t) PROVE BatchInv'
      BY <2>2, BatchStep DEF AllInv
    <2>3. ASSUME UNCHANGED vars PROVE BatchInv'
      <3>1. /\ Stored' = Stored /\ Counted' = Counted /\ Mapped' = Mapped
            /\ p_t_l_mapper' = p_t_l_mapper /\ id' = id /\ stored' = stored
            /\ degree' = degree /\ pc' = pc /\ vertex_id' = vertex_id
        BY <2>3 DEF vars, Stored, Counted, Mapped, find_vertex
      <3> QED
        BY <2>3, <3>1 DEF vars, AllInv, BatchInv, IdInv, Of, find_vertex
    <2> QED
      BY <2>1, <2>2, <2>3 DEF AllInv, Next, Terminated
  <1> QED
    BY IndexInit, <1>1, PTL DEF Spec

\* The types of the index, of the vertex array and of the threads' variables:
\* the array is never found full, and no entry past its end is given out.
THEOREM TypeCorrect == Spec => []TypeOK
  <1>1. AllInv => TypeOK
    BY DEF AllInv, IndexInv
  <1> QED
    BY <1>1, IndexInvariant, PTL

\* Whatever threads ask for whatever vertices at the same time, a vertex gets
\* one entry and an entry one vertex, and high counts the entries in use.
THEOREM OneEntry == Spec => []OneEntryPerVertex
  <1>1. AllInv => OneEntryPerVertex
    <2> SUFFICES ASSUME AllInv
                 PROVE  OneEntryPerVertex
      OBVIOUS
    <2>1. /\ TypeOK /\ ApartInv /\ EntryInv /\ \A t \in Threads : CallInv(t)
      BY DEF AllInv, IndexInv
    <2> DEFINE M == {find_vertex(v) : v \in Mapped}
               P == {entry[t] : t \in Publishing}
               f == [v \in Mapped |-> find_vertex(v)]
               g == [t \in Publishing |-> entry[t]]
    <2>2. high \in Nat
      BY <2>1 DEF TypeOK
    <2>3. M \cup P = 0 .. high - 1 /\ M \cap P = {}
      <3>1. M \subseteq 0 .. high - 1
        BY <2>1, <2>2, ConstantsAssumption
        DEF EntryInv, TypeOK, Mapped, find_vertex, Entry
      <3> QED
        BY <2>1, <3>1 DEF EntryInv
    <2>4. f \in Bijection(Mapped, M)
      BY <2>1, Fun_IsBij DEF EntryInv
    <2>5. g \in Bijection(Publishing, P)
      BY <2>1, Fun_IsBij DEF EntryInv
    <2>6. /\ IsFiniteSet(0 .. high - 1) /\ Cardinality(0 .. high - 1) = high
      BY <2>2, FS_Interval
    <2>7. IsFiniteSet(M) /\ IsFiniteSet(P)
      BY <2>3, <2>6, FS_Subset
    <2>8. Cardinality(M) + Cardinality(P) = high
      <3>1. /\ Cardinality(M \cap P) = 0
            /\ Cardinality(M) \in Nat /\ Cardinality(P) \in Nat
        BY <2>3, <2>7, FS_EmptySet, FS_CardinalityType
      <3>2. Cardinality(M \cup P)
               = Cardinality(M) + Cardinality(P) - Cardinality(M \cap P)
        BY <2>7, FS_Union
      <3>3. Cardinality(M \cup P) = high
        BY <2>3, <2>6
      <3> HIDE DEF M, P
      <3> QED
        BY <3>1, <3>2, <3>3
    <2> HIDE DEF M, P, f, g
    <2>9. Cardinality(Mapped) = Cardinality(M)
      <3>1. ExistsBijection(M, Mapped)
        BY <2>4, Fun_BijInverse, Fun_ExistsBij
      <3> QED
        BY <2>7, <3>1, FS_Bijection
    <2>10. Cardinality(Publishing) = Cardinality(P)
      <3>1. ExistsBijection(P, Publishing)
        BY <2>5, Fun_BijInverse, Fun_ExistsBij
      <3> QED
        BY <2>7, <3>1, FS_Bijection
    <2>11. Cardinality(Mapped) + Cardinality(Publishing) = high
      BY <2>8, <2>9, <2>10
    <2> QED
      BY <2>1, <2>11
      DEF OneEntryPerVertex, Publishing, EntryInv, ApartInv, CallInv, Locked
  <1> QED
    BY <1>1, IndexInvariant, PTL

\* An edge goes from the entry of its source to the logical id of its
\* destination, whichever threads made these two.
THEOREM Endpoints == Spec => []EndpointsRight
  <1>1. AllInv => EndpointsRight
    <2> SUFFICES ASSUME AllInv, NEW t \in Threads,
                        pc[t] \in {"insert", "addNumNodes", "addDegree"}
                 PROVE  /\ src_index[t] = find_vertex(edge[t][1])
                        /\ entry[t] = find_vertex(edge[t][2])
      BY DEF EndpointsRight
    <2> QED
      BY DEF AllInv, IndexInv, CallInv, InTree, Known
  <1> QED
    BY <1>1, IndexInvariant, PTL

\* After the batch, check_one_ingestion finds every edge's vertices mapped, the
\* ids right and the degrees equal to the numbers of edges.
THEOREM BatchCorrect == Spec => []BatchChecked
  <1>1. AllInv => BatchChecked
    <2> SUFFICES ASSUME AllInv, AllDone PROVE BatchChecked
      BY DEF BatchChecked
    <2>2. BatchInv /\ TypeOK /\ EntryInv
      BY DEF AllInv, IndexInv
    <2>3. Stored = batch /\ Counted = batch
      BY DEF AllDone, Stored, Counted
    <2>4. \A e \in batch : e[1] \in Mapped /\ e[2] \in Mapped
      BY <2>2, <2>3 DEF BatchInv
    <2>5. \A v \in Mapped : id[find_vertex(v)] = v
      BY <2>2 DEF BatchInv, IdInv, AllDone
    <2>6. \A i \in Entry : degree[i] = stored[i]
      BY <2>2, <2>3 DEF BatchInv
    <2>7. ASSUME NEW v \in Mapped
          PROVE  stored[find_vertex(v)] = Cardinality({e \in batch : e[1] = v})
      <3>1. find_vertex(v) \in Entry
        BY <2>2 DEF Mapped, TypeOK, find_vertex
      <3>2. Of(batch, find_vertex(v)) = {e \in batch : e[1] = v}
        BY <2>2, <2>4 DEF Of, EntryInv
      <3> QED
        BY <2>2, <2>3, <3>1, <3>2 DEF BatchInv
    <2> QED
      BY <2>4, <2>5, <2>6, <2>7 DEF BatchChecked
  <1> QED
    BY <1>1, IndexInvariant, PTL

\* A logical id is for good: no step changes or removes the mapping of a vertex
\* that has one.
THEOREM MappingForGood == Spec => MappingStays
  <1>1. AllInv /\ [Next]_vars
           => [\A v \in Mapped : p_t_l_mapper'[v] = p_t_l_mapper[v]]_vars
    <2> SUFFICES ASSUME AllInv, Next
                 PROVE  \A v \in Mapped : p_t_l_mapper'[v] = p_t_l_mapper[v]
      OBVIOUS
    <2>1. ASSUME NEW t \in Threads, ThreadStep(t)
          PROVE  \A v \in Mapped : p_t_l_mapper'[v] = p_t_l_mapper[v]
      BY <2>1, SharedFrame DEF AllInv, Mapped, find_vertex
    <2> QED
      BY <2>1 DEF Next, Terminated, vars
  <1> QED
    BY <1>1, IndexInvariant, PTL DEF Spec, MappingStays
=============================================================================
