------------------------ MODULE GraphLifecycleProofs ------------------------
(***************************************************************************)
(* Proofs about GraphLifecycle, for any size of the vertex array and of    *)
(* the index, and any places where a process may crash.                    *)
(***************************************************************************)
EXTENDS GraphLifecycle, FiniteSetTheorems, FunctionTheorems, TLAPS

Constructor == {"allocVertices", "allocAlignment", "setAlignment",
                "allocRoots", "setCrashed"}
Inserting == {"find", "take", "setId", "setCount", "tree"}

\* The entries that have their vertex: all below high, but the one that
\* insert_vertex has taken and not yet entered into the index.
Filled == IF pc \in {"setId", "setCount"} THEN entry ELSE high

\* A pool whose constructor has not ended has no vertices yet.
NewPool ==
    /\ offset \in {"nothing", "meta"} => pc \in {"down", "allocVertices"}
    /\ offset \in {"nothing", "meta"} \/ pc \in Constructor =>
          count = 0 /\ made = {}
    /\ pc \in Constructor \cup {"down"} =>
          high = 0 /\ p_t_l_mapper = Unmapped

\* The index and the ids of the filled entries are inverse to each other.
IndexInv ==
    /\ \A v \in Mapped : p_t_l_mapper[v] < Filled /\ id[p_t_l_mapper[v]] = v
    /\ \A i \in Entry : i < Filled =>
          id[i] \in Physical /\ p_t_l_mapper[id[i]] = i

\* What insert_vertex knows of its vertex and of the entry it has taken.
CallInv ==
    /\ pc \in Inserting => edge \in Physical \X Physical
    /\ pc \in {"take", "setId", "setCount"} => p_t_l_mapper[edge[side]] = -1
    /\ pc \in {"setId", "setCount"} => entry \in Entry /\ high = entry + 1
    /\ pc = "setCount" => id[entry] = edge[side]
    /\ pc \in Inserting /\ side = 1 => edge[2] \in Mapped
    /\ pc = "tree" => edge[1] \in Mapped /\ edge[2] \in Mapped

\* The count in the file is the number of filled entries or one less, and the
\* ids below it are those of different vertices.
CountInv ==
    /\ pc # "down" => count <= Filled /\ Filled <= count + 1
    /\ \A i \in Entry : i < count => id[i] \in Physical
    /\ \A i, j \in Entry : i < count /\ j < count /\ id[i] = id[j] => i = j

\* The vertices made are the mapped ones; without a process they are those of
\* the entries below count and, at most, of the next one.
MadeInv ==
    /\ pc # "down" => made = Mapped
    /\ pc = "down" => \A v \in made : \E i \in Entry : i <= count /\ id[i] = v

LifeInv == TypeOK /\ NewPool /\ IndexInv /\ CallInv /\ CountInv /\ MadeInv

\* As long as no process has died, the entries joined by edges are filled (or
\* counted, without a process), and the edges between them are the inserted.
GraphInv ==
    ~died =>
    /\ \A i \in Entry : \A j \in edges[i] :
          LET settled == IF pc = "down" THEN count ELSE Filled
          IN  i < settled /\ j < settled
    /\ \A e \in Physical \X Physical :
          e \in inserted <=>
             \E i \in Entry : \E j \in edges[i] : e = <<id[i], id[j]>>

-----------------------------------------------------------------------------
(* The parts of LifeInv, each preserved by every step.                     *)

\* re_map of a file whose first h entries carry the ids of different vertices
\* makes the index that is inverse to these ids.
LEMMA RemapInverts ==
    ASSUME TypeOK, NEW h \in 0 .. num_vertices,
           \A i \in Entry : i < h => id[i] \in Physical,
           \A i, j \in Entry : i < h /\ j < h /\ id[i] = id[j] => i = j
    PROVE  /\ Remapped(h) \in [Physical -> Entry \cup {-1}]
           /\ \A v \in Physical : Remapped(h)[v] # -1 =>
                 Remapped(h)[v] < h /\ id[Remapped(h)[v]] = v
           /\ \A i \in Entry : i < h => Remapped(h)[id[i]] = i
  <1> DEFINE of(v) == {i \in Entry : i < h /\ id[i] = v}
  <1>1. \A v \in Physical : Remapped(h)[v] =
           IF of(v) = {} THEN -1
                         ELSE CHOOSE i \in of(v) : \A j \in of(v) : j <= i
    BY DEF Remapped
  <1>2. ASSUME NEW v \in Physical, NEW i \in of(v) PROVE Remapped(h)[v] = i
    <2>1. of(v) = {i}
      BY <1>2
    <2>2. i <= i
      BY ConstantsAssumption DEF Entry
    <2>3. i = CHOOSE k \in of(v) : \A j \in of(v) : j <= k
      BY <2>1, <2>2
    <2> QED
      BY <1>1, <2>1, <2>3
  <1>3. \A v \in Physical : Remapped(h)[v] = -1 \/ Remapped(h)[v] \in of(v)
    BY <1>1, <1>2
  <1>4. \A i \in Entry : i < h => i \in of(id[i])
    OBVIOUS
  <1>5. \A i \in Entry : i # -1
    BY ConstantsAssumption DEF Entry
  <1> HIDE DEF of
  <1>6. \A v \in Physical : Remapped(h)[v] \in Entry \cup {-1}
    BY <1>3 DEF of
  <1> QED
    BY <1>2, <1>3, <1>4, <1>5, <1>6 DEF of, Remapped

\* The initial state: no file, no process.
LEMMA LifeInit == Init => LifeInv /\ GraphInv
  <1> SUFFICES ASSUME Init PROVE LifeInv /\ GraphInv
    OBVIOUS
  <1> USE ConstantsAssumption DEF Init, Unmapped, Entry
  <1>1. TypeOK
    <2>1. /\ offset \in {"nothing", "meta", "vertices", "alignment", "roots"}
          /\ alignment \in BOOLEAN /\ died \in BOOLEAN
          /\ ended \in {"never", "closed", "died"} /\ pc \in PC
      BY Zenon DEF PC
    <2>2. /\ count \in 0 .. num_vertices /\ high \in 0 .. num_vertices
          /\ crashed \in {0, 1} /\ side \in {1, 2} /\ entry = -1
          /\ edge \in Nat \X Nat
      OBVIOUS
    <2>3. /\ id \in [Entry -> Nat] /\ edges \in [Entry -> SUBSET Entry]
          /\ p_t_l_mapper \in [Physical -> Entry \cup {-1}]
      OBVIOUS
    <2> QED
      BY <2>1, <2>2, <2>3 DEF TypeOK
  <1>2. Mapped = {}
    BY DEF Mapped
  <1>3. NewPool /\ IndexInv /\ CallInv /\ CountInv /\ MadeInv
    BY <1>2 DEF NewPool, IndexInv, CallInv, CountInv, MadeInv, Filled,
                Constructor, Inserting
  <1>4. GraphInv
    BY DEF GraphInv
  <1> QED
    BY <1>1, <1>3, <1>4 DEF LifeInv

\* The types.
LEMMA TypeStep == LifeInv /\ Next => TypeOK'
  <1> SUFFICES ASSUME LifeInv, Next PROVE TypeOK'
    OBVIOUS
  <1> USE ConstantsAssumption
      DEF LifeInv, TypeOK, Entry, PC, Goto, metaVars, fileVars, indexVars,
          callVars, history, NoMemory, Returned, Unmapped, CallInv, CountInv,
          Mapped, Inserting
  <1>1. CASE InitPool
    BY <1>1 DEF InitPool
  <1>2. CASE OpenNew
    BY <1>2 DEF OpenNew
  <1>3. CASE AllocVertices
    BY <1>3 DEF AllocVertices
  <1>4. CASE AllocAlignment
    BY <1>4 DEF AllocAlignment
  <1>5. CASE SetAlignment
    BY <1>5 DEF SetAlignment
  <1>6. CASE AllocRoots
    BY <1>6 DEF AllocRoots
  <1>7. CASE SetCrashed
    BY <1>7 DEF SetCrashed
  <1>8. CASE OpenOld
    <2>1. p_t_l_mapper' = Remapped(count) /\ high' = count
      BY <1>8 DEF OpenOld
    <2>2. p_t_l_mapper' \in [Physical -> Entry \cup {-1}]
      BY <2>1, RemapInverts DEF CountInv
    <2> QED
      BY <1>8, <2>1, <2>2 DEF OpenOld
  <1>9. CASE InsertEdge
    <2>1. \A v \in Physical : v \in Nat
      BY DEF Physical
    <2>2. edge' \in Nat \X Nat
      BY <1>9, <2>1 DEF InsertEdge
    <2> QED
      BY <1>9, <2>2 DEF InsertEdge
  <1>10. CASE Find
    BY <1>10 DEF Find
  <1>11. CASE high < num_vertices /\ TakeEntry
    BY <1>11 DEF TakeEntry
  <1>12. CASE NoEntry
    BY <1>12 DEF NoEntry
  <1>13. CASE SetId
    BY <1>13 DEF SetId
  <1>14. CASE SetCount
    <2>1. edge[side] \in Physical
      BY <1>14 DEF SetCount, Inserting
    <2>2. p_t_l_mapper' \in [Physical -> Entry \cup {-1}]
      BY <1>14, <2>1 DEF SetCount
    <2>3. count' \in 0 .. num_vertices
      BY <1>14 DEF SetCount
    <2>4. made' \subseteq Physical
      BY <1>14, <2>1 DEF SetCount
    <2> QED
      BY <1>14, <2>2, <2>3, <2>4 DEF SetCount, Returned
  <1>15. CASE StoreEdge
    BY <1>15 DEF StoreEdge
  <1>16. CASE ClearCrashed
    BY <1>16 DEF ClearCrashed
  <1>17. CASE LastCount
    BY <1>17 DEF LastCount
  <1>18. CASE Crash
    BY <1>18 DEF Crash
  <1> QED
    BY <1>1, <1>2, <1>3, <1>4, <1>5, <1>6, <1>7, <1>8, <1>9, <1>10, <1>11,
        <1>12, <1>13, <1>14, <1>15, <1>16, <1>17, <1>18
    DEF Next, Construct, Call, AllocEntry, End

\* A pool is without vertices until its constructor has ended.
LEMMA NewPoolStep == LifeInv /\ Next => NewPool'
  <1> SUFFICES ASSUME LifeInv, Next PROVE NewPool'
    OBVIOUS
  <1> USE ConstantsAssumption
      DEF LifeInv, TypeOK, Goto, metaVars, fileVars, indexVars, callVars,
          history, NoMemory, Returned, Unmapped, NewPool, Constructor, Mapped
  <1>1. CASE InitPool
    BY <1>1 DEF InitPool
  <1>2. CASE OpenNew
    BY <1>2 DEF OpenNew
  <1>3. CASE AllocVertices
    BY <1>3 DEF AllocVertices
  <1>4. CASE AllocAlignment
    BY <1>4 DEF AllocAlignment
  <1>5. CASE SetAlignment
    BY <1>5 DEF SetAlignment
  <1>6. CASE AllocRoots
    BY <1>6 DEF AllocRoots
  <1>7. CASE SetCrashed
    BY <1>7 DEF SetCrashed
  <1>8. CASE OpenOld
    BY <1>8 DEF OpenOld
  <1>9. CASE InsertEdge
    BY <1>9 DEF InsertEdge
  <1>10. CASE Find
    BY <1>10 DEF Find
  <1>11. CASE high < num_vertices /\ TakeEntry
    BY <1>11 DEF TakeEntry
  <1>12. CASE NoEntry
    BY <1>12 DEF NoEntry
  <1>13. CASE SetId
    BY <1>13 DEF SetId
  <1>14. CASE SetCount
    BY <1>14 DEF SetCount
  <1>15. CASE StoreEdge
    BY <1>15 DEF StoreEdge
  <1>16. CASE ClearCrashed
    BY <1>16 DEF ClearCrashed
  <1>17. CASE LastCount
    BY <1>17 DEF LastCount
  <1>18. CASE Crash
    BY <1>18 DEF Crash
  <1> QED
    BY <1>1, <1>2, <1>3, <1>4, <1>5, <1>6, <1>7, <1>8, <1>9, <1>10, <1>11,
        <1>12, <1>13, <1>14, <1>15, <1>16, <1>17, <1>18
    DEF Next, Construct, Call, AllocEntry, End

\* The last step of insert_vertex enters the vertex whose entry is written.
LEMMA SetCountIndex == LifeInv /\ SetCount => IndexInv'
  <1> SUFFICES ASSUME LifeInv, SetCount PROVE IndexInv'
    OBVIOUS
  <1> DEFINE e == edge[side]
  <1>1. /\ e \in Physical /\ p_t_l_mapper[e] = -1
        /\ entry \in Entry /\ entry \in Nat /\ id[entry] = e
        /\ p_t_l_mapper \in [Physical -> Entry \cup {-1}]
    BY DEF SetCount, LifeInv, TypeOK, CallInv, Inserting, Entry
  <1>2. p_t_l_mapper' = [p_t_l_mapper EXCEPT ![e] = entry] /\ id' = id
    BY DEF SetCount
  <1>3. Filled = entry /\ Filled' = entry + 1
    BY DEF SetCount, Returned, Filled, LifeInv, CallInv
  <1> HIDE DEF e
  <1>4. \A v \in Physical : p_t_l_mapper'[v] # -1 =>
           p_t_l_mapper'[v] < entry + 1 /\ id[p_t_l_mapper'[v]] = v
    <2> SUFFICES ASSUME NEW v \in Physical, p_t_l_mapper'[v] # -1
                 PROVE  /\ p_t_l_mapper'[v] < entry + 1
                        /\ id[p_t_l_mapper'[v]] = v
      OBVIOUS
    <2>1. CASE v = e
      BY <1>1, <1>2, <2>1
    <2>2. CASE v # e
      <3>1. p_t_l_mapper'[v] = p_t_l_mapper[v] /\ v \in Mapped
        BY <1>1, <1>2, <2>2 DEF Mapped
      <3>2. p_t_l_mapper[v] < entry /\ id[p_t_l_mapper[v]] = v
        BY <1>3, <3>1 DEF LifeInv, IndexInv
      <3>3. p_t_l_mapper[v] \in Nat
        BY <1>1, <3>1 DEF Entry, Mapped
      <3> QED
        BY <1>1, <3>1, <3>2, <3>3
    <2> QED
      BY <2>1, <2>2
  <1>5. \A i \in Entry : i < entry + 1 =>
           id[i] \in Physical /\ p_t_l_mapper'[id[i]] = i
    <2> SUFFICES ASSUME NEW i \in Entry, i < entry + 1
                 PROVE  id[i] \in Physical /\ p_t_l_mapper'[id[i]] = i
      OBVIOUS
    <2>1. CASE i = entry
      BY <1>1, <1>2, <2>1
    <2>2. CASE i # entry
      <3>1. i < entry
        BY <1>1, <2>2 DEF Entry
      <3>2. id[i] \in Physical /\ p_t_l_mapper[id[i]] = i
        BY <1>3, <3>1 DEF LifeInv, IndexInv
      <3>3. i # -1
        BY DEF Entry
      <3> QED
        BY <1>1, <1>2, <3>2, <3>3
    <2> QED
      BY <2>1, <2>2
  <1>6. Mapped' = {v \in Physical : p_t_l_mapper'[v] # -1}
    BY DEF Mapped
  <1> QED
    BY <1>2, <1>3, <1>4, <1>5, <1>6 DEF IndexInv

\* The index and the ids stay inverse: set_id writes an entry that is not
\* mapped, and the vertex entered into the index was not there.
LEMMA IndexStep == LifeInv /\ Next => IndexInv'
  <1> SUFFICES ASSUME LifeInv, Next PROVE IndexInv'
    OBVIOUS
  <1> USE ConstantsAssumption
      DEF LifeInv, TypeOK, Entry, Goto, metaVars, fileVars, indexVars,
          callVars, history, NoMemory, Returned, Unmapped, NewPool,
          Constructor, Mapped, Filled, Inserting, IndexInv, CallInv, CountInv
  <1>1. CASE InitPool
    BY <1>1 DEF InitPool
  <1>2. CASE OpenNew
    BY <1>2 DEF OpenNew
  <1>3. CASE AllocVertices
    BY <1>3 DEF AllocVertices
  <1>4. CASE AllocAlignment
    BY <1>4 DEF AllocAlignment
  <1>5. CASE SetAlignment
    BY <1>5 DEF SetAlignment
  <1>6. CASE AllocRoots
    BY <1>6 DEF AllocRoots
  <1>7. CASE SetCrashed
    BY <1>7 DEF SetCrashed
  <1>8. CASE OpenOld
    <2>1. high' = count
      BY <1>8 DEF OpenOld
    <2>2. p_t_l_mapper' = Remapped(count)
      BY <1>8, <2>1 DEF OpenOld
    <2>3. /\ id' = id /\ Filled' = count
          /\ Mapped' = {v \in Physical : Remapped(count)[v] # -1}
      BY <1>8, <2>1, <2>2 DEF OpenOld
    <2> QED
      BY <2>2, <2>3, RemapInverts
  <1>9. CASE InsertEdge
    BY <1>9 DEF InsertEdge
  <1>10. CASE Find
    BY <1>10 DEF Find
  <1>11. CASE high < num_vertices /\ TakeEntry
    BY <1>11 DEF TakeEntry
  <1>12. CASE NoEntry
    BY <1>12 DEF NoEntry
  <1>13. CASE SetId
    BY <1>13 DEF SetId
  <1>14. CASE SetCount
    BY <1>14, SetCountIndex
  <1>15. CASE StoreEdge
    BY <1>15 DEF StoreEdge
  <1>16. CASE ClearCrashed
    BY <1>16 DEF ClearCrashed
  <1>17. CASE LastCount
    BY <1>17 DEF LastCount
  <1>18. CASE Crash
    BY <1>18 DEF Crash
  <1> QED
    BY <1>1, <1>2, <1>3, <1>4, <1>5, <1>6, <1>7, <1>8, <1>9, <1>10, <1>11,
        <1>12, <1>13, <1>14, <1>15, <1>16, <1>17, <1>18
    DEF Next, Construct, Call, AllocEntry, End

\* The arguments of insert_vertex.
LEMMA CallStep == LifeInv /\ Next => CallInv'
  <1> SUFFICES ASSUME LifeInv, Next PROVE CallInv'
    OBVIOUS
  <1> USE ConstantsAssumption
      DEF LifeInv, TypeOK, Entry, Goto, metaVars, fileVars, indexVars,
          callVars, history, NoMemory, Returned, Unmapped, NewPool,
          Constructor, Mapped, Filled, Inserting, IndexInv, CallInv
  <1>1. CASE InitPool
    BY <1>1 DEF InitPool
  <1>2. CASE OpenNew
    BY <1>2 DEF OpenNew
  <1>3. CASE AllocVertices
    BY <1>3 DEF AllocVertices
  <1>4. CASE AllocAlignment
    BY <1>4 DEF AllocAlignment
  <1>5. CASE SetAlignment
    BY <1>5 DEF SetAlignment
  <1>6. CASE AllocRoots
    BY <1>6 DEF AllocRoots
  <1>7. CASE SetCrashed
    BY <1>7 DEF SetCrashed
  <1>8. CASE OpenOld
    BY <1>8 DEF OpenOld
  <1>9. CASE InsertEdge
    BY <1>9 DEF InsertEdge
  <1>10. CASE Find
    BY <1>10 DEF Find
  <1>11. CASE high < num_vertices /\ TakeEntry
    BY <1>11 DEF TakeEntry
  <1>12. CASE NoEntry
    BY <1>12 DEF NoEntry
  <1>13. CASE SetId
    BY <1>13 DEF SetId
  <1>14. CASE SetCount
    BY <1>14 DEF SetCount
  <1>15. CASE StoreEdge
    BY <1>15 DEF StoreEdge
  <1>16. CASE ClearCrashed
    BY <1>16 DEF ClearCrashed
  <1>17. CASE LastCount
    BY <1>17 DEF LastCount
  <1>18. CASE Crash
    BY <1>18 DEF Crash
  <1> QED
    BY <1>1, <1>2, <1>3, <1>4, <1>5, <1>6, <1>7, <1>8, <1>9, <1>10, <1>11,
        <1>12, <1>13, <1>14, <1>15, <1>16, <1>17, <1>18
    DEF Next, Construct, Call, AllocEntry, End

\* The count in the file: an entry is filled when it is counted.
LEMMA CountStep == LifeInv /\ Next => CountInv'
  <1> SUFFICES ASSUME LifeInv, Next PROVE CountInv'
    OBVIOUS
  <1> USE ConstantsAssumption
      DEF LifeInv, TypeOK, Entry, Goto, metaVars, fileVars, indexVars,
          callVars, history, NoMemory, Returned, Unmapped, NewPool,
          Constructor, Mapped, Filled, Inserting, IndexInv, CallInv, CountInv
  <1>1. CASE InitPool
    BY <1>1 DEF InitPool
  <1>2. CASE OpenNew
    BY <1>2 DEF OpenNew
  <1>3. CASE AllocVertices
    BY <1>3 DEF AllocVertices
  <1>4. CASE AllocAlignment
    BY <1>4 DEF AllocAlignment
  <1>5. CASE SetAlignment
    BY <1>5 DEF SetAlignment
  <1>6. CASE AllocRoots
    BY <1>6 DEF AllocRoots
  <1>7. CASE SetCrashed
    BY <1>7 DEF SetCrashed
  <1>8. CASE OpenOld
    BY <1>8 DEF OpenOld
  <1>9. CASE InsertEdge
    BY <1>9 DEF InsertEdge
  <1>10. CASE Find
    BY <1>10 DEF Find
  <1>11. CASE high < num_vertices /\ TakeEntry
    BY <1>11 DEF TakeEntry
  <1>12. CASE NoEntry
    BY <1>12 DEF NoEntry
  <1>13. CASE SetId
    <2>1. /\ pc = "setId" /\ pc' = "setCount" /\ entry \in Entry
          /\ high = entry + 1
          /\ id' = [id EXCEPT ![entry] = edge[side]]
          /\ UNCHANGED <<count, high, entry>>
      BY <1>13 DEF SetId
    <2>2. Filled = entry /\ Filled' = entry /\ count <= entry
      BY <2>1
    <2>3. \A i \in Entry : i < count => id'[i] = id[i]
      BY <2>1, <2>2
    <2>4. CountInv
      OBVIOUS
    <2> QED
      BY <2>1, <2>2, <2>3, <2>4
  <1>14. CASE SetCount
    BY <1>14 DEF SetCount
  <1>15. CASE StoreEdge
    BY <1>15 DEF StoreEdge
  <1>16. CASE ClearCrashed
    BY <1>16 DEF ClearCrashed
  <1>17. CASE LastCount
    BY <1>17 DEF LastCount
  <1>18. CASE Crash
    BY <1>18 DEF Crash
  <1> QED
    BY <1>1, <1>2, <1>3, <1>4, <1>5, <1>6, <1>7, <1>8, <1>9, <1>10, <1>11,
        <1>12, <1>13, <1>14, <1>15, <1>16, <1>17, <1>18
    DEF Next, Construct, Call, AllocEntry, End

\* The vertices that are made, with and without a process.
LEMMA MadeStep == LifeInv /\ Next => MadeInv'
  <1> SUFFICES ASSUME LifeInv, Next PROVE MadeInv'
    OBVIOUS
  <1> USE ConstantsAssumption
      DEF LifeInv, TypeOK, Entry, Goto, metaVars, fileVars, indexVars,
          callVars, history, NoMemory, Returned, Unmapped, NewPool,
          Constructor, Mapped, Filled, Inserting, IndexInv, CallInv, CountInv,
          MadeInv
  <1>1. CASE InitPool
    BY <1>1 DEF InitPool
  <1>2. CASE OpenNew
    BY <1>2 DEF OpenNew
  <1>3. CASE AllocVertices
    BY <1>3 DEF AllocVertices
  <1>4. CASE AllocAlignment
    BY <1>4 DEF AllocAlignment
  <1>5. CASE SetAlignment
    BY <1>5 DEF SetAlignment
  <1>6. CASE AllocRoots
    BY <1>6 DEF AllocRoots
  <1>7. CASE SetCrashed
    BY <1>7 DEF SetCrashed
  <1>8. CASE OpenOld
    BY <1>8 DEF OpenOld
  <1>9. CASE InsertEdge
    BY <1>9 DEF InsertEdge
  <1>10. CASE Find
    BY <1>10 DEF Find
  <1>11. CASE high < num_vertices /\ TakeEntry
    BY <1>11 DEF TakeEntry
  <1>12. CASE NoEntry
    BY <1>12 DEF NoEntry
  <1>13. CASE SetId
    BY <1>13 DEF SetId
  <1>14. CASE SetCount
    BY <1>14 DEF SetCount
  <1>15. CASE StoreEdge
    BY <1>15 DEF StoreEdge
  <1>16. CASE ClearCrashed
    BY <1>16 DEF ClearCrashed
  <1>17. CASE LastCount
    BY <1>17 DEF LastCount
  <1>18. CASE Crash
    BY <1>18 DEF Crash
  <1> QED
    BY <1>1, <1>2, <1>3, <1>4, <1>5, <1>6, <1>7, <1>8, <1>9, <1>10, <1>11,
        <1>12, <1>13, <1>14, <1>15, <1>16, <1>17, <1>18
    DEF Next, Construct, Call, AllocEntry, End

\* The edges, as long as no process dies.
LEMMA GraphStep == LifeInv /\ GraphInv /\ Next => GraphInv'
  <1> SUFFICES ASSUME LifeInv, GraphInv, Next PROVE GraphInv'
    OBVIOUS
  <1> USE ConstantsAssumption
      DEF LifeInv, TypeOK, Entry, Goto, metaVars, fileVars, indexVars,
          callVars, history, NoMemory, Returned, Unmapped, NewPool,
          Constructor, Mapped, Filled, Inserting, IndexInv, CallInv, CountInv,
          GraphInv
  <1>1. CASE InitPool
    BY <1>1 DEF InitPool
  <1>2. CASE OpenNew
    BY <1>2 DEF OpenNew
  <1>3. CASE AllocVertices
    BY <1>3 DEF AllocVertices
  <1>4. CASE AllocAlignment
    BY <1>4 DEF AllocAlignment
  <1>5. CASE SetAlignment
    BY <1>5 DEF SetAlignment
  <1>6. CASE AllocRoots
    BY <1>6 DEF AllocRoots
  <1>7. CASE SetCrashed
    BY <1>7 DEF SetCrashed
  <1>8. CASE OpenOld
    BY <1>8 DEF OpenOld
  <1>9. CASE InsertEdge
    BY <1>9 DEF InsertEdge
  <1>10. CASE Find
    BY <1>10 DEF Find
  <1>11. CASE high < num_vertices /\ TakeEntry
    BY <1>11 DEF TakeEntry
  <1>12. CASE NoEntry
    BY <1>12 DEF NoEntry
  <1>13. CASE SetId
    BY <1>13 DEF SetId
  <1>14. CASE SetCount
    BY <1>14 DEF SetCount
  <1>15. CASE StoreEdge
    <2> DEFINE s == p_t_l_mapper[edge[1]]
               d == p_t_l_mapper[edge[2]]
    <2> SUFFICES ASSUME ~died PROVE GraphInv'
      BY <1>15 DEF StoreEdge
    <2>1. /\ s \in Entry /\ d \in Entry /\ s < high /\ d < high
          /\ id[s] = edge[1] /\ id[d] = edge[2]
      BY <1>15 DEF StoreEdge
    <2>2. /\ edges' = [edges EXCEPT ![s] = @ \cup {d}]
          /\ inserted' = inserted \cup {edge}
          /\ id' = id /\ Filled' = high /\ Filled = high /\ pc' = "run"
      BY <1>15 DEF StoreEdge
    <2>3. edge = <<id[s], id[d]>>
      BY <1>15, <2>1 DEF StoreEdge
    <2> HIDE DEF s, d
    <2>4. \A i \in Entry : \A j \in edges'[i] : i < high /\ j < high
      BY <1>15, <2>1, <2>2 DEF StoreEdge
    <2>5. ASSUME NEW e \in Physical \X Physical
          PROVE  e \in inserted' <=>
                    \E i \in Entry : \E j \in edges'[i] : e = <<id[i], id[j]>>
      <3>1. e \in inserted <=>
               \E i \in Entry : \E j \in edges[i] : e = <<id[i], id[j]>>
        OBVIOUS
      <3>2. /\ edges'[s] = edges[s] \cup {d}
            /\ \A i \in Entry : i # s => edges'[i] = edges[i]
        BY <2>1, <2>2
      <3>3. ASSUME e \in inserted'
            PROVE  \E i \in Entry : \E j \in edges'[i] : e = <<id[i], id[j]>>
        <4>1. CASE e \in inserted
          <5>1. PICK i \in Entry : \E j \in edges[i] : e = <<id[i], id[j]>>
            BY <3>1, <4>1
          <5>2. PICK j \in edges[i] : e = <<id[i], id[j]>>
            BY <5>1
          <5>3. j \in edges'[i]
            BY <3>2
          <5> QED
            BY <5>2, <5>3
        <4>2. CASE e = edge
          BY <2>1, <2>3, <3>2, <4>2
        <4> QED
          BY <2>2, <3>3, <4>1, <4>2
      <3>4. ASSUME NEW i \in Entry, NEW j \in edges'[i], e = <<id[i], id[j]>>
            PROVE  e \in inserted'
        <4>1. CASE j \in edges[i]
          BY <2>2, <3>1, <3>4, <4>1
        <4>2. CASE j \notin edges[i]
          <5>1. i = s /\ j = d
            BY <3>2, <4>2
          <5> QED
            BY <2>2, <2>3, <3>4, <5>1
        <4> QED
          BY <4>1, <4>2
      <3> QED
        BY <3>3, <3>4
    <2> QED
      BY <2>2, <2>4, <2>5
  <1>16. CASE ClearCrashed
    BY <1>16 DEF ClearCrashed
  <1>17. CASE LastCount
    BY <1>17 DEF LastCount
  <1>18. CASE Crash
    BY <1>18 DEF Crash
  <1> QED
    BY <1>1, <1>2, <1>3, <1>4, <1>5, <1>6, <1>7, <1>8, <1>9, <1>10, <1>11,
        <1>12, <1>13, <1>14, <1>15, <1>16, <1>17, <1>18
    DEF Next, Construct, Call, AllocEntry, End


-----------------------------------------------------------------------------
\* LifeInv and GraphInv are inductive.
THEOREM LifeInvariant == Spec => [](LifeInv /\ GraphInv)
  <1>1. Init => LifeInv /\ GraphInv
    BY LifeInit
  <1>2. LifeInv /\ GraphInv /\ [Next]_vars => (LifeInv /\ GraphInv)'
    <2> SUFFICES ASSUME LifeInv, GraphInv, [Next]_vars
                 PROVE  (LifeInv /\ GraphInv)'
      OBVIOUS
    <2>1. CASE Next
      BY <2>1, TypeStep, NewPoolStep, IndexStep, CallStep, CountStep, MadeStep,
         GraphStep DEF LifeInv
    <2>2. CASE UNCHANGED vars
      BY <2>2
      DEF vars, LifeInv, GraphInv, TypeOK, NewPool, IndexInv, CallInv,
          CountInv, MadeInv, Filled, Mapped
    <2> QED
      BY <2>1, <2>2
  <1> QED
    BY <1>1, <1>2, PTL DEF Spec

\* The types of the file, of the index in memory and of the call that runs,
\* over any number of processes.
THEOREM TypeCorrect == Spec => []TypeOK
  <1>1. LifeInv /\ GraphInv => TypeOK
    BY DEF LifeInv
  <1> QED
    BY <1>1, LifeInvariant, PTL

\* Between two calls and while a vertex is looked for, the entries below high
\* and the mapped vertices are the same, one for one, whatever ended the
\* process before: re_map rebuilds the index insert_vertex had (in particular
\* as many vertices are mapped as entries are taken).
THEOREM IndexCorrect == Spec => []IndexMatchesArray
  <1>1. LifeInv => IndexMatchesArray
    <2> SUFFICES ASSUME LifeInv, pc \in {"run", "find"}
                 PROVE  /\ \A v \in Mapped : p_t_l_mapper[v] < high
                                            /\ id[p_t_l_mapper[v]] = v
                        /\ Cardinality(Mapped) = high
      BY DEF IndexMatchesArray
    <2>1. Filled = high
      BY DEF Filled
    <2>2. \A v \in Mapped : p_t_l_mapper[v] < high /\ id[p_t_l_mapper[v]] = v
      BY <2>1 DEF LifeInv, IndexInv
    <2> DEFINE D == 0 .. high - 1
               f == [i \in D |-> id[i]]
    <2>3. high \in Nat /\ D \subseteq Entry
      BY ConstantsAssumption DEF LifeInv, TypeOK, Entry
    <2>4. \A i \in D : id[i] \in Mapped /\ p_t_l_mapper[id[i]] = i
      BY <2>1, <2>3 DEF LifeInv, IndexInv, Mapped
    <2>5. \A v \in Mapped : p_t_l_mapper[v] \in D
      BY <2>2, ConstantsAssumption DEF LifeInv, TypeOK, Mapped, Entry
    <2>6. f \in Bijection(D, Mapped)
      <3>1. f \in [D -> Mapped] /\ \A i, j \in D : f[i] = f[j] => i = j
        BY <2>4
      <3>2. \A v \in Mapped : \E i \in D : f[i] = v
        BY <2>2, <2>5
      <3> QED
        BY <3>1, <3>2, Fun_IsBij
    <2>7. IsFiniteSet(D) /\ Cardinality(D) = high
      BY <2>3, FS_Interval
    <2>8. Cardinality(Mapped) = Cardinality(D)
      BY <2>6, <2>7, FS_Bijection, Fun_ExistsBij
    <2> QED
      BY <2>2, <2>7, <2>8
  <1> QED
    BY <1>1, LifeInvariant, PTL

\* Over any number of processes that all end by the destructor, a reader that
\* looks between two calls reports the edges that were inserted, between the
\* same vertex ids.
THEOREM GraphCorrect == Spec => []GraphExact
  <1>1. LifeInv /\ GraphInv => GraphExact
    <2> SUFFICES ASSUME LifeInv, GraphInv, pc = "run", ~died
                 PROVE  Reported = inserted
      BY DEF GraphExact
    <2>1. \A i \in Entry : \A j \in edges[i] :
             /\ i < high /\ j < high /\ j \in Entry
             /\ id[i] \in Mapped /\ p_t_l_mapper[id[i]] = i
             /\ id[j] \in Physical
      <3> SUFFICES ASSUME NEW i \in Entry, NEW j \in edges[i]
                   PROVE  /\ i < high /\ j < high /\ j \in Entry
                          /\ id[i] \in Mapped /\ p_t_l_mapper[id[i]] = i
                          /\ id[j] \in Physical
        OBVIOUS
      <3>1. i < high /\ j < high
        BY DEF GraphInv, Filled
      <3>2. j \in Entry /\ i # -1
        BY ConstantsAssumption DEF LifeInv, TypeOK, Entry
      <3> QED
        BY <3>1, <3>2 DEF LifeInv, IndexInv, Filled, Mapped
    <2>2. \A v \in Mapped :
             p_t_l_mapper[v] \in Entry /\ id[p_t_l_mapper[v]] = v
      BY DEF LifeInv, TypeOK, IndexInv, Mapped
    <2>3. ASSUME NEW e \in Reported PROVE e \in inserted
      <3>1. PICK v \in Mapped :
                e \in {<<v, id[j]>> : j \in edges[p_t_l_mapper[v]]}
        BY <2>3 DEF Reported
      <3>2. PICK j \in edges[p_t_l_mapper[v]] : e = <<v, id[j]>>
        BY <3>1
      <3>3. e \in Physical \X Physical
        BY <2>1, <2>2, <3>2 DEF Mapped
      <3> QED
        BY <2>2, <3>2, <3>3 DEF GraphInv
    <2>4. ASSUME NEW e \in inserted PROVE e \in Reported
      <3>1. e \in Physical \X Physical
        BY <2>4 DEF LifeInv, TypeOK
      <3>2. PICK i \in Entry : \E j \in edges[i] : e = <<id[i], id[j]>>
        BY <2>4, <3>1 DEF GraphInv
      <3>3. PICK j \in edges[i] : e = <<id[i], id[j]>>
        BY <3>2
      <3>4. id[i] \in Mapped /\ p_t_l_mapper[id[i]] = i
        BY <2>1
      <3>5. e \in {<<id[i], id[k]>> : k \in edges[p_t_l_mapper[id[i]]]}
        BY <3>3, <3>4
      <3> QED
        BY <3>4, <3>5 DEF Reported
    <2> QED
      BY <2>3, <2>4
  <1> QED
    BY <1>1, LifeInvariant, PTL

\* Whatever ended the last process, opening its file forgets at most one of the
\* vertices it had made: that of the entry the count does not reach.
THEOREM ForgetsOne == Spec => OneForgotten
  <1>1. LifeInv /\ LifeInv' /\ [Next]_vars
           => [pc = "down" /\ pc' = "run"
                  => Cardinality(made \ made') <= 1]_vars
    <2> SUFFICES ASSUME LifeInv, LifeInv', Next, pc = "down", pc' = "run"
                 PROVE  Cardinality(made \ made') <= 1
      OBVIOUS
    <2>1. OpenOld
      BY DEF Next, Construct, Call, AllocEntry, End, Goto, InitPool, OpenNew,
             AllocVertices, AllocAlignment, SetAlignment, AllocRoots,
             SetCrashed, InsertEdge, Find, TakeEntry, NoEntry, SetId,
             SetCount, StoreEdge, ClearCrashed, LastCount, Crash
    <2>2. high' = count /\ id' = id /\ Filled' = count /\ made' = Mapped'
      BY <2>1, ConstantsAssumption
      DEF OpenOld, LifeInv, TypeOK, fileVars, Filled, MadeInv
    <2>3. made \ made' \subseteq {id[count]}
      <3> SUFFICES ASSUME NEW v \in made, v # id[count] PROVE v \in made'
        OBVIOUS
      <3>1. PICK i \in Entry : i <= count /\ id[i] = v
        BY DEF LifeInv, MadeInv
      <3>2. i < count /\ i # -1
        BY <3>1, ConstantsAssumption DEF LifeInv, TypeOK, Entry
      <3>3. v \in Physical /\ p_t_l_mapper'[v] = i
        BY <2>2, <3>1, <3>2 DEF LifeInv, IndexInv
      <3> QED
        BY <2>2, <3>2, <3>3 DEF Mapped
    <2>4. IsFiniteSet({id[count]}) /\ Cardinality({id[count]}) = 1
      BY FS_Singleton
    <2> QED
      BY <2>3, <2>4, FS_Subset
  <1> QED
    BY <1>1, LifeInvariant, PTL DEF Spec, OneForgotten
=============================================================================
