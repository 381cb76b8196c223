-------------------------- MODULE IngestionProofs --------------------------
(***************************************************************************)
(* Theorems of Ingestion: any file that the build supports, any batch      *)
(* size, any number of threads.                                            *)
(***************************************************************************)
EXTENDS Ingestion, SequenceTheorems, TLAPS

-----------------------------------------------------------------------------
\* The shares of the threads.

\* A quotient and its remainder.
LEMMA Quotient ==
  ASSUME NEW a \in Nat, NEW b \in Nat \ {0}
  PROVE  /\ a \div b \in Nat
         /\ (a \div b) * b <= a
         /\ a < (a \div b) * b + b
  <1>1. /\ a \div b \in Nat
        /\ b * (a \div b) <= a
    OBVIOUS
  <1>2. a < b * ((a \div b) + 1)
    OBVIOUS
  <1>. QED BY <1>1, <1>2

LEMMA ProductMonotone ==
  ASSUME NEW t \in Nat, NEW u \in Nat, t <= u, NEW a \in Nat
  PROVE  /\ t * a \in Nat
         /\ u * a \in Nat
         /\ t * a <= u * a
         /\ (t + 1) * a = t * a + a
  OBVIOUS

LEMMA PositionsType ==
  ASSUME NEW a \in Nat, NEW b \in Nat, a <= b, NEW num \in Nat, b <= num
  PROVE  /\ Positions(a, b) \in Seq(1 .. num)
         /\ Len(Positions(a, b)) = b - a
         /\ \A i \in 1 .. b - a : Positions(a, b)[i] = a + i
  <1>1. b - a \in Nat
    OBVIOUS
  <1>2. \A i \in 1 .. b - a : a + i \in 1 .. num
    OBVIOUS
  <1>. QED BY <1>1, <1>2 DEF Positions

\* Where the share of a thread begins and ends: it takes the positions behind
\* the first number, up to the second.
From(t, num) ==
    IF build = "parallel" THEN t * (num \div THREAD_NUM) ELSE 0
UpTo(t, num) ==
    IF build = "parallel"
    THEN IF t < THREAD_NUM - 1 THEN (t + 1) * (num \div THREAD_NUM) ELSE num
    ELSE IF t = 0 THEN num ELSE 0

LEMMA ShareBounds ==
  ASSUME NEW num \in Nat, NEW t \in Thread
  PROVE  /\ From(t, num) \in Nat
         /\ UpTo(t, num) \in Nat
         /\ From(t, num) <= UpTo(t, num)
         /\ UpTo(t, num) <= num
  <1>. DEFINE avg == num \div THREAD_NUM
  <1>1. /\ THREAD_NUM \in Nat \ {0}
        /\ t \in Nat
        /\ t <= THREAD_NUM - 1
    BY IngestionAssumption DEF Thread
  <1>2. avg \in Nat /\ avg * THREAD_NUM <= num
    BY <1>1, Quotient
  <1>3. THREAD_NUM * avg <= num
    BY <1>1, <1>2
  <1>. HIDE DEF avg
  <1>4. /\ t * avg \in Nat
        /\ (t + 1) * avg = t * avg + avg
        /\ (t + 1) * avg <= THREAD_NUM * avg
    BY <1>1, <1>2, ProductMonotone, t + 1 \in Nat, t + 1 <= THREAD_NUM
  <1>5. t * avg <= num /\ (t + 1) * avg <= num /\ (t + 1) * avg \in Nat
    <2>1. (t + 1) * avg \in Nat /\ THREAD_NUM * avg \in Nat
      BY <1>1, <1>2, <1>4
    <2>. QED BY <2>1, <1>2, <1>3, <1>4
  <1>. QED BY <1>1, <1>2, <1>4, <1>5 DEF From, UpTo, avg

LEMMA ShareIs ==
  ASSUME NEW num \in Nat, NEW t \in Thread
  PROVE  Shares(num)[t] = Positions(From(t, num), UpTo(t, num))
  <1>1. t \in Nat /\ t <= THREAD_NUM - 1 /\ THREAD_NUM \in Nat
    BY IngestionAssumption DEF Thread
  <1>2. CASE build = "parallel"
    <2>1. CASE t < THREAD_NUM - 1
      <3>1. Shares(num)[t] = Positions(t * (num \div THREAD_NUM), (t + 1) * (num \div THREAD_NUM))
        BY <1>2, <2>1 DEF Shares
      <3>2. From(t, num) = t * (num \div THREAD_NUM)
        BY <1>2 DEF From
      <3>3. UpTo(t, num) = (t + 1) * (num \div THREAD_NUM)
        BY <1>2, <2>1 DEF UpTo
      <3>. QED BY <3>1, <3>2, <3>3, Zenon
    <2>2. CASE t = THREAD_NUM - 1
      <3>1. ~(t < THREAD_NUM - 1)
        BY <1>1, <2>2
      <3>. QED BY <1>2, <2>2, <3>1 DEF Shares, From, UpTo
    <2>. QED BY <1>1, <2>1, <2>2
  <1>3. CASE build # "parallel" /\ t = 0
    BY <1>3 DEF Shares, From, UpTo
  <1>4. CASE build # "parallel" /\ t # 0
    <2>1. Shares(num)[t] = <<>>
      BY <1>4 DEF Shares
    <2>2. From(t, num) = 0 /\ UpTo(t, num) = 0
      BY <1>4 DEF From, UpTo
    <2>3. Positions(0, 0) = <<>>
      <3>1. /\ Positions(0, 0) \in Seq(1 .. 0)
            /\ Len(Positions(0, 0)) = 0 - 0
        BY PositionsType
      <3>. QED BY <3>1, EmptySeq
    <2>. QED BY <2>1, <2>2, <2>3
  <1>. QED BY <1>2, <1>3, <1>4

\* The thread whose share a position is in.
TakerOf(p, num) ==
    LET avg == num \div THREAD_NUM
    IN  IF build # "parallel" THEN 0
        ELSE IF avg = 0 THEN THREAD_NUM - 1
        ELSE IF (p - 1) \div avg < THREAD_NUM - 1 THEN (p - 1) \div avg
        ELSE THREAD_NUM - 1

LEMMA TakerTakes ==
  ASSUME NEW num \in Nat, NEW p \in 1 .. num
  PROVE  /\ TakerOf(p, num) \in Thread
         /\ From(TakerOf(p, num), num) < p
         /\ p <= UpTo(TakerOf(p, num), num)
  <1>. DEFINE avg == num \div THREAD_NUM
              q == (p - 1) \div avg
              last_thread == THREAD_NUM - 1
  <1>1. THREAD_NUM \in Nat \ {0} /\ last_thread \in Nat /\ p - 1 \in Nat
    BY IngestionAssumption
  <1>2. avg \in Nat
    BY <1>1, Quotient
  <1>3. CASE build # "parallel"
    BY <1>1, <1>3 DEF TakerOf, From, UpTo, Thread
  <1>4. CASE build = "parallel" /\ avg = 0
    <2>1. TakerOf(p, num) = last_thread
      BY <1>4 DEF TakerOf
    <2>2. From(last_thread, num) = 0
      BY <1>1, <1>4 DEF From
    <2>3. UpTo(last_thread, num) = num
      BY <1>1, <1>4 DEF UpTo
    <2>. QED BY <1>1, <2>1, <2>2, <2>3 DEF Thread
  <1>5. CASE build = "parallel" /\ avg # 0
    <2>1. q \in Nat /\ q * avg <= p - 1 /\ p - 1 < q * avg + avg
      BY <1>1, <1>2, <1>5, Quotient
    <2>. HIDE DEF avg, q
    <2>2. CASE q < last_thread
      <3>1. TakerOf(p, num) = q
        BY <1>5, <2>2 DEF TakerOf, avg, q
      <3>2. From(q, num) = q * avg
        BY <1>5 DEF From, avg
      <3>3. UpTo(q, num) = (q + 1) * avg
        BY <1>5, <2>2 DEF UpTo, avg
      <3>4. (q + 1) * avg = q * avg + avg /\ q * avg \in Nat
        BY <1>2, <2>1, ProductMonotone
      <3>. QED BY <1>1, <1>2, <2>1, <2>2, <3>1, <3>2, <3>3, <3>4 DEF Thread
    <2>3. CASE ~(q < last_thread)
      <3>1. TakerOf(p, num) = last_thread
        BY <1>5, <2>3 DEF TakerOf, avg, q
      <3>2. From(last_thread, num) = last_thread * avg
        BY <1>5 DEF From, avg
      <3>3. UpTo(last_thread, num) = num
        BY <1>1, <1>5 DEF UpTo
      <3>4. last_thread <= q
        BY <1>1, <2>1, <2>3
      <3>5. last_thread * avg <= q * avg /\ last_thread * avg \in Nat /\ q * avg \in Nat
        BY <1>1, <1>2, <2>1, <3>4, ProductMonotone
      <3>. QED BY <1>1, <1>2, <2>1, <3>1, <3>2, <3>3, <3>5 DEF Thread
    <2>. QED BY <2>2, <2>3
  <1>. QED BY <1>3, <1>4, <1>5

\* The shares are a partition of the batch: every position of it is in the
\* share of one thread, once, whatever the number of threads and the length of
\* the batch: no edge is left out and none is inserted by two threads.
\* (ingestion.h:79, deletion.h:36)
THEOREM SharesPartition ==
  ASSUME NEW num \in Nat
  PROVE  /\ Shares(num) \in [Thread -> Seq(1 .. num)]
         /\ \A p \in 1 .. num : \E t \in Thread :
              \E i \in 1 .. Len(Shares(num)[t]) : Shares(num)[t][i] = p
         /\ \A t, u \in Thread :
              \A i \in 1 .. Len(Shares(num)[t]), j \in 1 .. Len(Shares(num)[u]) :
                Shares(num)[t][i] = Shares(num)[u][j] => t = u /\ i = j
  <1>1. ASSUME NEW t \in Thread
        PROVE  /\ Shares(num)[t] \in Seq(1 .. num)
               /\ Len(Shares(num)[t]) = UpTo(t, num) - From(t, num)
               /\ \A i \in 1 .. UpTo(t, num) - From(t, num) :
                    Shares(num)[t][i] = From(t, num) + i
    <2>1. /\ From(t, num) \in Nat /\ UpTo(t, num) \in Nat
          /\ From(t, num) <= UpTo(t, num) /\ UpTo(t, num) <= num
      BY ShareBounds
    <2>2. Shares(num)[t] = Positions(From(t, num), UpTo(t, num))
      BY ShareIs
    <2>3. LET P == Positions(From(t, num), UpTo(t, num))
          IN  /\ P \in Seq(1 .. num)
              /\ Len(P) = UpTo(t, num) - From(t, num)
              /\ \A i \in 1 .. UpTo(t, num) - From(t, num) : P[i] = From(t, num) + i
      BY <2>1, PositionsType, Zenon
    <2>. QED BY <2>2, <2>3, Zenon
  <1>2. Shares(num) = [t \in Thread |-> Shares(num)[t]]
    BY DEF Shares
  <1>3. ASSUME NEW p \in 1 .. num
        PROVE  \E t \in Thread : \E i \in 1 .. Len(Shares(num)[t]) : Shares(num)[t][i] = p
    <2>. DEFINE t == TakerOf(p, num)
                i == p - From(t, num)
    <2>1. t \in Thread /\ From(t, num) < p /\ p <= UpTo(t, num)
      BY TakerTakes
    <2>. HIDE DEF t
    <2>2. From(t, num) \in Nat /\ UpTo(t, num) \in Nat
      BY <2>1, ShareBounds
    <2>3. i \in 1 .. UpTo(t, num) - From(t, num) /\ From(t, num) + i = p
      BY <2>1, <2>2
    <2>. QED BY <1>1, <2>1, <2>3
  <1>4. ASSUME NEW t \in Thread, NEW u \in Thread, t < u,
               NEW i \in 1 .. Len(Shares(num)[t]), NEW j \in 1 .. Len(Shares(num)[u])
        PROVE  Shares(num)[t][i] < Shares(num)[u][j]
    <2>. DEFINE avg == num \div THREAD_NUM
    <2>1. /\ t \in Nat /\ u \in Nat /\ THREAD_NUM \in Nat \ {0}
          /\ t + 1 <= u /\ u # 0 /\ t < THREAD_NUM - 1
      BY <1>4, IngestionAssumption DEF Thread
    <2>2. build = "parallel"
      <3>. SUFFICES ASSUME build # "parallel" PROVE FALSE
        OBVIOUS
      <3>1. From(u, num) = 0 /\ UpTo(u, num) = 0
        BY <2>1 DEF From, UpTo
      <3>. QED BY <1>1, <3>1
    <2>3. avg \in Nat
      BY <2>1, Quotient
    <2>4. UpTo(t, num) = (t + 1) * avg /\ From(u, num) = u * avg
      BY <2>1, <2>2 DEF From, UpTo
    <2>. HIDE DEF avg
    <2>5. (t + 1) * avg <= u * avg
      BY <2>1, <2>3, ProductMonotone, t + 1 \in Nat
    <2>6. /\ From(t, num) \in Nat /\ UpTo(t, num) \in Nat
          /\ From(u, num) \in Nat /\ UpTo(u, num) \in Nat
      BY ShareBounds
    <2>7. /\ Shares(num)[t][i] = From(t, num) + i /\ i \in Int
          /\ i <= UpTo(t, num) - From(t, num)
      <3>1. i \in 1 .. UpTo(t, num) - From(t, num)
        BY <1>1
      <3>2. Shares(num)[t][i] = From(t, num) + i
        BY <1>1, <3>1, Zenon
      <3>. QED BY <2>6, <3>1, <3>2
    <2>8. Shares(num)[u][j] = From(u, num) + j /\ j \in Int /\ j >= 1
      <3>1. j \in 1 .. UpTo(u, num) - From(u, num)
        BY <1>1
      <3>2. Shares(num)[u][j] = From(u, num) + j
        BY <1>1, <3>1, Zenon
      <3>. QED BY <2>6, <3>1, <3>2
    <2>. QED BY <2>4, <2>5, <2>6, <2>7, <2>8
  <1>5. ASSUME NEW t \in Thread, NEW u \in Thread,
               NEW i \in 1 .. Len(Shares(num)[t]), NEW j \in 1 .. Len(Shares(num)[u]),
               Shares(num)[t][i] = Shares(num)[u][j]
        PROVE  t = u /\ i = j
    <2>1. t \in Int /\ u \in Int
      BY DEF Thread
    <2>2. From(t, num) \in Nat /\ UpTo(t, num) \in Nat
      BY ShareBounds
    <2>3. /\ Shares(num)[t][i] = From(t, num) + i /\ i \in Int
          /\ Shares(num)[u][j] = From(u, num) + j /\ j \in Int
      <3>1. From(u, num) \in Nat /\ UpTo(u, num) \in Nat
        BY ShareBounds
      <3>2. i \in 1 .. UpTo(t, num) - From(t, num)
        BY <1>1
      <3>3. j \in 1 .. UpTo(u, num) - From(u, num)
        BY <1>1
      <3>4. Shares(num)[t][i] = From(t, num) + i
        BY <1>1, <3>2, Zenon
      <3>5. Shares(num)[u][j] = From(u, num) + j
        BY <1>1, <3>3, Zenon
      <3>. QED BY <2>2, <3>1, <3>2, <3>3, <3>4, <3>5
    <2>4. ~(t < u) /\ ~(u < t)
      <3>1. From(u, num) \in Int
        BY ShareBounds
      <3>2. Shares(num)[t][i] \in Int /\ Shares(num)[u][j] \in Int
        BY <2>2, <2>3, <3>1
      <3>. QED BY <1>4, <1>5, <3>2
    <2>5. t = u
      BY <2>1, <2>4
    <2>6. i = j
      <3>1. From(t, num) + i = From(t, num) + j
        BY <1>5, <2>3, <2>5, Zenon
      <3>. QED BY <2>2, <2>3, <3>1
    <2>. QED BY <2>5, <2>6
  <1>6. Shares(num) \in [Thread -> Seq(1 .. num)]
    BY <1>1, <1>2
  <1>. QED BY <1>3, <1>5, <1>6

-----------------------------------------------------------------------------
\* The inductive invariant.

\* The edges of the first n lines.
EdgesUpTo ==
    [n \in Nat |-> UNION {ToSet(EdgesOfLine(file[i])) : i \in 1 .. n}]

\* The last line the loop takes.
LastLine == IF newline \/ file = <<>> THEN Len(file) ELSE Len(file) - 1

\* What the threads have left to do, and what is read and not yet done.
LeftOf(b, tasks) == UNION {{b[tasks[t][i]] : i \in 1 .. Len(tasks[t])} : t \in Thread}
Pending == IF pc = "read" THEN ToSet(batch) ELSE LeftOf(batch, todo)

NoTodo == [t \in Thread |-> <<>>]

LoadTypes ==
    /\ file \in Seq(Lines)
    /\ newline \in BOOLEAN
    /\ is_directed \in BOOLEAN
    /\ phase \in {"ingestion", "deletion"}
    /\ pc \in {"read", "run", "check", "done"}
    /\ pos \in Nat
    /\ batch \in Seq(Nat \X Nat)
    /\ last \in BOOLEAN
    /\ todo \in [Thread -> Seq(1 .. Len(batch))]

\* The batch comes from the lines read so far, and the threads work on it
\* between "run" and the join only.
BatchRead ==
    /\ pos <= LastLine
    /\ ToSet(batch) \subseteq EdgesUpTo[pos]
    /\ pc # "run" => todo = NoTodo
    /\ last => pos = LastLine
    /\ pc = "done" => last /\ batch = <<>>

\* No edge that was read is lost: it is in the graph or still to be done; and
\* none is left behind by the deletion.
NothingLost ==
    /\ phase = "ingestion" => EdgesUpTo[pos] = stored \cup Pending
    /\ phase = "deletion" =>
         /\ stored \subseteq EdgesUpTo[LastLine]
         /\ stored \cap EdgesUpTo[pos] \subseteq Pending

\* In the parallel build no edge comes twice: the batch has none twice, none
\* of its positions is left to two threads, and none of the edges not yet
\* inserted is in the graph.
AllNew ==
    /\ \A i, j \in 1 .. Len(batch) : batch[i] = batch[j] => i = j
    /\ \A t, u \in Thread : \A i \in 1 .. Len(todo[t]), j \in 1 .. Len(todo[u]) :
          todo[t][i] = todo[u][j] => t = u /\ i = j
    /\ Pending \cap stored = {}

LoadInv ==
    /\ LoadTypes /\ BatchRead
    /\ phase = "deletion" => build = "sequential"
    /\ Supported => NothingLost
    /\ Supported /\ build = "parallel" => AllNew
-----------------------------------------------------------------------------
\* What the lines say.

LEMMA LastLineType ==
  ASSUME LoadTypes
  PROVE  LastLine \in Nat /\ LastLine <= Len(file)
  <1>1. Len(file) \in Nat /\ (file # <<>> => Len(file) # 0)
    BY LenProperties, EmptySeq DEF LoadTypes
  <1>. QED BY <1>1 DEF LastLine

LEMMA FileEdgesUpTo ==
  ASSUME LoadTypes
  PROVE  FileEdges = EdgesUpTo[LastLine]
  <1>1. Len(file) \in Nat /\ (file = <<>> => Len(file) = 0)
    BY LenProperties, EmptySeq DEF LoadTypes
  <1>. DEFINE n == IF newline THEN Len(file) ELSE Len(file) - 1
  <1>2. 1 .. n = 1 .. LastLine
    BY <1>1 DEF LastLine
  <1>3. FileEdges = UNION {ToSet(EdgesOfLine(file[i])) : i \in 1 .. n}
    BY DEF FileEdges, FileLines
  <1>. HIDE DEF n
  <1>4. FileEdges = UNION {ToSet(EdgesOfLine(file[i])) : i \in 1 .. LastLine}
    BY <1>2, <1>3
  <1>. QED BY <1>4, LastLineType DEF EdgesUpTo

LEMMA EdgesUpToNext ==
  ASSUME NEW n \in Nat
  PROVE  EdgesUpTo[n + 1] = EdgesUpTo[n] \cup ToSet(EdgesOfLine(file[n + 1]))
  <1>. DEFINE E(i) == ToSet(EdgesOfLine(file[i]))
  <1>1. EdgesUpTo[n] = UNION {E(i) : i \in 1 .. n}
    BY DEF EdgesUpTo
  <1>2. EdgesUpTo[n + 1] = UNION {E(i) : i \in 1 .. n + 1}
    BY DEF EdgesUpTo
  <1>. HIDE DEF E
  <1>3. 1 .. n + 1 = 1 .. n \cup {n + 1}
    OBVIOUS
  <1>4. UNION {E(i) : i \in 1 .. n + 1} = (UNION {E(i) : i \in 1 .. n}) \cup E(n + 1)
    <2>1. ASSUME NEW x \in UNION {E(i) : i \in 1 .. n + 1}
          PROVE  x \in (UNION {E(i) : i \in 1 .. n}) \cup E(n + 1)
      <3>1. PICK i \in 1 .. n + 1 : x \in E(i)
        BY <2>1
      <3>2. i \in 1 .. n \/ i = n + 1
        BY <1>3
      <3>. QED BY <3>1, <3>2
    <2>2. UNION {E(i) : i \in 1 .. n} \subseteq UNION {E(i) : i \in 1 .. n + 1}
      BY <1>3
    <2>3. E(n + 1) \subseteq UNION {E(i) : i \in 1 .. n + 1}
      <3>1. n + 1 \in 1 .. n + 1
        OBVIOUS
      <3>. QED BY <3>1
    <2>. QED BY <2>1, <2>2, <2>3
  <1>5. EdgesUpTo[n + 1] = EdgesUpTo[n] \cup E(n + 1)
    BY <1>1, <1>2, <1>4
  <1>. QED BY <1>5 DEF E

\* In a file that has no edge twice, a line has no edge of the lines before it,
\* nor one edge twice.
LEMMA LineIsNew ==
  ASSUME LoadTypes, NoEdgeTwice, NEW n \in Nat, n < LastLine
  PROVE  /\ ToSet(EdgesOfLine(file[n + 1])) \cap EdgesUpTo[n] = {}
         /\ \A i, j \in 1 .. Len(EdgesOfLine(file[n + 1])) :
              EdgesOfLine(file[n + 1])[i] = EdgesOfLine(file[n + 1])[j] => i = j
  <1>1. Len(file) \in Nat /\ (file = <<>> => Len(file) = 0)
    BY LenProperties, EmptySeq DEF LoadTypes
  <1>2. n + 1 \in FileLines /\ \A i \in 1 .. n : i \in FileLines /\ i # n + 1
    BY <1>1 DEF FileLines, LastLine, LoadTypes
  <1>3. ToSet(EdgesOfLine(file[n + 1])) \cap EdgesUpTo[n] = {}
    <2>. SUFFICES ASSUME NEW x \in EdgesUpTo[n], x \in ToSet(EdgesOfLine(file[n + 1]))
                  PROVE  FALSE
      OBVIOUS
    <2>1. PICK i \in 1 .. n : x \in ToSet(EdgesOfLine(file[i]))
      BY DEF EdgesUpTo
    <2>2. ToSet(EdgesOfLine(file[i])) \cap ToSet(EdgesOfLine(file[n + 1])) = {}
      BY <1>2 DEF NoEdgeTwice
    <2>. QED BY <2>1, <2>2
  <1>4. file[n + 1] \in (Nat \ {0}) \X (Nat \ {0})
    <2>1. n + 1 \in 1 .. Len(file)
      BY <1>1 DEF LastLine, LoadTypes
    <2>. QED BY <2>1, ElementOfSeq, IngestionAssumption DEF LoadTypes
  <1>5. CASE is_directed
    <2>1. EdgesOfLine(file[n + 1]) = <<Edge(file[n + 1])>>
      BY <1>5 DEF EdgesOfLine
    <2>. HIDE DEF Edge
    <2>2. Len(EdgesOfLine(file[n + 1])) = 1
      BY <2>1
    <2>. QED BY <1>3, <2>2
  <1>6. CASE ~is_directed
    <2>. DEFINE e == Edge(file[n + 1])
    <2>1. EdgesOfLine(file[n + 1]) = <<e, Turned(e)>>
      BY <1>6 DEF EdgesOfLine
    <2>2. e # Turned(e)
      <3>1. file[n + 1][1] # file[n + 1][2]
        BY <1>2, <1>6 DEF NoEdgeTwice
      <3>2. e[1] = file[n + 1][1] - 1 /\ e[2] = file[n + 1][2] - 1
        BY DEF Edge
      <3>3. e[1] # e[2] /\ Turned(e)[1] = e[2]
        BY <1>4, <3>1, <3>2 DEF Turned
      <3>. QED BY <3>3
    <2>. HIDE DEF e
    <2>3. /\ Len(<<e, Turned(e)>>) = 2
          /\ <<e, Turned(e)>>[1] = e /\ <<e, Turned(e)>>[2] = Turned(e)
      OBVIOUS
    <2>4. \A i \in 1 .. 2 : i = 1 \/ i = 2
      OBVIOUS
    <2>. QED BY <1>3, <2>1, <2>2, <2>3, <2>4
  <1>. QED BY <1>5, <1>6

LEMMA EdgesUpToNone == EdgesUpTo[0] = {}
  <1>1. EdgesUpTo[0] = UNION {ToSet(EdgesOfLine(file[i])) : i \in 1 .. 0}
    BY DEF EdgesUpTo
  <1>2. 1 .. 0 = {}
    OBVIOUS
  <1>. QED BY <1>1, <1>2

\* A line of the file gives edges of vertices.
LEMMA EdgesOfLineType ==
  ASSUME NEW l \in Lines
  PROVE  EdgesOfLine(l) \in Seq(Nat \X Nat)
  <1>1. l \in (Nat \ {0}) \X (Nat \ {0})
    BY IngestionAssumption
  <1>2. l[1] - 1 \in Nat /\ l[2] - 1 \in Nat
    BY <1>1
  <1>3. Edge(l) \in Nat \X Nat /\ Turned(Edge(l)) \in Nat \X Nat
    BY <1>2 DEF Edge, Turned
  <1>. HIDE DEF Edge, Turned
  <1>4. <<Edge(l)>> \in Seq(Nat \X Nat) /\ <<Edge(l), Turned(Edge(l))>> \in Seq(Nat \X Nat)
    BY <1>3
  <1>. QED BY <1>4 DEF EdgesOfLine

\* The elements of a concatenation.
LEMMA ToSetConcat ==
  ASSUME NEW S, NEW s \in Seq(S), NEW r \in Seq(S)
  PROVE  /\ s \o r \in Seq(S)
         /\ ToSet(s \o r) = ToSet(s) \cup ToSet(r)
         /\ Len(s) <= Len(s \o r)
  <1>1. /\ s \o r \in Seq(S)
        /\ Len(s) \in Nat /\ Len(r) \in Nat
        /\ Len(s \o r) = Len(s) + Len(r)
        /\ \A i \in 1 .. Len(s) + Len(r) :
             (s \o r)[i] = IF i <= Len(s) THEN s[i] ELSE r[i - Len(s)]
    BY ConcatProperties, LenProperties
  <1>2. \A q \in Seq(S) : ToSet(q) = {q[i] : i \in 1 .. Len(q)}
    BY LenProperties DEF ToSet
  <1>3. ASSUME NEW x \in ToSet(s \o r) PROVE x \in ToSet(s) \cup ToSet(r)
    <2>1. PICK i \in 1 .. Len(s) + Len(r) : x = (s \o r)[i]
      <3>1. ToSet(s \o r) = {(s \o r)[i] : i \in 1 .. Len(s) + Len(r)}
        BY <1>1, <1>2, Zenon
      <3>. QED BY <1>3, <3>1, Zenon
    <2>2. CASE i <= Len(s)
      BY <1>1, <1>2, <2>1, <2>2
    <2>3. CASE i > Len(s)
      <3>1. i - Len(s) \in 1 .. Len(r) /\ x = r[i - Len(s)]
        BY <1>1, <2>1, <2>3
      <3>. QED BY <1>2, <3>1
    <2>. QED BY <1>1, <2>2, <2>3
  <1>4. ASSUME NEW x \in ToSet(s) PROVE x \in ToSet(s \o r)
    <2>1. PICK i \in 1 .. Len(s) : x = s[i]
      BY <1>2, <1>4
    <2>2. i \in 1 .. Len(s) + Len(r) /\ (s \o r)[i] = x
      BY <1>1, <2>1
    <2>. QED BY <1>1, <1>2, <2>2
  <1>5. ASSUME NEW x \in ToSet(r) PROVE x \in ToSet(s \o r)
    <2>1. PICK i \in 1 .. Len(r) : x = r[i]
      BY <1>2, <1>5
    <2>2. i + Len(s) \in 1 .. Len(s) + Len(r) /\ (s \o r)[i + Len(s)] = x
      <3>1. i + Len(s) \in 1 .. Len(s) + Len(r) /\ ~(i + Len(s) <= Len(s))
        BY <1>1
      <3>2. (i + Len(s)) - Len(s) = i
        BY <1>1
      <3>. QED BY <1>1, <2>1, <3>1, <3>2
    <2>. QED BY <1>1, <1>2, <2>2
  <1>. QED BY <1>1, <1>3, <1>4, <1>5

-----------------------------------------------------------------------------
\* What the threads have left.

LEMMA InLeftOf ==
  ASSUME NEW b, NEW tasks, NEW x
  PROVE  x \in LeftOf(b, tasks)
           <=> \E t \in Thread : \E i \in 1 .. Len(tasks[t]) : x = b[tasks[t][i]]
  BY DEF LeftOf

LEMMA LeftOfNone ==
  ASSUME NEW b
  PROVE  LeftOf(b, NoTodo) = {} /\ NoTodo \in [Thread -> Seq(1 .. Len(b))]
  <1>1. \A t \in Thread : NoTodo[t] = <<>>
    BY DEF NoTodo
  <1>2. <<>> \in Seq(1 .. Len(b))
    OBVIOUS
  <1>3. \A t \in Thread : 1 .. Len(NoTodo[t]) = {}
    <2>1. Len(<<>>) = 0 /\ 1 .. 0 = {}
      OBVIOUS
    <2>. QED BY <1>1, <2>1
  <1>4. LeftOf(b, NoTodo) = {}
    <2>. SUFFICES ASSUME NEW x \in LeftOf(b, NoTodo) PROVE FALSE
      OBVIOUS
    <2>1. PICK t \in Thread : x \in {b[NoTodo[t][i]] : i \in 1 .. Len(NoTodo[t])}
      BY DEF LeftOf
    <2>. QED BY <1>3, <2>1
  <1>5. NoTodo \in [Thread -> Seq(1 .. Len(b))]
    BY <1>2 DEF NoTodo
  <1>. QED BY <1>4, <1>5

LEMMA LeftOfShares ==
  ASSUME NEW S, NEW b \in Seq(S)
  PROVE  LeftOf(b, Shares(Len(b))) = ToSet(b)
  <1>. DEFINE share == Shares(Len(b))
  <1>1. Len(b) \in Nat /\ ToSet(b) = {b[p] : p \in 1 .. Len(b)}
    BY LenProperties DEF ToSet
  <1>2. /\ share \in [Thread -> Seq(1 .. Len(b))]
        /\ \A p \in 1 .. Len(b) : \E t \in Thread : \E i \in 1 .. Len(share[t]) : share[t][i] = p
    BY <1>1, SharesPartition
  <1>. HIDE DEF share
  <1>3. ASSUME NEW x \in LeftOf(b, share) PROVE x \in ToSet(b)
    <2>0. PICK t \in Thread : \E i \in 1 .. Len(share[t]) : x = b[share[t][i]]
      BY <1>3, InLeftOf
    <2>1. PICK i \in 1 .. Len(share[t]) : x = b[share[t][i]]
      BY <2>0
    <2>2. share[t][i] \in 1 .. Len(b)
      BY <1>2, ElementOfSeq
    <2>. QED BY <1>1, <2>1, <2>2
  <1>4. ASSUME NEW x \in ToSet(b) PROVE x \in LeftOf(b, share)
    <2>1. PICK p \in 1 .. Len(b) : x = b[p]
      BY <1>1, <1>4
    <2>2. PICK t \in Thread : \E i \in 1 .. Len(share[t]) : share[t][i] = p
      BY <1>2
    <2>3. PICK i \in 1 .. Len(share[t]) : share[t][i] = p
      BY <2>2
    <2>. QED BY <2>1, <2>3, InLeftOf
  <1>5. LeftOf(b, share) = ToSet(b)
    BY <1>3, <1>4
  <1>. QED BY <1>5 DEF share

LEMMA SharesOnce ==
  ASSUME NEW num \in Nat, NEW share, share = Shares(num)
  PROVE  \A t, u \in Thread : \A i \in 1 .. Len(share[t]), j \in 1 .. Len(share[u]) :
           share[t][i] = share[u][j] => t = u /\ i = j
  <1>1. \A t, u \in Thread :
          \A i \in 1 .. Len(Shares(num)[t]), j \in 1 .. Len(Shares(num)[u]) :
            Shares(num)[t][i] = Shares(num)[u][j] => t = u /\ i = j
    BY SharesPartition
  <1>. QED BY <1>1

\* A concatenation has no element twice if neither part has and they share
\* none.
LEMMA ConcatDiffers ==
  ASSUME NEW S, NEW s \in Seq(S), NEW r \in Seq(S), ToSet(s) \cap ToSet(r) = {},
         \A i, j \in 1 .. Len(s) : s[i] = s[j] => i = j,
         \A i, j \in 1 .. Len(r) : r[i] = r[j] => i = j
  PROVE  \A i, j \in 1 .. Len(s \o r) : (s \o r)[i] = (s \o r)[j] => i = j
  <1>1. /\ Len(s) \in Nat /\ Len(r) \in Nat
        /\ Len(s \o r) = Len(s) + Len(r)
        /\ \A i \in 1 .. Len(s) + Len(r) :
             (s \o r)[i] = IF i <= Len(s) THEN s[i] ELSE r[i - Len(s)]
    BY ConcatProperties, LenProperties
  <1>2. /\ \A i \in 1 .. Len(s) : s[i] \in ToSet(s)
        /\ \A i \in 1 .. Len(r) : r[i] \in ToSet(r)
    BY LenProperties DEF ToSet
  <1>. SUFFICES ASSUME NEW i \in 1 .. Len(s) + Len(r), NEW j \in 1 .. Len(s) + Len(r),
                       (s \o r)[i] = (s \o r)[j]
                PROVE  i = j
    BY <1>1
  <1>3. /\ i <= Len(s) => i \in 1 .. Len(s)
        /\ j <= Len(s) => j \in 1 .. Len(s)
        /\ i > Len(s) => i - Len(s) \in 1 .. Len(r)
        /\ j > Len(s) => j - Len(s) \in 1 .. Len(r)
    BY <1>1
  <1>4. CASE i <= Len(s) /\ j <= Len(s)
    <2>1. (s \o r)[i] = s[i] /\ (s \o r)[j] = s[j]
      BY <1>1, <1>4
    <2>. QED BY <1>3, <1>4, <2>1
  <1>5. CASE i > Len(s) /\ j > Len(s)
    <2>1. (s \o r)[i] = r[i - Len(s)] /\ (s \o r)[j] = r[j - Len(s)]
      BY <1>1, <1>5
    <2>2. i - Len(s) = j - Len(s)
      BY <1>3, <1>5, <2>1
    <2>. QED BY <1>1, <2>2
  <1>6. ASSUME i <= Len(s), j > Len(s) PROVE FALSE
    <2>1. (s \o r)[i] = s[i] /\ (s \o r)[j] = r[j - Len(s)]
      BY <1>1, <1>6
    <2>. QED BY <1>2, <1>3, <1>6, <2>1
  <1>7. ASSUME j <= Len(s), i > Len(s) PROVE FALSE
    <2>1. (s \o r)[j] = s[j] /\ (s \o r)[i] = r[i - Len(s)]
      BY <1>1, <1>7
    <2>. QED BY <1>2, <1>3, <1>7, <2>1
  <1>8. (i <= Len(s) \/ i > Len(s)) /\ (j <= Len(s) \/ j > Len(s))
    BY <1>1
  <1>. QED BY <1>4, <1>5, <1>6, <1>7, <1>8

\* A call takes the first position of the share of its thread.
FirstDone(b, tasks, t, rest) ==
    /\ tasks \in [Thread -> Seq(1 .. Len(b))]
    /\ tasks[t] # <<>>
    /\ rest[t] = Tail(tasks[t])
    /\ \A u \in Thread : u # t => rest[u] = tasks[u]

LEMMA LeftOfTail ==
  ASSUME NEW b, NEW tasks \in [Thread -> Seq(1 .. Len(b))],
         NEW t \in Thread, NEW rest, FirstDone(b, tasks, t, rest)
  PROVE  /\ Head(tasks[t]) \in 1 .. Len(b)
         /\ LeftOf(b, tasks) = LeftOf(b, rest) \cup {b[Head(tasks[t])]}
  <1>1. tasks[t] \in Seq(1 .. Len(b)) /\ tasks[t] # <<>>
    BY DEF FirstDone
  <1>2. /\ Head(tasks[t]) \in 1 .. Len(b)
        /\ Tail(tasks[t]) \in Seq(1 .. Len(b))
        /\ Len(Tail(tasks[t])) = Len(tasks[t]) - 1
        /\ \A i \in 1 .. Len(Tail(tasks[t])) : Tail(tasks[t])[i] = tasks[t][i + 1]
        /\ Head(tasks[t]) = tasks[t][1]
        /\ Len(tasks[t]) \in Nat /\ Len(tasks[t]) # 0
    BY <1>1, HeadTailProperties, LenProperties, EmptySeq
  <1>3. /\ rest[t] = Tail(tasks[t])
        /\ \A u \in Thread : u # t => rest[u] = tasks[u]
    BY DEF FirstDone
  <1>4. ASSUME NEW x \in LeftOf(b, tasks)
        PROVE  x \in LeftOf(b, rest) \cup {b[Head(tasks[t])]}
    <2>0. PICK u \in Thread : \E i \in 1 .. Len(tasks[u]) : x = b[tasks[u][i]]
      BY <1>4, InLeftOf
    <2>1. PICK i \in 1 .. Len(tasks[u]) : x = b[tasks[u][i]]
      BY <2>0
    <2>2. CASE u # t
      <3>1. i \in 1 .. Len(rest[u]) /\ x = b[rest[u][i]]
        BY <1>3, <2>1, <2>2
      <3>. QED BY <3>1, InLeftOf
    <2>3. CASE u = t /\ i = 1
      BY <1>2, <2>1, <2>3
    <2>4. CASE u = t /\ i # 1
      <3>1. i - 1 \in 1 .. Len(Tail(tasks[t])) /\ (i - 1) + 1 = i
        BY <1>2, <2>4
      <3>2. tasks[t][i] = Tail(tasks[t])[i - 1]
        BY <1>2, <3>1
      <3>3. x = b[rest[t][i - 1]]
        BY <1>3, <2>1, <2>4, <3>2
      <3>. QED BY <1>3, <3>1, <3>3, InLeftOf
    <2>. QED BY <2>2, <2>3, <2>4
  <1>5. ASSUME NEW x \in LeftOf(b, rest) PROVE x \in LeftOf(b, tasks)
    <2>0. PICK u \in Thread : \E i \in 1 .. Len(rest[u]) : x = b[rest[u][i]]
      BY <1>5, InLeftOf
    <2>1. PICK i \in 1 .. Len(rest[u]) : x = b[rest[u][i]]
      BY <2>0
    <2>2. CASE u # t
      <3>1. i \in 1 .. Len(tasks[u]) /\ x = b[tasks[u][i]]
        BY <1>3, <2>1, <2>2
      <3>. QED BY <3>1, InLeftOf
    <2>3. CASE u = t
      <3>1. i \in 1 .. Len(Tail(tasks[t])) /\ x = b[Tail(tasks[t])[i]]
        BY <1>3, <2>1, <2>3
      <3>2. i + 1 \in 1 .. Len(tasks[t]) /\ x = b[tasks[t][i + 1]]
        BY <1>2, <3>1
      <3>. QED BY <3>2, InLeftOf
    <2>. QED BY <2>2, <2>3
  <1>6. b[Head(tasks[t])] \in LeftOf(b, tasks)
    <2>1. 1 \in 1 .. Len(tasks[t])
      BY <1>2
    <2>. QED BY <1>2, <2>1, InLeftOf
  <1>. QED BY <1>2, <1>4, <1>5, <1>6

\* No position is left to two threads.
LEMMA OnceInTail ==
  ASSUME NEW b, NEW tasks \in [Thread -> Seq(1 .. Len(b))],
         NEW t \in Thread, NEW rest, FirstDone(b, tasks, t, rest),
         \A i, j \in 1 .. Len(b) : b[i] = b[j] => i = j,
         \A u, w \in Thread : \A i \in 1 .. Len(tasks[u]), j \in 1 .. Len(tasks[w]) :
            tasks[u][i] = tasks[w][j] => u = w /\ i = j
  PROVE  /\ \A u, w \in Thread : \A i \in 1 .. Len(rest[u]), j \in 1 .. Len(rest[w]) :
              rest[u][i] = rest[w][j] => u = w /\ i = j
         /\ b[Head(tasks[t])] \notin LeftOf(b, rest)
  <1>1. tasks[t] \in Seq(1 .. Len(b)) /\ tasks[t] # <<>>
    BY DEF FirstDone
  <1>2. /\ Len(Tail(tasks[t])) = Len(tasks[t]) - 1
        /\ \A i \in 1 .. Len(Tail(tasks[t])) : Tail(tasks[t])[i] = tasks[t][i + 1]
        /\ Head(tasks[t]) = tasks[t][1]
        /\ Len(tasks[t]) \in Nat /\ Len(tasks[t]) # 0
    BY <1>1, HeadTailProperties, LenProperties, EmptySeq
  <1>3. /\ rest[t] = Tail(tasks[t])
        /\ \A u \in Thread : u # t => rest[u] = tasks[u]
    BY DEF FirstDone
  <1>4. ASSUME NEW u \in Thread, NEW i \in 1 .. Len(rest[u])
        PROVE  \E k \in 1 .. Len(tasks[u]) :
                  rest[u][i] = tasks[u][k] /\ k = IF u = t THEN i + 1 ELSE i
    <2>1. CASE u = t
      <3>1. i \in 1 .. Len(Tail(tasks[t])) /\ rest[u][i] = Tail(tasks[t])[i]
        BY <1>3, <2>1
      <3>2. i + 1 \in 1 .. Len(tasks[t]) /\ rest[u][i] = tasks[t][i + 1]
        BY <1>2, <3>1
      <3>. QED BY <2>1, <3>2
    <2>2. CASE u # t
      <3>1. i \in 1 .. Len(tasks[u]) /\ rest[u][i] = tasks[u][i]
        BY <1>3, <2>2
      <3>. QED BY <2>2, <3>1
    <2>. QED BY <2>1, <2>2
  <1>5. ASSUME NEW u \in Thread, NEW w \in Thread,
               NEW i \in 1 .. Len(rest[u]), NEW j \in 1 .. Len(rest[w]),
               rest[u][i] = rest[w][j]
        PROVE  u = w /\ i = j
    <2>1. PICK k \in 1 .. Len(tasks[u]) :
             rest[u][i] = tasks[u][k] /\ k = IF u = t THEN i + 1 ELSE i
      BY <1>4
    <2>2. PICK l \in 1 .. Len(tasks[w]) :
             rest[w][j] = tasks[w][l] /\ l = IF w = t THEN j + 1 ELSE j
      BY <1>4
    <2>3. tasks[u][k] = tasks[w][l]
      BY <1>5, <2>1, <2>2
    <2>4. u = w /\ k = l
      BY <2>3
    <2>. QED BY <2>1, <2>2, <2>4
  <1>6. ASSUME NEW x \in LeftOf(b, rest), x = b[Head(tasks[t])] PROVE FALSE
    <2>0. x \in LeftOf(b, rest)
      OBVIOUS
    <2>1. PICK u \in Thread : \E i \in 1 .. Len(rest[u]) : x = b[rest[u][i]]
      BY <2>0, InLeftOf
    <2>2. PICK i \in 1 .. Len(rest[u]) : x = b[rest[u][i]]
      BY <2>1
    <2>3. PICK k \in 1 .. Len(tasks[u]) :
             rest[u][i] = tasks[u][k] /\ k = IF u = t THEN i + 1 ELSE i
      BY <1>4
    <2>4. 1 \in 1 .. Len(tasks[t])
      BY <1>2
    <2>5. tasks[u][k] \in 1 .. Len(b) /\ tasks[t][1] \in 1 .. Len(b)
      <3>1. tasks[u] \in Seq(1 .. Len(b))
        OBVIOUS
      <3>2. tasks[u][k] \in 1 .. Len(b)
        BY <2>3, <3>1, ElementOfSeq
      <3>3. tasks[t][1] \in 1 .. Len(b)
        BY <1>1, <2>4, ElementOfSeq
      <3>. QED BY <3>2, <3>3
    <2>6. b[tasks[t][1]] = b[tasks[u][k]]
      BY <1>2, <1>6, <2>2, <2>3
    <2>7. tasks[t][1] = tasks[u][k]
      <3>. DEFINE p == tasks[t][1]  q == tasks[u][k]
      <3>1. p \in 1 .. Len(b) /\ q \in 1 .. Len(b) /\ b[p] = b[q]
        BY <2>5, <2>6
      <3>. HIDE DEF p, q
      <3>2. p = q
        BY <3>1
      <3>. QED BY <3>2 DEF p, q
    <2>8. t = u /\ 1 = k
      BY <2>4, <2>7
    <2>9. i \in 1 .. Len(rest[u]) /\ k = i + 1
      BY <2>3, <2>8
    <2>. QED BY <2>8, <2>9
  <1>. QED BY <1>5, <1>6

-----------------------------------------------------------------------------
\* The steps.

LEMMA NoTodoOnce ==
  ASSUME todo = NoTodo
  PROVE  \A t, u \in Thread : \A i \in 1 .. Len(todo[t]), j \in 1 .. Len(todo[u]) :
           todo[t][i] = todo[u][j] => t = u /\ i = j
  <1>1. ASSUME NEW t \in Thread PROVE 1 .. Len(todo[t]) = {}
    <2>1. todo[t] = <<>> /\ Len(<<>>) = 0 /\ 1 .. 0 = {}
      BY DEF NoTodo
    <2>. QED BY <2>1
  <1>. QED BY <1>1

LEMMA InitLoadInv == Init => LoadInv
  <1>. SUFFICES ASSUME Init PROVE LoadInv
    OBVIOUS
  <1>1. file \in Seq(Lines)
    BY IngestionAssumption DEF Init, BoundedSeq, SeqOf
  <1>2. /\ newline \in BOOLEAN /\ is_directed \in BOOLEAN /\ phase = "ingestion"
        /\ pc = "read" /\ pos = 0 /\ batch = <<>> /\ last = FALSE /\ stored = {}
    BY DEF Init
  <1>3. todo = NoTodo
    BY DEF Init, NoTodo
  <1>4. batch \in Seq(Nat \X Nat) /\ ToSet(batch) = {}
    <2>1. <<>> \in Seq(Nat \X Nat) /\ ToSet(<<>>) = {}
      BY DEF ToSet
    <2>. QED BY <1>2, <2>1
  <1>5. LoadTypes
    <2>1. todo \in [Thread -> Seq(1 .. Len(batch))]
      BY <1>3, LeftOfNone
    <2>. QED BY <1>1, <1>2, <1>4, <2>1 DEF LoadTypes
  <1>6. BatchRead
    BY <1>2, <1>3, <1>4, <1>5, LastLineType DEF BatchRead
  <1>7. NothingLost
    BY <1>2, <1>4, EdgesUpToNone DEF NothingLost, Pending
  <1>8. AllNew
    <2>1. 1 .. Len(batch) = {}
      BY <1>2
    <2>. QED BY <1>2, <1>3, <2>1, NoTodoOnce DEF AllNew
  <1>. QED BY <1>2, <1>5, <1>6, <1>7, <1>8 DEF LoadInv

\* The file and what it says stay.
LEMMA FileStays ==
  ASSUME UNCHANGED config
  PROVE  /\ file' = file /\ newline' = newline /\ is_directed' = is_directed
         /\ build' = build
         /\ EdgesUpTo' = EdgesUpTo
         /\ LastLine' = LastLine
         /\ Supported' = Supported
  <1>1. file' = file /\ newline' = newline /\ is_directed' = is_directed /\ build' = build
    BY DEF config
  <1>2. EdgesUpTo' = EdgesUpTo
    BY <1>1 DEF EdgesUpTo, EdgesOfLine
  <1>3. LastLine' = LastLine
    BY <1>1 DEF LastLine
  <1>4. Supported' = Supported
    BY <1>1 DEF Supported, NoEdgeTwice, FileLines, EdgesOfLine
  <1>. QED BY <1>1, <1>2, <1>3, <1>4

\* A line is read only when it is not behind the last one.
LEMMA NextLineIs ==
  ASSUME LoadTypes, BatchRead
  PROVE  /\ NextLine <=> pos < LastLine
         /\ NextLine => file[pos + 1] \in Lines
         /\ ~NextLine => pos = LastLine
  <1>1. /\ Len(file) \in Nat /\ (file # <<>> <=> Len(file) # 0)
        /\ \A i \in 1 .. Len(file) : file[i] \in Lines
    BY LenProperties, EmptySeq, ElementOfSeq DEF LoadTypes
  <1>2. pos \in Nat /\ newline \in BOOLEAN /\ pos <= LastLine /\ LastLine \in Nat
    BY LastLineType DEF LoadTypes, BatchRead
  <1>3. NextLine <=> pos < LastLine
    BY <1>1, <1>2 DEF NextLine, LastLine
  <1>4. NextLine => file[pos + 1] \in Lines
    BY <1>1, <1>2 DEF NextLine
  <1>. QED BY <1>2, <1>3, <1>4

LEMMA ReadLineKeeps ==
  ASSUME LoadInv, ReadLine
  PROVE  LoadInv'
  <1>. DEFINE line == EdgesOfLine(file[pos + 1])
  <1>1. /\ pc = "read" /\ NextLine /\ pos' = pos + 1
        /\ batch' = batch \o line
        /\ UNCHANGED <<phase, last, stored>> /\ UNCHANGED config
    BY DEF ReadLine
  <1>2. \/ pc' = "run" /\ todo' = Shares(Len(batch'))
        \/ pc' = "read" /\ todo' = todo
    BY <1>1 DEF ReadLine
  <1>3. LoadTypes /\ BatchRead
    BY DEF LoadInv
  <1>4. /\ file' = file /\ newline' = newline /\ is_directed' = is_directed
        /\ EdgesUpTo' = EdgesUpTo /\ LastLine' = LastLine
        /\ build' = build /\ Supported' = Supported
    BY <1>1, FileStays
  <1>5. pos \in Nat /\ pos < LastLine /\ LastLine \in Nat /\ file[pos + 1] \in Lines
    BY <1>1, <1>3, NextLineIs, LastLineType DEF LoadTypes
  <1>6. line \in Seq(Nat \X Nat) /\ batch \in Seq(Nat \X Nat)
    BY <1>3, <1>5, EdgesOfLineType DEF LoadTypes
  <1>7. EdgesUpTo[pos + 1] = EdgesUpTo[pos] \cup ToSet(line)
    BY <1>5, EdgesUpToNext
  <1>. HIDE DEF line
  <1>8. /\ batch' \in Seq(Nat \X Nat)
        /\ ToSet(batch') = ToSet(batch) \cup ToSet(line)
    BY <1>1, <1>6, ToSetConcat
  <1>9. todo = NoTodo /\ last = FALSE
    BY <1>1, <1>3, <1>5 DEF BatchRead, LoadTypes
  <1>10. todo' \in [Thread -> Seq(1 .. Len(batch'))]
    <2>1. Shares(Len(batch')) \in [Thread -> Seq(1 .. Len(batch'))]
      <3>1. Len(batch') \in Nat
        BY <1>8, LenProperties
      <3>. QED BY <3>1, SharesPartition
    <2>2. NoTodo \in [Thread -> Seq(1 .. Len(batch'))]
      BY LeftOfNone
    <2>. QED BY <1>2, <1>9, <2>1, <2>2
  <1>11. Pending' = ToSet(batch')
    <2>1. CASE pc' = "read"
      BY <2>1 DEF Pending
    <2>2. CASE pc' = "run" /\ todo' = Shares(Len(batch'))
      <3>1. LeftOf(batch', todo') = ToSet(batch')
        BY <1>8, <2>2, LeftOfShares
      <3>2. Pending' = LeftOf(batch', todo')
        BY <2>2 DEF Pending, LeftOf
      <3>. QED BY <3>1, <3>2
    <2>. QED BY <1>2, <2>1, <2>2
  <1>12. Pending = ToSet(batch)
    BY <1>1 DEF Pending
  <1>13. LoadTypes'
    BY <1>1, <1>2, <1>3, <1>4, <1>5, <1>8, <1>10 DEF LoadTypes
  <1>14. BatchRead'
    <2>1. /\ pos' <= LastLine'
          /\ ToSet(batch') \subseteq EdgesUpTo'[pos']
      BY <1>1, <1>3, <1>4, <1>5, <1>7, <1>8 DEF BatchRead
    <2>2. ToSet(batch)' = ToSet(batch')
      BY DEF ToSet
    <2>3. /\ pc' # "run" => todo' = NoTodo
          /\ last' = FALSE /\ pc' # "done" /\ NoTodo' = NoTodo
      BY <1>1, <1>2, <1>9 DEF NoTodo
    <2>. QED BY <2>1, <2>2, <2>3 DEF BatchRead
  <1>15. Supported => NothingLost'
    <2>1. phase' = phase /\ stored' = stored /\ EdgesUpTo'[pos'] = EdgesUpTo[pos] \cup ToSet(line)
      BY <1>1, <1>4, <1>7
    <2>2. Pending' = Pending \cup ToSet(line)
      BY <1>8, <1>11, <1>12
    <2>3. Supported => NothingLost
      BY DEF LoadInv
    <2>. QED BY <1>4, <2>1, <2>2, <2>3 DEF NothingLost
  <1>16. ASSUME Supported, build = "parallel" PROVE AllNew'
    <2>1. AllNew /\ NothingLost /\ phase = "ingestion" /\ NoEdgeTwice
      BY <1>3, <1>16 DEF LoadInv, LoadTypes, Supported
    <2>2. /\ ToSet(line) \cap EdgesUpTo[pos] = {}
          /\ \A i, j \in 1 .. Len(line) : line[i] = line[j] => i = j
      BY <1>3, <1>5, <2>1, LineIsNew DEF line
    <2>3. stored \subseteq EdgesUpTo[pos] /\ ToSet(batch) \subseteq EdgesUpTo[pos]
      BY <1>3, <2>1 DEF NothingLost, BatchRead
    <2>4. \A i, j \in 1 .. Len(batch') : batch'[i] = batch'[j] => i = j
      <3>1. ToSet(batch) \cap ToSet(line) = {}
        BY <2>2, <2>3
      <3>2. \A i, j \in 1 .. Len(batch) : batch[i] = batch[j] => i = j
        BY <2>1 DEF AllNew
      <3>3. \A i, j \in 1 .. Len(line) : line[i] = line[j] => i = j
        BY <2>2
      <3>4. \A i, j \in 1 .. Len(batch \o line) :
               (batch \o line)[i] = (batch \o line)[j] => i = j
        BY <1>6, <3>1, <3>2, <3>3, ConcatDiffers
      <3>. QED BY <1>1, <3>4
    <2>5. \A t, u \in Thread : \A i \in 1 .. Len(todo'[t]), j \in 1 .. Len(todo'[u]) :
             todo'[t][i] = todo'[u][j] => t = u /\ i = j
      <3>1. Len(batch') \in Nat
        BY <1>8, LenProperties
      <3>2. CASE todo' = Shares(Len(batch'))
        BY <3>1, <3>2, SharesOnce
      <3>3. CASE todo' = todo
        BY <2>1, <3>3 DEF AllNew
      <3>. QED BY <1>2, <3>2, <3>3
    <2>6. Pending' \cap stored' = {}
      BY <1>1, <1>8, <1>11, <1>12, <2>1, <2>2, <2>3 DEF AllNew
    <2>. QED BY <2>4, <2>5, <2>6 DEF AllNew
  <1>. QED BY <1>1, <1>4, <1>13, <1>14, <1>15, <1>16 DEF LoadInv

LEMMA EndOfFileKeeps ==
  ASSUME LoadInv, EndOfFile
  PROVE  LoadInv'
  <1>1. /\ pc = "read" /\ ~NextLine /\ pc' = "run" /\ last' = TRUE
        /\ todo' = Shares(Len(batch))
        /\ UNCHANGED <<phase, pos, batch, stored>> /\ UNCHANGED config
    BY DEF EndOfFile
  <1>2. LoadTypes /\ BatchRead
    BY DEF LoadInv
  <1>3. /\ file' = file /\ newline' = newline /\ is_directed' = is_directed
        /\ EdgesUpTo' = EdgesUpTo /\ LastLine' = LastLine
        /\ build' = build /\ Supported' = Supported
    BY <1>1, FileStays
  <1>4. pos = LastLine
    BY <1>1, <1>2, NextLineIs
  <1>5. batch \in Seq(Nat \X Nat) /\ Len(batch) \in Nat
    BY <1>2, LenProperties DEF LoadTypes
  <1>6. todo' \in [Thread -> Seq(1 .. Len(batch))]
    BY <1>1, <1>5, SharesPartition
  <1>7. Pending' = Pending
    <2>1. LeftOf(batch, todo') = ToSet(batch)
      BY <1>1, <1>5, LeftOfShares
    <2>2. Pending' = LeftOf(batch, todo')
      BY <1>1 DEF Pending, LeftOf
    <2>. QED BY <1>1, <2>1, <2>2 DEF Pending
  <1>8. LoadTypes'
    BY <1>1, <1>2, <1>3, <1>6 DEF LoadTypes
  <1>9. BatchRead'
    BY <1>1, <1>2, <1>3, <1>4 DEF BatchRead, ToSet
  <1>10. NothingLost => NothingLost'
    BY <1>1, <1>2, <1>3, <1>7 DEF NothingLost
  <1>11. AllNew => AllNew'
    <2>1. \A t, u \in Thread : \A i \in 1 .. Len(todo'[t]), j \in 1 .. Len(todo'[u]) :
             todo'[t][i] = todo'[u][j] => t = u /\ i = j
      BY <1>1, <1>5, SharesOnce
    <2>. QED BY <1>1, <1>7, <2>1 DEF AllNew
  <1>. QED BY <1>1, <1>3, <1>8, <1>9, <1>10, <1>11 DEF LoadInv

\* A step that takes the first position off a share.
LEMMA FirstOff ==
  ASSUME LoadTypes, NEW t \in Thread, todo[t] # <<>>,
         todo' = [todo EXCEPT ![t] = Tail(@)]
  PROVE  FirstDone(batch, todo, t, todo') /\ todo' \in [Thread -> Seq(1 .. Len(batch))]
  <1>1. todo \in [Thread -> Seq(1 .. Len(batch))]
    BY DEF LoadTypes
  <1>2. Tail(todo[t]) \in Seq(1 .. Len(batch))
    <2>1. todo[t] \in Seq(1 .. Len(batch))
      BY <1>1
    <2>. QED BY <2>1, HeadTailProperties
  <1>. QED BY <1>1, <1>2 DEF FirstDone

\* A call of a thread: the first position of its share is done.
LEMMA CallKeeps ==
  ASSUME LoadInv, NEW t \in Thread, pc = "run",
         FirstDone(batch, todo, t, todo'), todo' \in [Thread -> Seq(1 .. Len(batch))],
         UNCHANGED <<config, phase, pc, pos, batch, last>>
  PROVE  /\ LoadTypes' /\ BatchRead'
         /\ EdgesUpTo' = EdgesUpTo /\ LastLine' = LastLine
         /\ build' = build /\ Supported' = Supported
         /\ Pending = Pending' \cup {batch[Head(todo[t])]}
         /\ batch[Head(todo[t])] \in EdgesUpTo[pos]
  <1>1. LoadTypes /\ BatchRead
    BY DEF LoadInv
  <1>2. /\ file' = file /\ newline' = newline /\ is_directed' = is_directed
        /\ EdgesUpTo' = EdgesUpTo /\ LastLine' = LastLine
        /\ build' = build /\ Supported' = Supported
    BY FileStays
  <1>3. /\ Head(todo[t]) \in 1 .. Len(batch)
        /\ LeftOf(batch, todo) = LeftOf(batch, todo') \cup {batch[Head(todo[t])]}
    <2>1. todo \in [Thread -> Seq(1 .. Len(batch))]
      BY <1>1 DEF LoadTypes
    <2>2. Head(todo[t]) \in 1 .. Len(batch)
      BY <2>1, LeftOfTail, Zenon
    <2>3. LeftOf(batch, todo) = LeftOf(batch, todo') \cup {batch[Head(todo[t])]}
      BY <2>1, LeftOfTail, SMT
    <2>. QED BY <2>2, <2>3, Zenon
  <1>4. Pending = LeftOf(batch, todo) /\ Pending' = LeftOf(batch, todo')
    BY DEF Pending, LeftOf
  <1>5. batch[Head(todo[t])] \in EdgesUpTo[pos]
    <2>1. ToSet(batch) = {batch[i] : i \in 1 .. Len(batch)}
      BY <1>1, LenProperties DEF ToSet, LoadTypes
    <2>. QED BY <1>1, <1>3, <2>1 DEF BatchRead
  <1>6. LoadTypes'
    BY <1>1, <1>2 DEF LoadTypes
  <1>7. BatchRead'
    BY <1>1, <1>2 DEF BatchRead, ToSet
  <1>. QED BY <1>2, <1>3, <1>4, <1>5, <1>6, <1>7

LEMMA InsertEdgeKeeps ==
  ASSUME LoadInv, NEW t \in Thread, InsertEdge(t)
  PROVE  LoadInv'
  <1>. DEFINE e == batch[Head(todo[t])]
  <1>1. /\ pc = "run" /\ phase = "ingestion" /\ phase' = phase /\ pos' = pos
        /\ pc' = pc /\ batch' = batch
        /\ stored' = stored \cup {e}
    BY DEF InsertEdge, Inserts
  <1>a. FirstDone(batch, todo, t, todo') /\ todo' \in [Thread -> Seq(1 .. Len(batch))]
    BY FirstOff DEF LoadInv, InsertEdge, Inserts
  <1>2. /\ LoadTypes' /\ BatchRead'
        /\ EdgesUpTo' = EdgesUpTo
        /\ build' = build /\ Supported' = Supported
        /\ Pending = Pending' \cup {e}
    BY <1>1, <1>a, CallKeeps DEF InsertEdge
  <1>3. NothingLost => NothingLost'
    <2>. HIDE DEF e
    <2>. QED BY <1>1, <1>2 DEF NothingLost
  <1>4. AllNew => AllNew'
    <2>. SUFFICES ASSUME AllNew PROVE AllNew'
      OBVIOUS
    <2>1. todo \in [Thread -> Seq(1 .. Len(batch))]
      BY DEF LoadInv, LoadTypes
    <2>2. /\ \A u, w \in Thread : \A i \in 1 .. Len(todo'[u]), j \in 1 .. Len(todo'[w]) :
               todo'[u][i] = todo'[w][j] => u = w /\ i = j
          /\ e \notin LeftOf(batch, todo')
      BY <1>a, <2>1, OnceInTail DEF AllNew
    <2>3. Pending' = LeftOf(batch, todo')
      BY <1>1 DEF Pending, LeftOf
    <2>. HIDE DEF e
    <2>4. Pending' \cap stored' = {}
      BY <1>1, <1>2, <2>2, <2>3 DEF AllNew
    <2>. QED BY <1>1, <2>2, <2>4 DEF AllNew
  <1>. QED BY <1>1, <1>2, <1>3, <1>4 DEF LoadInv

\* An edge that is in the graph already is not left to any thread when the
\* build supports the file, so the call that overwrites does not happen.
LEMMA FallThroughKeeps ==
  ASSUME LoadInv, NEW t \in Thread, FallThrough(t)
  PROVE  LoadInv'
  <1>. DEFINE e == batch[Head(todo[t])]
  <1>1. /\ pc = "run" /\ phase = "ingestion" /\ phase' = phase
        /\ build = "parallel" /\ e \in stored
    BY DEF FallThrough, Inserts, Overwrites, Found
  <1>a. FirstDone(batch, todo, t, todo') /\ todo' \in [Thread -> Seq(1 .. Len(batch))]
    BY FirstOff DEF LoadInv, FallThrough, Inserts
  <1>2. /\ LoadTypes' /\ BatchRead'
        /\ build' = build /\ Supported' = Supported
        /\ Pending = Pending' \cup {e}
    BY <1>1, <1>a, CallKeeps DEF FallThrough
  <1>3. ~Supported
    <2>. HIDE DEF e
    <2>. QED BY <1>1, <1>2 DEF LoadInv, AllNew
  <1>. QED BY <1>1, <1>2, <1>3 DEF LoadInv

\* A step that changes only what is broken and who spins.
LEMMA DamageKeeps ==
  ASSUME LoadInv,
         UNCHANGED <<config, phase, pc, pos, batch, last, todo, stored>>
  PROVE  LoadInv'
  <1>1. UNCHANGED <<build, file, newline, is_directed, phase, pc, pos, batch, last, todo, stored>>
    BY DEF config
  <1>2. EdgesUpTo' = EdgesUpTo /\ LastLine' = LastLine /\ Supported' = Supported
    BY FileStays
  <1>3. Pending' = Pending /\ ToSet(batch)' = ToSet(batch) /\ NoTodo' = NoTodo
    BY <1>1 DEF Pending, LeftOf, ToSet, NoTodo
  <1>. QED BY <1>1, <1>2, <1>3 DEF LoadInv, LoadTypes, BatchRead, NothingLost, AllNew

LEMMA DeleteEdgeKeeps ==
  ASSUME LoadInv, NEW t \in Thread, DeleteEdge(t)
  PROVE  LoadInv'
  <1>. DEFINE e == batch[Head(todo[t])]
  <1>1. /\ pc = "run" /\ phase = "deletion" /\ phase' = phase /\ pos' = pos
        /\ stored' = stored \ {e}
    BY DEF DeleteEdge
  <1>2. /\ LoadTypes' /\ BatchRead'
        /\ EdgesUpTo' = EdgesUpTo /\ LastLine' = LastLine
        /\ build' = build /\ Supported' = Supported
        /\ Pending = Pending' \cup {e}
    <2>1. FirstDone(batch, todo, t, todo') /\ todo' \in [Thread -> Seq(1 .. Len(batch))]
      BY FirstOff DEF LoadInv, DeleteEdge
    <2>. QED BY <2>1, CallKeeps DEF DeleteEdge
  <1>. HIDE DEF e
  <1>3. build = "sequential" /\ Supported
    BY <1>1 DEF LoadInv, Supported
  <1>4. /\ stored \subseteq EdgesUpTo[LastLine]
        /\ stored \cap EdgesUpTo[pos] \subseteq Pending
    BY <1>1, <1>3 DEF LoadInv, NothingLost
  <1>5. NothingLost'
    BY <1>1, <1>2, <1>4 DEF NothingLost
  <1>. QED BY <1>2, <1>3, <1>5 DEF LoadInv

LEMMA JoinKeeps ==
  ASSUME LoadInv, Join
  PROVE  LoadInv'
  <1>1. /\ pc = "run" /\ pc' = "check" /\ \A t \in Thread : todo[t] = <<>>
        /\ UNCHANGED <<phase, pos, batch, last, todo, stored>> /\ UNCHANGED config
    BY DEF Join
  <1>2. LoadTypes /\ BatchRead
    BY DEF LoadInv
  <1>3. /\ file' = file /\ newline' = newline /\ is_directed' = is_directed
        /\ EdgesUpTo' = EdgesUpTo /\ LastLine' = LastLine
        /\ build' = build /\ Supported' = Supported
    BY <1>1, FileStays
  <1>4. todo = NoTodo
    BY <1>1, <1>2 DEF LoadTypes, NoTodo
  <1>5. Pending' = Pending
    BY <1>1 DEF Pending, LeftOf
  <1>6. LoadTypes'
    BY <1>1, <1>2, <1>3 DEF LoadTypes
  <1>7. BatchRead'
    BY <1>1, <1>2, <1>3, <1>4 DEF BatchRead, ToSet, NoTodo
  <1>8. /\ NothingLost => NothingLost'
        /\ AllNew => AllNew'
    BY <1>1, <1>2, <1>3, <1>5 DEF NothingLost, AllNew
  <1>. QED BY <1>1, <1>3, <1>6, <1>7, <1>8 DEF LoadInv

\* Behind the join nothing of the batch is left.
LEMMA NothingPending ==
  ASSUME LoadInv, Supported, pc \in {"check", "done"}
  PROVE  /\ Pending = {} /\ todo = NoTodo
         /\ phase = "ingestion" => stored = EdgesUpTo[pos]
         /\ phase = "deletion" => stored \cap EdgesUpTo[pos] = {}
  <1>1. todo = NoTodo
    BY DEF LoadInv, BatchRead
  <1>2. Pending = {}
    BY <1>1, LeftOfNone DEF Pending
  <1>. QED BY <1>1, <1>2 DEF LoadInv, NothingLost

LEMMA EndBatchKeeps ==
  ASSUME LoadInv, EndBatch
  PROVE  LoadInv'
  <1>1. /\ pc = "check" /\ batch' = <<>>
        /\ pc' = IF last THEN "done" ELSE "read"
        /\ UNCHANGED <<phase, pos, last, todo, stored>> /\ UNCHANGED config
    BY DEF EndBatch
  <1>2. LoadTypes /\ BatchRead
    BY DEF LoadInv
  <1>3. /\ file' = file /\ newline' = newline /\ is_directed' = is_directed
        /\ EdgesUpTo' = EdgesUpTo /\ LastLine' = LastLine
        /\ build' = build /\ Supported' = Supported
    BY <1>1, FileStays
  <1>4. /\ Pending = {} /\ todo = NoTodo
    <2>1. todo = NoTodo
      BY <1>1, <1>2 DEF BatchRead
    <2>. QED BY <1>1, <2>1, LeftOfNone DEF Pending
  <1>5. batch' \in Seq(Nat \X Nat) /\ ToSet(batch') = {}
    <2>1. <<>> \in Seq(Nat \X Nat) /\ ToSet(<<>>) = {}
      BY DEF ToSet
    <2>. QED BY <1>1, <2>1
  <1>6. LeftOf(batch', todo') = {} /\ todo' \in [Thread -> Seq(1 .. Len(batch'))]
    BY <1>1, <1>4, LeftOfNone
  <1>7. Pending' = {}
    <2>1. Pending' = IF pc' = "read" THEN ToSet(batch') ELSE LeftOf(batch', todo')
      BY DEF Pending, LeftOf, ToSet
    <2>. QED BY <1>5, <1>6, <2>1
  <1>8. LoadTypes'
    BY <1>1, <1>2, <1>3, <1>5, <1>6 DEF LoadTypes
  <1>9. BatchRead'
    <2>1. ToSet(batch)' = {} /\ NoTodo' = NoTodo
      BY <1>5 DEF ToSet, NoTodo
    <2>. QED BY <1>1, <1>2, <1>3, <1>4, <2>1 DEF BatchRead
  <1>10. NothingLost => NothingLost'
    BY <1>1, <1>2, <1>3, <1>4, <1>7 DEF NothingLost
  <1>11. AllNew'
    <2>1. 1 .. Len(batch') = {} /\ Pending' = {}
      BY <1>1, <1>7
    <2>. QED BY <1>1, <1>4, <2>1, NoTodoOnce DEF AllNew
  <1>. QED BY <1>1, <1>3, <1>8, <1>9, <1>10, <1>11 DEF LoadInv

LEMMA StartDeletionKeeps ==
  ASSUME LoadInv, StartDeletion
  PROVE  LoadInv'
  <1>1. /\ pc = "done" /\ phase = "ingestion" /\ phase' = "deletion" /\ pc' = "read"
        /\ pos' = 0 /\ last' = FALSE /\ build = "sequential"
        /\ UNCHANGED <<batch, todo, stored>> /\ UNCHANGED config
    BY DEF StartDeletion
  <1>2. LoadTypes /\ BatchRead /\ Supported
    BY <1>1 DEF LoadInv, Supported
  <1>3. /\ file' = file /\ newline' = newline /\ is_directed' = is_directed
        /\ EdgesUpTo' = EdgesUpTo /\ LastLine' = LastLine
        /\ build' = build /\ Supported' = Supported
    BY <1>1, FileStays
  <1>4. /\ todo = NoTodo /\ stored = EdgesUpTo[pos]
        /\ batch = <<>> /\ pos = LastLine
    BY <1>1, <1>2, NothingPending DEF BatchRead
  <1>5. EdgesUpTo[0] = {} /\ LastLine \in Nat
    BY <1>2, EdgesUpToNone, LastLineType
  <1>6. LoadTypes'
    BY <1>1, <1>2, <1>3 DEF LoadTypes
  <1>7. BatchRead'
    <2>1. ToSet(batch)' = {} /\ NoTodo' = NoTodo
      BY <1>1, <1>4 DEF ToSet, NoTodo
    <2>. QED BY <1>1, <1>3, <1>4, <1>5, <2>1 DEF BatchRead
  <1>8. NothingLost'
    BY <1>1, <1>3, <1>4, <1>5 DEF NothingLost
  <1>. QED BY <1>1, <1>3, <1>6, <1>7, <1>8 DEF LoadInv

-----------------------------------------------------------------------------
\* The invariant of the loading: the types of its state, the part of the file a
\* batch is from, and, for every file the build supports, that no edge is lost
\* between the file and the graph, whatever the batch size and the number of
\* threads; in the parallel build no edge that is in the graph is inserted
\* again then, and nothing is overwritten.  (ingestion.h:72, 181; edge.cc:133)
THEOREM LoadInvariant == Spec => []LoadInv
  <1>1. Init => LoadInv
    BY InitLoadInv
  <1>2. LoadInv /\ [Next]_vars => LoadInv'
    <2>. SUFFICES ASSUME LoadInv, [Next]_vars PROVE LoadInv'
      OBVIOUS
    <2>1. CASE ReadLine
      BY <2>1, ReadLineKeeps
    <2>2. CASE EndOfFile
      BY <2>2, EndOfFileKeeps
    <2>3. CASE Join
      BY <2>3, JoinKeeps
    <2>4. CASE EndBatch
      BY <2>4, EndBatchKeeps
    <2>5. CASE StartDeletion
      BY <2>5, StartDeletionKeeps
    <2>6. CASE \E t \in Thread : InsertEdge(t)
      BY <2>6, InsertEdgeKeeps
    <2>7. CASE \E t \in Thread : DeleteEdge(t)
      BY <2>7, DeleteEdgeKeeps
    <2>8. CASE \E t \in Thread : FallThrough(t)
      BY <2>8, FallThroughKeeps
    <2>9. CASE \E t \in Thread : Spin(t)
      BY <2>9, DamageKeeps DEF Spin
    <2>10. CASE UNCHANGED vars
      BY <2>10, DamageKeeps DEF vars
    <2>. QED BY <2>1, <2>2, <2>3, <2>4, <2>5, <2>6, <2>7, <2>8, <2>9, <2>10 DEF Next
  <1>. QED BY <1>1, <1>2, PTL DEF Spec

LEMMA LoadInvIngested == LoadInv => IngestedExact
  <1>. SUFFICES ASSUME LoadInv, Supported, pc = "done"
                PROVE  stored = IF phase = "ingestion" THEN FileEdges ELSE {}
    BY DEF IngestedExact
  <1>1. LoadTypes /\ pos = LastLine
    BY DEF LoadInv, BatchRead
  <1>2. FileEdges = EdgesUpTo[pos]
    BY <1>1, FileEdgesUpTo
  <1>3. CASE phase = "ingestion"
    BY <1>2, <1>3, NothingPending
  <1>4. CASE phase = "deletion"
    <2>1. stored \subseteq EdgesUpTo[pos]
      BY <1>1, <1>4 DEF LoadInv, NothingLost
    <2>. QED BY <1>4, <2>1, NothingPending
  <1>. QED BY <1>1, <1>3, <1>4 DEF LoadTypes

LEMMA LoadInvFound == LoadInv => BatchFound
  <1>. SUFFICES ASSUME LoadInv, Supported, pc = "check", NEW e \in ToSet(batch)
                PROVE  e \in stored <=> phase = "ingestion"
    BY DEF BatchFound, Found
  <1>1. e \in EdgesUpTo[pos] /\ phase \in {"ingestion", "deletion"}
    BY DEF LoadInv, BatchRead, LoadTypes
  <1>. QED BY <1>1, NothingPending

\* IngestedExact for every batch size, number of threads and file, which in the
\* parallel build has no edge twice: at its end the ingestion has put the edges
\* of the file into the graph and no other, and the deletion of the file leaves
\* none.  (ingestion.h:181-241)
THEOREM IngestedExactHolds == Spec => []IngestedExact
  BY LoadInvariant, LoadInvIngested, PTL

\* BatchFound for every batch size, number of threads and file, which in the
\* parallel build has no edge twice: what the CHECK build asserts behind the
\* join holds.  (ingestion.h:31, deletion.h:21)
THEOREM BatchFoundHolds == Spec => []BatchFound
  BY LoadInvariant, LoadInvFound, PTL

=============================================================================
