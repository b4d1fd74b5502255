------------------------- MODULE Interference_proofs -------------------------
(***************************************************************************)
(* Proofs about Interference, for every number of temporaries and every    *)
(* pair of arrays low and high that step [5] may leave.                    *)
(***************************************************************************)
EXTENDS Interference, Extrema, SequenceTheorems, TLAPS

(***************************************************************************)
(* What step [5] sees to: there is a temporary, low and high have numbers  *)
(* in them, and no range ends before it begins (of one that does, Overlap  *)
(* would find pairs that have no command in common).                       *)
(***************************************************************************)
Arrays ==
  {r \in [low : [Temporary -> Int], high : [Temporary -> Int]] :
     \A t \in Temporary : r.low[t] <= r.high[t]}

InterferenceAssumption == NumTemporaries \in Nat \ {0} /\ Ranges \subseteq Arrays

-----------------------------------------------------------------------------
(***************************************************************************)
(* The inductive invariant.  Loops: the inner loop stays above the         *)
(* diagonal, and the file is closed behind the last row.  Written: the     *)
(* file has exactly those pairs that the loops have passed and that meet.  *)
(***************************************************************************)
Loops == i < j /\ (closed => i >= NumTemporaries)

Passed(a, b) ==
  /\ a \in Temporary /\ b \in Temporary
  /\ 1 <= a /\ a < b
  /\ a < i \/ (a = i /\ b < j)

Written ==
  /\ \A k \in 1 .. Len(graph) :
       /\ Passed(graph[k][1], graph[k][2])
       /\ Overlap(range, graph[k][1], graph[k][2])
  /\ \A a, b \in Temporary : Passed(a, b) /\ Overlap(range, a, b) => \E k \in 1 .. Len(graph) : graph[k] = <<a, b>>
  /\ \A k, l \in 1 .. Len(graph) : k < l => Before(graph[k], graph[l])

FInv == NumTemporaries \in Nat \ {0} /\ range \in Arrays /\ TypeOK /\ Loops /\ Written

-----------------------------------------------------------------------------
\* An empty file, and nothing passed.
LEMMA StartFInv ==
  ASSUME NumTemporaries \in Nat \ {0}, NEW r \in Arrays, Start(r)
  PROVE  FInv
<1>1. graph = <<>> /\ Len(graph) = 0 /\ graph \in Seq(Temporary \X Temporary)
  BY EmptySeq DEF Start
<1>2. TypeOK
  <2>1. range \in [low : [Temporary -> Int], high : [Temporary -> Int]]
    BY DEF Start, Arrays
  <2>2. i \in 1 .. NumTemporaries + 1 /\ j \in 2 .. NumTemporaries + 1
    <3>1. i = 1 /\ j = 2
      BY DEF Start
    <3> QED
      BY <3>1
  <2>3. closed \in BOOLEAN
    BY DEF Start
  <2> QED
    BY <1>1, <2>1, <2>2, <2>3 DEF TypeOK
<1>3. \A a, b : ~Passed(a, b)
  BY DEF Passed, Temporary, Start
<1> QED
  BY <1>1, <1>2, <1>3 DEF FInv, Loops, Written, Start

LEMMA ComparePairStep == FInv /\ ComparePair => FInv'
<1> SUFFICES ASSUME FInv, ComparePair
             PROVE  FInv'
  OBVIOUS
<1>1. /\ NumTemporaries \in Nat \ {0} /\ i \in Nat /\ j \in Nat /\ 1 <= i /\ i < j
      /\ i < NumTemporaries /\ j < NumTemporaries /\ ~closed
      /\ i \in Temporary /\ j \in Temporary /\ <<i, j>> \in Temporary \X Temporary
      /\ j' = j + 1 /\ UNCHANGED <<range, i, closed>>
      /\ graph \in Seq(Temporary \X Temporary) /\ Len(graph) \in Nat
  BY LenProperties DEF FInv, TypeOK, Loops, ComparePair, Temporary
<1>2. ~Passed(i, j)
  BY <1>1 DEF Passed
<1>3. \A a, b : Passed(a, b)' <=> Passed(a, b) \/ (a = i /\ b = j)
  BY <1>1 DEF Passed, Temporary
<1>a. range' \in Arrays'
  BY <1>1 DEF FInv, Arrays, Temporary
<1>4. CASE Overlap(range, i, j)
  <2>1. /\ graph' = Append(graph, <<i, j>>) /\ Len(graph') = Len(graph) + 1
        /\ graph' \in Seq(Temporary \X Temporary)
        /\ \A k \in 1 .. Len(graph) : graph'[k] = graph[k]
        /\ graph'[Len(graph) + 1] = <<i, j>>
    BY <1>1, <1>4, AppendProperties DEF ComparePair
  <2>2. \A k \in 1 .. Len(graph') : k \in 1 .. Len(graph) \/ k = Len(graph) + 1
    BY <2>1, <1>1
  <2>3. TypeOK' /\ Loops'
    BY <1>1, <2>1 DEF FInv, TypeOK, Loops
  <2>4. \A k \in 1 .. Len(graph') :
          Passed(graph[k][1], graph[k][2])' /\ Overlap(range, graph'[k][1], graph'[k][2])
    <3> SUFFICES ASSUME NEW k \in 1 .. Len(graph')
                 PROVE  /\ \/ Passed(graph'[k][1], graph'[k][2])
                           \/ graph'[k][1] = i /\ graph'[k][2] = j
                        /\ Overlap(range, graph'[k][1], graph'[k][2])
      BY <1>3 DEF Passed
    <3>1. CASE k \in 1 .. Len(graph)
      BY <3>1, <2>1 DEF FInv, Written
    <3>2. CASE k = Len(graph) + 1
      BY <3>2, <2>1, <1>4
    <3> QED
      BY <2>2, <3>1, <3>2
  <2>5. ASSUME NEW a, NEW b, Passed(a, b)', Overlap(range, a, b)
        PROVE  \E k \in 1 .. Len(graph') : graph'[k] = <<a, b>>
    <3>1. CASE a = i /\ b = j
      BY <3>1, <2>1, <1>1
    <3>2. CASE Passed(a, b)
      <4>1. PICK k \in 1 .. Len(graph) : graph[k] = <<a, b>>
        BY <3>2, <2>5 DEF FInv, Written, Passed
      <4>2. graph'[k] = <<a, b>>
        BY <4>1, <2>1
      <4>3. k \in 1 .. Len(graph')
        <5>1. Len(graph) \in Nat /\ Len(graph') = Len(graph) + 1
          BY <1>1, <2>1
        <5> QED
          BY <5>1
      <4> QED
        BY <4>2, <4>3
    <3> QED
      BY <2>5, <1>3, <3>1, <3>2
  <2>6. \A k, l \in 1 .. Len(graph') : k < l => Before(graph'[k], graph'[l])
    <3> SUFFICES ASSUME NEW k \in 1 .. Len(graph'), NEW l \in 1 .. Len(graph'), k < l
                 PROVE  Before(graph'[k], graph'[l])
      OBVIOUS
    <3>1. k \in 1 .. Len(graph) /\ graph'[k] = graph[k]
      BY <2>1, <2>2, <1>1
    <3>2. CASE l \in 1 .. Len(graph)
      BY <3>1, <3>2, <2>1 DEF FInv, Written
    <3>3. CASE l = Len(graph) + 1
      <4>1. Passed(graph[k][1], graph[k][2])
        BY <3>1 DEF FInv, Written
      <4> QED
        BY <4>1, <3>1, <3>3, <2>1 DEF Before, Passed
    <3> QED
      BY <3>2, <3>3, <2>2
  <2>7. \A a, b : Overlap(range, a, b)' <=> Overlap(range, a, b)
    BY <1>1 DEF Overlap
  <2>8. Written'
    BY <2>4, <2>5, <2>6, <2>7, <1>1 DEF Written
  <2> QED
    BY <1>1, <1>a, <2>3, <2>8 DEF FInv
<1>5. CASE ~Overlap(range, i, j)
  <2>1. graph' = graph
    BY <1>5 DEF ComparePair
  <2>2. TypeOK' /\ Loops'
    BY <1>1, <2>1 DEF FInv, TypeOK, Loops
  <2>3. Written'
    BY <1>1, <1>3, <1>5, <2>1 DEF FInv, Written
  <2> QED
    BY <1>1, <1>a, <2>2, <2>3 DEF FInv
<1> QED
  BY <1>4, <1>5

\* The next row starts behind the diagonal; all of the last one has been passed.
LEMMA NextRowStep == FInv /\ NextRow => FInv'
<1> SUFFICES ASSUME FInv, NextRow
             PROVE  FInv'
  OBVIOUS
<1>1. /\ NumTemporaries \in Nat \ {0} /\ i \in Nat /\ j \in Nat /\ 1 <= i
      /\ i < NumTemporaries /\ j >= NumTemporaries /\ ~closed
      /\ i' = i + 1 /\ j' = i + 2 /\ UNCHANGED <<range, graph, closed>>
  BY DEF FInv, TypeOK, NextRow
<1>2. \A a, b : Passed(a, b)' <=> Passed(a, b)
  BY <1>1 DEF Passed, Temporary
<1>3. TypeOK' /\ Loops'
  BY <1>1 DEF FInv, TypeOK, Loops
<1>4. Written'
  BY <1>1, <1>2 DEF FInv, Written
<1> QED
  BY <1>1, <1>3, <1>4 DEF FInv

LEMMA NextFInv == FInv /\ [Next]_vars => FInv'
<1>1. ASSUME FInv, UNCHANGED <<range, i, j, graph>>, closed' \in BOOLEAN, closed' => i >= NumTemporaries
      PROVE  FInv'
  <2>1. TypeOK' /\ Loops'
    BY <1>1 DEF FInv, TypeOK, Loops
  <2>2. Written'
    <3>1. \A a, b : Passed(a, b)' <=> Passed(a, b)
      BY <1>1 DEF Passed
    <3> QED
      BY <1>1, <3>1 DEF FInv, Written
  <2> QED
    BY <1>1, <2>1, <2>2 DEF FInv
<1>2. FInv /\ CloseFile => FInv'
  BY <1>1 DEF CloseFile
<1>3. FInv /\ UNCHANGED vars => FInv'
  BY <1>1 DEF vars, FInv, TypeOK, Loops
<1> QED
  BY <1>2, <1>3, ComparePairStep, NextRowStep DEF Next

\* The order of the lines is a part of the invariant.
LEMMA OrderFromFInv == FInv => FileOrdered
  BY DEF FInv, Written, Passed, FileOrdered

(***************************************************************************)
(* Two ranges overlap exactly when a command is in both, the later of      *)
(* their first commands being one; behind the last row every pair of       *)
(* numbered temporaries has been passed.                                   *)
(***************************************************************************)
LEMMA CompleteFromFInv == FInv => FileComplete
<1> SUFFICES ASSUME FInv, closed
             PROVE  FileComplete
  BY DEF FileComplete
<1>1. /\ NumTemporaries \in Nat \ {0} /\ i >= NumTemporaries /\ i \in Nat
      /\ range.low \in [Temporary -> Int] /\ range.high \in [Temporary -> Int]
      /\ graph \in Seq(Temporary \X Temporary)
  BY DEF FInv, Loops, TypeOK
<1>2. \A a, b : Passed(a, b) <=> a \in Temporary \ {0} /\ b \in Temporary \ {0} /\ a < b
  BY <1>1 DEF Passed, Temporary
<1>3. ASSUME NEW a \in Temporary, NEW b \in Temporary
      PROVE  Overlap(range, a, b) <=> \E c \in 0 .. range.high[a] : InRange(a, c) /\ InRange(b, c)
  <2>1. /\ range.low[a] \in Int /\ range.low[b] \in Int
        /\ range.high[a] \in Int /\ range.high[b] \in Int
        /\ range.low[a] <= range.high[a] /\ range.low[b] <= range.high[b]
    BY <1>1 DEF FInv, Arrays
  <2>2. ASSUME NEW c \in 0 .. range.high[a], InRange(a, c), InRange(b, c)
        PROVE  Overlap(range, a, b)
    BY <2>1, <2>2 DEF InRange, Overlap
  <2>3. ASSUME Overlap(range, a, b)
        PROVE  \E c \in 0 .. range.high[a] : InRange(a, c) /\ InRange(b, c)
    <3>1. CASE range.low[a] <= range.low[b] /\ range.low[b] <= range.high[b]
      <4>1. /\ range.low[b] \in 0 .. range.high[a]
            /\ InRange(a, range.low[b]) /\ InRange(b, range.low[b])
        BY <2>1, <2>3, <3>1 DEF InRange, Overlap
      <4> QED
        BY <4>1
    <3>2. CASE range.low[b] <= range.low[a] /\ range.low[a] <= range.high[a]
      <4>1. /\ range.low[a] \in 0 .. range.high[a]
            /\ InRange(a, range.low[a]) /\ InRange(b, range.low[a])
        BY <2>1, <2>3, <3>2 DEF InRange, Overlap
      <4> QED
        BY <4>1
    <3> QED
      BY <2>1, <2>3, <3>1, <3>2 DEF Overlap
  <2> QED
    BY <2>2, <2>3
<1>4. ASSUME NEW k \in 1 .. Len(graph)
      PROVE  graph[k] \in (Temporary \ {0}) \X (Temporary \ {0}) /\ graph[k] = <<graph[k][1], graph[k][2]>>
  <2>1. graph[k] \in Temporary \X Temporary
    BY <1>1, ElementOfSeq
  <2> QED
    BY <2>1, <1>2 DEF FInv, Written
<1> QED
  BY <1>2, <1>3, <1>4 DEF FInv, Written, FileComplete, Lines

-----------------------------------------------------------------------------
(***************************************************************************)
(* The file between the two programs, for every pair of arrays: its lines  *)
(* are in order, and it has every pair of temporaries whose ranges meet    *)
(* and no other.                                                           *)
(***************************************************************************)
THEOREM InterferenceGraphCorrect ==
  ASSUME InterferenceAssumption
  PROVE  Spec => [](FileOrdered /\ FileComplete)
<1>1. Init => FInv
  BY StartFInv DEF Init, InterferenceAssumption
<1>2. FInv => FileOrdered /\ FileComplete
  BY OrderFromFInv, CompleteFromFInv
<1> QED
  BY <1>1, <1>2, NextFInv, PTL DEF Spec

-----------------------------------------------------------------------------
\* The most steps that the two loops still take: a row is no longer than the first one.
Row == NumTemporaries + 2

StepsLeft ==
  IF closed THEN 0 ELSE (NumTemporaries - i) * Row + (NumTemporaries + 1 - j) + 1

LEMMA RowsLeft ==
  ASSUME FInv
  PROVE  /\ NumTemporaries - i \in Nat /\ NumTemporaries + 1 - j \in Nat
         /\ (NumTemporaries - i) * Row \in Nat
         /\ StepsLeft \in Nat
<1>1. NumTemporaries - i \in Nat /\ NumTemporaries + 1 - j \in Nat /\ Row \in Nat
  BY DEF FInv, TypeOK, Loops, Row
<1>2. (NumTemporaries - i) * Row \in Nat
  BY <1>1, TimesInNat
<1> QED
  BY <1>1, <1>2 DEF StepsLeft

LEMMA EveryStepCounts == FInv /\ Next => StepsLeft' < StepsLeft
<1> SUFFICES ASSUME FInv, Next
             PROVE  StepsLeft' < StepsLeft
  OBVIOUS
<1>1. ~closed /\ NumTemporaries \in Nat /\ i \in Int /\ j \in Int /\ i < j
  BY DEF Next, ComparePair, NextRow, CloseFile, FInv, TypeOK, Loops
<1>2. PICK k \in Nat : k = (NumTemporaries - i) * Row
  BY RowsLeft
<1>3. StepsLeft = k + (NumTemporaries + 1 - j) + 1
  BY <1>1, <1>2 DEF StepsLeft
<1>4. CASE ComparePair
  <2>1. i' = i /\ j' = j + 1 /\ ~closed'
    BY <1>1, <1>4 DEF ComparePair
  <2>2. StepsLeft' = k + (NumTemporaries + 1 - (j + 1)) + 1
    BY <1>2, <2>1 DEF StepsLeft
  <2> QED
    BY <1>1, <1>3, <2>2
<1>5. CASE NextRow
  <2>1. i' = i + 1 /\ j' = i + 2 /\ ~closed' /\ i < NumTemporaries /\ NumTemporaries - i - 1 \in Nat
    BY <1>1, <1>5 DEF NextRow
  <2>2. PICK m \in Nat : m = (NumTemporaries - i - 1) * Row /\ m + Row <= k
    <3>1. NumTemporaries - i - 1 < NumTemporaries - i /\ Row \in Nat /\ NumTemporaries - i \in Nat
      BY <1>1, <2>1 DEF Row
    <3> QED
      BY <1>2, <2>1, <3>1, TimesInNat, TimesMonotone
  <2>3. NumTemporaries - i' = NumTemporaries - i - 1
    BY <1>1, <2>1
  <2>4. StepsLeft' = m + (NumTemporaries + 1 - (i + 2)) + 1
    BY <2>1, <2>2, <2>3 DEF StepsLeft
  <2>5. Row = NumTemporaries + 2 /\ j <= NumTemporaries + 1 /\ 1 <= i
    BY DEF Row, FInv, TypeOK
  <2> QED
    BY <1>1, <1>3, <2>2, <2>4, <2>5
<1>6. CASE CloseFile
  <2>1. NumTemporaries + 1 - j \in Nat
    BY RowsLeft
  <2>2. StepsLeft' = 0
    BY <1>6 DEF CloseFile, StepsLeft
  <2> QED
    BY <1>2, <1>3, <2>1, <2>2
<1> QED
  BY <1>4, <1>5, <1>6 DEF Next

(***************************************************************************)
(* The two nested loops end, and with them the file of edges: a number     *)
(* that the number of temporaries alone decides becomes smaller with every *)
(* step, in NextRow, which starts the inner loop again, too.               *)
(***************************************************************************)
THEOREM FileEnds ==
  ASSUME InterferenceAssumption
  PROVE  Spec => /\ StepsLeft = (NumTemporaries - 1) * Row + NumTemporaries
                 /\ [](StepsLeft \in Nat)
                 /\ [][StepsLeft' < StepsLeft]_vars
<1>1. Init => FInv
  BY StartFInv DEF Init, InterferenceAssumption
<1>2. Init => StepsLeft = (NumTemporaries - 1) * Row + NumTemporaries
  <2> SUFFICES ASSUME Init
               PROVE  StepsLeft = (NumTemporaries - 1) * Row + NumTemporaries
    OBVIOUS
  <2>1. PICK k \in Nat : k = (NumTemporaries - 1) * Row
    <3>1. NumTemporaries - 1 \in Nat /\ Row \in Nat
      BY DEF InterferenceAssumption, Row
    <3> QED
      BY <3>1, TimesInNat
  <2>2. StepsLeft = k + (NumTemporaries + 1 - 2) + 1
    BY <2>1 DEF Init, Start, StepsLeft
  <2> QED
    BY <2>1, <2>2 DEF InterferenceAssumption
<1>3. FInv => StepsLeft \in Nat
  BY RowsLeft
<1> QED
  BY <1>1, <1>2, <1>3, EveryStepCounts, NextFInv, PTL DEF Spec
=============================================================================
