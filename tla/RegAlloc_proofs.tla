--------------------------- MODULE RegAlloc_proofs ---------------------------
(***************************************************************************)
(* Proofs about RegAlloc, for every number of registers, every largest     *)
(* vertex and every ordered file.                                          *)
(***************************************************************************)
EXTENDS RegAlloc, Extrema, FiniteSetTheorems, SequenceTheorems, TLAPS

-----------------------------------------------------------------------------
(***************************************************************************)
(* The inductive invariant.  Sizes: the first reading bounds the second    *)
(* column of what it has read, and the array has a cell for all of it.     *)
(***************************************************************************)
Sizes ==
  /\ Ordered(file)
  /\ pc = "measure" => /\ max_alloc_num <= MaxVertex
                       /\ line = 1 \/ max_alloc_num >= 1
                       /\ \A k \in 1 .. line - 1 : file[k][2] <= max_alloc_num
  /\ pc # "measure" => /\ max_alloc_num >= 0
                       /\ \A k \in 1 .. Len(file) : file[k][2] < max_alloc_num

\* The edges among the first m - 1 lines.
JoinedBefore(m, v, w) == \E k \in 1 .. m - 1 : file[k] = <<v, w>> \/ file[k] = <<w, v>>

\* Lists: the second reading has filed the lines before the current one, each where it belongs.
Lists ==
  /\ pc = "measure" => vertex_handled = 0
  /\ pc = "adjacency" =>
       /\ line = 1 => vertex_handled = 0
       /\ line > 1 => vertex_handled = file[line - 1][1]
       /\ \A v \in Vertices : Neighbours(v) = {w \in Vertices : JoinedBefore(line, v, w)}
  /\ pc \notin {"measure", "adjacency"} =>
       \A v \in Vertices : Neighbours(v) = {w \in Vertices : Joined(v, w)}

\* Colours: the vertices before i, and only they, have registers, and these do not clash.
Colours ==
  /\ pc \in {"measure", "adjacency"} => i = 1
  /\ pc \in {"assign", "quit"} => \A v \in Vertices : (reg_assigned[v] = -1) <=> (v >= i)
  /\ pc = "quit" => i \in Vertices /\ Free(i) = {}
  /\ ProperColouring

IInv == TypeOK /\ Sizes /\ Lists /\ Colours

-----------------------------------------------------------------------------
\* Appending to a list adds one element to its range.
LEMMA RangeAppend ==
  ASSUME NEW S, NEW s \in Seq(S), NEW e \in S
  PROVE  Range(Append(s, e)) = Range(s) \cup {e}
<1>1. DOMAIN Append(s, e) = 1 .. Len(s) + 1 /\ DOMAIN s = 1 .. Len(s) /\ Len(s) \in Nat
  BY LenProperties, AppendProperties
<1>2. \A k \in 1 .. Len(s) : Append(s, e)[k] = s[k]
  BY AppendProperties
<1>3. Append(s, e)[Len(s) + 1] = e
  BY AppendProperties
<1> QED
  BY <1>1, <1>2, <1>3 DEF Range

\* Every line of a file is a pair of vertices.
LEMMA LinePair ==
  ASSUME TypeOK, NEW k \in 1 .. Len(file)
  PROVE  /\ file[k][1] \in 1 .. MaxVertex
         /\ file[k][2] \in 1 .. MaxVertex
         /\ file[k] = <<file[k][1], file[k][2]>>
         /\ Len(file) \in Nat
         /\ DOMAIN file = 1 .. Len(file)
  BY ElementOfSeq, LenProperties DEF TypeOK

-----------------------------------------------------------------------------
\* Nothing is read yet of a file that is in order.
LEMMA StartInv ==
  ASSUME NEW f \in Seq((1 .. MaxVertex) \X (1 .. MaxVertex)), Ordered(f), Start(f)
  PROVE  IInv
<1>1. /\ file \in Seq((1 .. MaxVertex) \X (1 .. MaxVertex))
      /\ Ordered(file)
      /\ Len(file) \in Nat
      /\ MaxVertex \in Nat
  BY RegAllocAssumption, LenProperties DEF Start
<1> QED
  BY <1>1, RegAllocAssumption
  DEF Start, IInv, TypeOK, Sizes, Lists, Colours, ProperColouring

LEMMA InitInv == Init => IInv
  BY StartInv, RegAllocAssumption DEF Init

\* The first reading keeps a bound of the second column.
LEMMA MeasureStep == IInv /\ MeasureLine => IInv'
<1> SUFFICES ASSUME IInv, MeasureLine
             PROVE  IInv'
  OBVIOUS
<1> DEFINE num1 == file[line][1]
           num2 == file[line][2]
<1>0. /\ line \in 1 .. Len(file) /\ Len(file) \in Nat /\ MaxVertex \in Nat
      /\ num1 \in 1 .. MaxVertex /\ num2 \in 1 .. MaxVertex /\ num1 < num2
      /\ \A k \in 1 .. Len(file) : file[k][2] \in 1 .. MaxVertex
  BY LinePair, RegAllocAssumption DEF IInv, TypeOK, Sizes, Ordered, MeasureLine
<1>1. /\ max_alloc_num' \in 1 .. MaxVertex
      /\ max_alloc_num' >= num2
      /\ line = 1 \/ max_alloc_num' >= max_alloc_num
  <2>1. line = 1 \/ max_alloc_num \in 1 .. MaxVertex
    BY DEF IInv, Sizes, TypeOK, MeasureLine
  <2> HIDE DEF num1, num2
  <2>2. CASE line = 1
    <3>1. max_alloc_num' = num2
      BY <1>0, <2>2 DEF MeasureLine, num1, num2
    <3> QED
      BY <3>1, <2>2, <1>0
  <2>3. CASE line # 1
    <3>1. max_alloc_num' = IF num2 > max_alloc_num THEN num2 ELSE max_alloc_num
      BY <1>0, <2>3 DEF MeasureLine, num1, num2
    <3> QED
      BY <3>1, <2>1, <2>3, <1>0
  <2> QED
    BY <2>2, <2>3
<1>2. TypeOK'
  BY <1>0, <1>1 DEF IInv, TypeOK, MeasureLine
<1>3. Sizes'
  <2>1. \A k \in 1 .. line : file[k][2] <= max_alloc_num'
    <3> SUFFICES ASSUME NEW k \in 1 .. line
                 PROVE  file[k][2] <= max_alloc_num'
      OBVIOUS
    <3>1. CASE k = line
      BY <3>1, <1>1
    <3>2. CASE k # line
      <4>1. k \in 1 .. line - 1 /\ line # 1 /\ file[k][2] \in Nat
        BY <3>2, <1>0
      <4>2. file[k][2] <= max_alloc_num
        BY <4>1 DEF IInv, Sizes, MeasureLine
      <4> QED
        BY <4>1, <4>2, <1>1, <1>0 DEF IInv, TypeOK
    <3> QED
      BY <3>1, <3>2
  <2> QED
    BY <2>1, <1>0, <1>1 DEF IInv, Sizes, MeasureLine
<1>4. Lists'
  BY DEF IInv, Lists, MeasureLine
<1>5. Colours'
  BY DEF IInv, Colours, ProperColouring, MeasureLine
<1> QED
  BY <1>2, <1>3, <1>4, <1>5 DEF IInv

\* The array is made with a cell for every vertex of the file, and all lists are empty.
LEMMA AllocateStep == IInv /\ AllocateGraph => IInv'
<1> SUFFICES ASSUME IInv, AllocateGraph
             PROVE  IInv'
  OBVIOUS
<1>0. Len(file) \in Nat /\ MaxVertex \in Nat /\ line = Len(file) + 1
  BY RegAllocAssumption, LenProperties DEF IInv, TypeOK, AllocateGraph
<1>1. Vertices' = 1 .. max_alloc_num /\ max_alloc_num' = max_alloc_num + 1
      /\ max_alloc_num \in -1 .. MaxVertex
  BY DEF Vertices, AllocateGraph, IInv, TypeOK, Sizes
<1>2. adj' = [v \in 1 .. max_alloc_num |-> <<>>] /\ <<>> \in Seq(1 .. MaxVertex)
  BY EmptySeq DEF AllocateGraph
<1>3. TypeOK'
  BY <1>0, <1>1, <1>2 DEF IInv, TypeOK, AllocateGraph
<1>4. Sizes'
  <2>1. \A k \in 1 .. Len(file) : file[k][2] < max_alloc_num'
    BY <1>0, <1>1, LinePair DEF IInv, Sizes, AllocateGraph
  <2> QED
    BY <2>1, <1>0, <1>1 DEF IInv, Sizes, AllocateGraph
<1>5. Lists'
  <2>1. \A v \in Vertices' : Neighbours(v)' = {}
    BY <1>1, <1>2 DEF Neighbours, Range
  <2>2. line' = 1 /\ vertex_handled' = 0 /\ pc' = "adjacency"
    BY DEF AllocateGraph, IInv, Lists, TypeOK
  <2> QED
    BY <2>1, <2>2 DEF Lists, JoinedBefore
<1>6. Colours'
  BY DEF IInv, Colours, ProperColouring, AllocateGraph
<1> QED
  BY <1>3, <1>4, <1>5, <1>6 DEF IInv

(***************************************************************************)
(* The second reading: the running maximum is the line's own first column, *)
(* because the lines come in order.                                        *)
(***************************************************************************)
LEMMA HandledIsFirst ==
  ASSUME IInv, pc = "adjacency", line <= Len(file)
  PROVE  /\ Handled = file[line][1]
         /\ Handled \in Vertices
         /\ file[line][2] \in Vertices
         /\ Handled < file[line][2]
         /\ Handled <= MaxVertex
         /\ file[line] = <<Handled, file[line][2]>>
<1>1. /\ line \in 1 .. Len(file) /\ Len(file) \in Nat
      /\ file[line][1] \in 1 .. MaxVertex /\ file[line][2] \in 1 .. MaxVertex
      /\ file[line][1] < file[line][2]
      /\ file[line] = <<file[line][1], file[line][2]>>
  BY LinePair DEF IInv, TypeOK, Sizes, Ordered
<1>2. Handled = file[line][1]
  <2>1. CASE line = 1
    BY <2>1, <1>1 DEF IInv, Lists, Handled
  <2>2. CASE line # 1
    <3>1. vertex_handled = file[line - 1][1] /\ line - 1 \in 1 .. Len(file) /\ line - 1 < line
      BY <2>2, <1>1 DEF IInv, Lists
    <3>2. file[line - 1][1] <= file[line][1] /\ file[line - 1][1] \in Int
      BY <3>1, <1>1, LinePair DEF IInv, Sizes, Ordered
    <3> QED
      BY <3>1, <3>2, <1>1 DEF Handled
  <2> QED
    BY <2>1, <2>2
<1>3. max_alloc_num \in Int /\ file[line][2] < max_alloc_num
  BY <1>1 DEF IInv, Sizes, TypeOK
<1> QED
  BY <1>1, <1>2, <1>3, RegAllocAssumption DEF Vertices

\* Filing a line puts each of its vertices into the other's list, and changes no other list.
LEMMA AddLineStep == IInv /\ AddLine => IInv'
<1> SUFFICES ASSUME IInv, AddLine
             PROVE  IInv'
  OBVIOUS
<1> DEFINE h == Handled
           w == file[line][2]
<1>0. /\ h = file[line][1] /\ h \in Vertices /\ w \in Vertices /\ h < w
      /\ h \in 1 .. MaxVertex /\ w \in 1 .. MaxVertex
      /\ file[line] = <<h, w>>
      /\ line \in 1 .. Len(file) /\ Len(file) \in Nat /\ MaxVertex \in Nat
      /\ pc = "adjacency" /\ Vertices' = Vertices
  BY HandledIsFirst, LinePair, RegAllocAssumption DEF IInv, TypeOK, AddLine, Vertices
<1>1. /\ adj \in [Vertices -> Seq(1 .. MaxVertex)]
      /\ adj' = [[adj EXCEPT ![h] = Append(adj[h], w)] EXCEPT ![w] = Append(adj[w], h)]
  <2>1. adj \in [Vertices -> Seq(1 .. MaxVertex)]
    BY <1>0 DEF IInv, TypeOK
  <2>2. adj' = makeadj(makeadj(adj, h, w), w, h)
    BY DEF AddLine
  <2>3. h # w
    BY <1>0 DEF Vertices
  <2> HIDE DEF h, w
  <2>4. makeadj(adj, h, w) = [adj EXCEPT ![h] = Append(adj[h], w)]
    BY DEF makeadj
  <2>5. [adj EXCEPT ![h] = Append(adj[h], w)][w] = adj[w]
    BY <2>1, <2>3, <1>0
  <2> QED
    BY <2>1, <2>2, <2>4, <2>5 DEF makeadj
<1> HIDE DEF h, w
<1>2. /\ h # w
      /\ adj[h] \in Seq(1 .. MaxVertex)
      /\ adj[w] \in Seq(1 .. MaxVertex)
      /\ Append(adj[h], w) \in Seq(1 .. MaxVertex)
      /\ Append(adj[w], h) \in Seq(1 .. MaxVertex)
  BY <1>0, <1>1, AppendProperties DEF Vertices
<1>3. \A s \in Seq(1 .. MaxVertex), e \in 1 .. MaxVertex : Range(Append(s, e)) = Range(s) \cup {e}
  BY RangeAppend
<1>4. TypeOK'
  <2>1. adj' \in [Vertices -> Seq(1 .. MaxVertex)]
    BY <1>1, <1>2
  <2>2. /\ vertex_handled' = h /\ line' = line + 1
        /\ UNCHANGED <<file, pc, max_alloc_num, reg_assigned, i>>
    BY DEF AddLine, h
  <2> QED
    BY <1>0, <2>1, <2>2 DEF IInv, TypeOK
<1>5. Sizes'
  BY <1>0 DEF IInv, Sizes, AddLine
<1>6. Lists'
  <2>1. \A v \in Vertices :
          Neighbours(v)' = Neighbours(v) \cup (IF v = h THEN {w} ELSE {})
                                         \cup (IF v = w THEN {h} ELSE {})
    <3> SUFFICES ASSUME NEW v \in Vertices
                 PROVE  Neighbours(v)' = Neighbours(v) \cup (IF v = h THEN {w} ELSE {})
                                                       \cup (IF v = w THEN {h} ELSE {})
      OBVIOUS
    <3>1. CASE v = h
      <4>1. adj'[v] = Append(adj[h], w) /\ v # w
        BY <3>1, <1>0, <1>1, <1>2
      <4>2. Range(Append(adj[h], w)) = Range(adj[h]) \cup {w}
        BY <1>0, <1>2, <1>3
      <4> QED
        BY <4>1, <4>2, <3>1 DEF Neighbours
    <3>2. CASE v = w
      <4>1. adj'[v] = Append(adj[w], h) /\ v # h
        BY <3>2, <1>0, <1>1, <1>2
      <4>2. Range(Append(adj[w], h)) = Range(adj[w]) \cup {h}
        BY <1>0, <1>2, <1>3
      <4> QED
        BY <4>1, <4>2, <3>2 DEF Neighbours
    <3>3. CASE v # h /\ v # w
      <4>1. adj'[v] = adj[v]
        BY <3>3, <1>1
      <4> QED
        BY <4>1, <3>3 DEF Neighbours
    <3> QED
      BY <3>1, <3>2, <3>3
  <2>2. \A v \in Vertices : Neighbours(v) = {x \in Vertices : JoinedBefore(line, v, x)}
    BY <1>0 DEF IInv, Lists
  <2>3. \A v, x \in Vertices :
          JoinedBefore(line + 1, v, x) <=>
            \/ JoinedBefore(line, v, x)
            \/ v = h /\ x = w
            \/ v = w /\ x = h
    <3>1. \A k : k \in 1 .. line + 1 - 1 <=> k \in 1 .. line - 1 \/ k = line
      BY <1>0
    <3>2. \A v, x : file[line] = <<v, x>> <=> v = h /\ x = w
      BY <1>0
    <3> QED
      BY <3>1, <3>2 DEF JoinedBefore
  <2>4. \A v \in Vertices : Neighbours(v)' = {x \in Vertices : JoinedBefore(line + 1, v, x)}
    <3> SUFFICES ASSUME NEW v \in Vertices
                 PROVE  Neighbours(v)' = {x \in Vertices : JoinedBefore(line + 1, v, x)}
      OBVIOUS
    <3> DEFINE new == (IF v = h THEN {w} ELSE {}) \cup (IF v = w THEN {h} ELSE {})
    <3>1. Neighbours(v)' = {x \in Vertices : JoinedBefore(line, v, x)} \cup new
      BY <2>1, <2>2
    <3>2. new = {x \in Vertices : (v = h /\ x = w) \/ (v = w /\ x = h)}
      BY <1>0
    <3> HIDE DEF new
    <3> QED
      BY <3>1, <3>2, <2>3
  <2>5. line' = line + 1 /\ file' = file /\ vertex_handled' = file[line][1] /\ pc' = "adjacency"
    BY <1>0 DEF AddLine, h
  <2>6. \A v \in Vertices : Neighbours(v)' = {x \in Vertices : JoinedBefore(line, v, x)'}
    BY <2>4, <2>5 DEF JoinedBefore
  <2>7. line' # 1 /\ vertex_handled' = file'[line' - 1][1] /\ Vertices' = Vertices
    BY <1>0, <2>5
  <2>8. \A v \in Vertices' : Neighbours(v)' = {x \in Vertices' : JoinedBefore(line, v, x)'}
    BY <2>6, <2>7
  <2> QED
    BY <2>5, <2>7, <2>8 DEF Lists
<1>7. Colours'
  BY <1>0 DEF IInv, Colours, ProperColouring, AddLine
<1> QED
  BY <1>4, <1>5, <1>6, <1>7 DEF IInv

\* An edge joins two different vertices, in both directions, and comes from a line.
LEMMA JoinedFacts ==
  ASSUME IInv
  PROVE  /\ \A v, w : Joined(v, w) <=> JoinedBefore(Len(file) + 1, v, w)
         /\ \A v, w : Joined(v, w) => Joined(w, v) /\ v # w
<1>1. DOMAIN file = 1 .. Len(file) /\ Len(file) \in Nat
  BY LenProperties DEF IInv, TypeOK
<1>2. \A k \in 1 .. Len(file) : /\ file[k] = <<file[k][1], file[k][2]>>
                                /\ file[k][1] # file[k][2]
  BY <1>1, LinePair DEF IInv, Sizes, Ordered
<1>3. \A v, w : <<v, w>> \in Edges <=> \E k \in 1 .. Len(file) : file[k] = <<v, w>>
  BY <1>1, <1>2 DEF Edges
<1>4. \A v, w : Joined(v, w) => Joined(w, v) /\ v # w
  BY <1>2, <1>3 DEF Joined
<1>5. \A v, w : Joined(v, w) <=> JoinedBefore(Len(file) + 1, v, w)
  <2>1. 1 .. Len(file) + 1 - 1 = 1 .. Len(file)
    BY <1>1
  <2>2. \A v, w : JoinedBefore(Len(file) + 1, v, w)
                  <=> \E k \in 1 .. Len(file) : file[k] = <<v, w>> \/ file[k] = <<w, v>>
    BY <2>1 DEF JoinedBefore
  <2> QED
    BY <1>3, <2>2 DEF Joined
<1> QED
  BY <1>4, <1>5

\* When the second reading ends, the lists hold all lines.
LEMMA ClearStep == IInv /\ ClearRegisters => IInv'
<1> SUFFICES ASSUME IInv, ClearRegisters
             PROVE  IInv'
  OBVIOUS
<1>1. /\ line = Len(file) + 1 /\ pc = "adjacency" /\ pc' = "assign"
      /\ UNCHANGED <<file, line, max_alloc_num, vertex_handled, adj, i>>
      /\ reg_assigned' = [v \in Vertices |-> -1]
      /\ Vertices' = Vertices
      /\ NumRegs \in Nat \ {0}
  BY RegAllocAssumption, LenProperties DEF IInv, TypeOK, ClearRegisters, Vertices
<1>2. TypeOK'
  BY <1>1 DEF IInv, TypeOK
<1>3. Sizes'
  BY <1>1 DEF IInv, Sizes
<1>4. Lists'
  <2>1. \A v \in Vertices : Neighbours(v) = {w \in Vertices : Joined(v, w)}
    BY <1>1, JoinedFacts DEF IInv, Lists
  <2> QED
    BY <2>1, <1>1 DEF Lists, Neighbours, Joined, Edges
<1>5. Colours'
  <2>1. i = 1 /\ Vertices \subseteq Nat \ {0}
    BY <1>1 DEF IInv, Colours, Vertices
  <2> QED
    BY <2>1, <1>1 DEF Colours, ProperColouring, Vertices
<1> QED
  BY <1>2, <1>3, <1>4, <1>5 DEF IInv

(***************************************************************************)
(* The register found is free of all neighbours: those of the neighbours'  *)
(* neighbours that are marked besides do no harm.                          *)
(***************************************************************************)
LEMMA AssignStep == IInv /\ findFreeReg => IInv'
<1> SUFFICES ASSUME IInv, findFreeReg
             PROVE  IInv'
  OBVIOUS
<1> DEFINE r == Min(Free(i))
<1>1. /\ pc = "assign" /\ i \in Vertices /\ i \in Nat
      /\ UNCHANGED <<file, pc, line, max_alloc_num, vertex_handled, adj>>
      /\ reg_assigned' = [reg_assigned EXCEPT ![i] = r]
      /\ i' = i + 1
      /\ Vertices' = Vertices /\ Vertices \subseteq Nat
      /\ reg_assigned \in [Vertices -> -1 .. NumRegs - 1]
      /\ NumRegs \in Nat \ {0} /\ MaxVertex \in Nat
  BY RegAllocAssumption DEF IInv, TypeOK, findFreeReg, Vertices
<1>2. r \in Registers /\ r \notin {reg_assigned[w] : w \in Met(i)}
  <2>1. Free(i) \subseteq Nat /\ Free(i) # {}
    BY <1>1 DEF Free, Registers, findFreeReg
  <2>2. r \in Free(i)
    BY <2>1, MinIn
  <2> QED
    BY <2>2 DEF Free
<1> HIDE DEF r
<1>3. r \in 0 .. NumRegs - 1 /\ r # -1
  BY <1>1, <1>2 DEF Registers
<1>4. TypeOK'
  <2>1. i + 1 \in 1 .. MaxVertex + 1
    BY <1>1 DEF IInv, TypeOK, Vertices
  <2>2. reg_assigned' \in [Vertices -> -1 .. NumRegs - 1]
    BY <1>1, <1>3
  <2> QED
    BY <1>1, <2>1, <2>2 DEF IInv, TypeOK
<1>5. Sizes'
  BY <1>1 DEF IInv, Sizes
<1>6. Lists'
  BY <1>1 DEF IInv, Lists, Neighbours, Joined, Edges
<1>7. Colours'
  <2>1. \A v \in Vertices : reg_assigned'[v] = IF v = i THEN r ELSE reg_assigned[v]
    BY <1>1
  <2>2. \A v \in Vertices : (reg_assigned'[v] = -1) <=> (v >= i + 1)
    <3>1. \A v \in Vertices : (reg_assigned[v] = -1) <=> (v >= i)
      BY <1>1 DEF IInv, Colours
    <3> QED
      BY <3>1, <2>1, <1>1, <1>3
  <2>3. \A w \in Vertices : Joined(i, w) => reg_assigned[w] # r /\ w # i
    <3>1. \A w \in Vertices : Joined(i, w) => w \in Met(i)
      BY <1>1 DEF IInv, Lists, Met
    <3> QED
      BY <3>1, <1>2, JoinedFacts
  <2>4. \A v, w \in Vertices :
          Joined(v, w) /\ reg_assigned'[v] # -1 => reg_assigned'[v] # reg_assigned'[w]
    <3> SUFFICES ASSUME NEW v \in Vertices, NEW w \in Vertices,
                        Joined(v, w), reg_assigned'[v] # -1
                 PROVE  reg_assigned'[v] # reg_assigned'[w]
      OBVIOUS
    <3>1. CASE v = i
      BY <3>1, <2>1, <2>3
    <3>2. CASE w = i
      <4>1. reg_assigned[v] # r /\ v # i
        BY <3>2, <2>3, JoinedFacts
      <4> QED
        BY <4>1, <3>2, <2>1
    <3>3. CASE v # i /\ w # i
      <4>1. reg_assigned'[v] = reg_assigned[v] /\ reg_assigned'[w] = reg_assigned[w]
        BY <3>3, <2>1
      <4> QED
        BY <4>1, <1>1 DEF IInv, Colours, ProperColouring
    <3> QED
      BY <3>1, <3>2, <3>3
  <2>5. \A v, w : Joined(v, w)' <=> Joined(v, w)
    BY <1>1 DEF Joined, Edges
  <2> QED
    BY <2>2, <2>4, <2>5, <1>1 DEF Colours, ProperColouring
<1> QED
  BY <1>4, <1>5, <1>6, <1>7 DEF IInv

LEMMA QuitStep == IInv /\ Quit => IInv'
<1> SUFFICES ASSUME IInv, Quit
             PROVE  IInv'
  OBVIOUS
<1>1. /\ pc = "assign" /\ pc' = "quit" /\ Vertices' = Vertices
      /\ UNCHANGED <<file, line, max_alloc_num, vertex_handled, adj, reg_assigned, i>>
  BY DEF Quit, Vertices
<1>2. TypeOK'
  BY <1>1 DEF IInv, TypeOK
<1>3. Sizes'
  BY <1>1 DEF IInv, Sizes
<1>4. Lists'
  BY <1>1 DEF IInv, Lists, Neighbours, Joined, Edges
<1>5. Colours'
  <2>1. i \in Vertices /\ Free(i) = {}
    BY DEF Quit, IInv, TypeOK, Vertices
  <2>2. Free(i)' = Free(i)
    BY <1>1 DEF Free, Met, Neighbours
  <2> QED
    BY <1>1, <2>1, <2>2 DEF IInv, Colours, ProperColouring, Joined, Edges
<1> QED
  BY <1>2, <1>3, <1>4, <1>5 DEF IInv

\* A vertex with an empty list has no neighbour its register 0 could clash with.
LEMMA LonelyStep == IInv /\ PlaceLonely => IInv'
<1> SUFFICES ASSUME IInv, PlaceLonely
             PROVE  IInv'
  OBVIOUS
<1>1. /\ pc = "assign" /\ pc' = "allocated" /\ Vertices' = Vertices
      /\ UNCHANGED <<file, line, max_alloc_num, vertex_handled, adj, i>>
      /\ reg_assigned' = [v \in Vertices |-> IF adj[v] = <<>> THEN 0 ELSE reg_assigned[v]]
      /\ reg_assigned \in [Vertices -> -1 .. NumRegs - 1]
      /\ NumRegs \in Nat \ {0}
  BY RegAllocAssumption DEF IInv, TypeOK, PlaceLonely, Vertices
<1>2. \A v \in Vertices : reg_assigned[v] \in Registers
  <2>1. \A v \in Vertices : ~(v >= i)
    BY DEF PlaceLonely, Vertices, IInv, TypeOK
  <2>2. \A v \in Vertices : reg_assigned[v] # -1
    BY <2>1, <1>1 DEF IInv, Colours
  <2> QED
    BY <2>2, <1>1 DEF Registers
<1>3. \A v \in Vertices : reg_assigned'[v] \in Registers
  BY <1>1, <1>2 DEF Registers
<1>4. \A v \in Vertices : adj[v] = <<>> => \A w \in Vertices : ~Joined(v, w)
  <2>1. \A v \in Vertices : adj[v] = <<>> => Neighbours(v) = {}
    BY DEF Neighbours, Range
  <2> QED
    BY <2>1, <1>1 DEF IInv, Lists
<1>5. TypeOK'
  <2>1. reg_assigned' \in [Vertices -> -1 .. NumRegs - 1]
    BY <1>1
  <2> QED
    BY <1>1, <2>1 DEF IInv, TypeOK
<1>6. Sizes'
  BY <1>1 DEF IInv, Sizes
<1>7. Lists'
  <2>1. /\ \A v \in Vertices : Neighbours(v) = {w \in Vertices : Joined(v, w)}
        /\ \A v : Neighbours(v)' = Neighbours(v)
        /\ \A v, w : Joined(v, w)' <=> Joined(v, w)
    BY <1>1 DEF IInv, Lists, Neighbours, Joined, Edges
  <2> QED
    BY <2>1, <1>1 DEF Lists
<1>8. Colours'
  <2>1. \A v, w \in Vertices : Joined(v, w) => reg_assigned'[v] # reg_assigned'[w]
    <3> SUFFICES ASSUME NEW v \in Vertices, NEW w \in Vertices, Joined(v, w)
                 PROVE  reg_assigned'[v] # reg_assigned'[w]
      OBVIOUS
    <3>1. adj[v] # <<>> /\ adj[w] # <<>>
      BY <1>4, JoinedFacts
    <3>2. reg_assigned'[v] = reg_assigned[v] /\ reg_assigned'[w] = reg_assigned[w]
      BY <3>1, <1>1
    <3>3. reg_assigned[v] # -1
      BY <1>2, <1>1 DEF Registers
    <3> QED
      BY <3>2, <3>3, <1>1 DEF IInv, Colours, ProperColouring
  <2>2. \A v, w : Joined(v, w)' <=> Joined(v, w)
    BY <1>1 DEF Joined, Edges
  <2> QED
    BY <2>1, <2>2, <1>1, <1>3 DEF Colours, ProperColouring
<1> QED
  BY <1>5, <1>6, <1>7, <1>8 DEF IInv

LEMMA NextInv == IInv /\ [Next]_vars => IInv'
<1> SUFFICES ASSUME IInv, [Next]_vars
             PROVE  IInv'
  OBVIOUS
<1>1. CASE UNCHANGED vars
  <2>1. /\ Vertices' = Vertices
        /\ \A v : Neighbours(v)' = Neighbours(v)
        /\ \A v, w : Joined(v, w)' <=> Joined(v, w)
        /\ \A m, v, w : JoinedBefore(m, v, w)' <=> JoinedBefore(m, v, w)
    BY <1>1 DEF vars, Vertices, Neighbours, Joined, JoinedBefore, Edges
  <2>2. TypeOK'
    BY <1>1, <2>1 DEF vars, IInv, TypeOK
  <2>3. Sizes'
    BY <1>1 DEF vars, IInv, Sizes
  <2>4. Lists'
    BY <1>1, <2>1 DEF vars, IInv, Lists, JoinedBefore, Joined, Edges, Neighbours
  <2>5. Colours'
    <3>1. Free(i)' = Free(i)
      BY <1>1 DEF vars, Free, Met, Neighbours
    <3> QED
      BY <1>1, <2>1, <3>1 DEF vars, IInv, Colours, ProperColouring
  <2> QED
    BY <2>2, <2>3, <2>4, <2>5 DEF IInv
<1> QED
  BY <1>1, MeasureStep, AllocateStep, AddLineStep, ClearStep, AssignStep, QuitStep, LonelyStep
  DEF Next

THEOREM Invariance == Spec => []IInv
BY InitInv, NextInv, PTL DEF Spec

\* The state of the allocator has its types: indices, lists and registers are in range.
THEOREM TypeCorrect == Spec => []TypeOK
BY Invariance, PTL DEF IInv

(***************************************************************************)
(* Temporaries that interfere never share a register, and when the         *)
(* allocator has gone through, every vertex has one, for every number of   *)
(* registers and every graph.                                              *)
(***************************************************************************)
THEOREM ColouringCorrect == Spec => []ProperColouring
BY Invariance, PTL DEF IInv, Colours

\* The lists that the second reading leaves are the graph of the file.
THEOREM ListsCorrect == Spec => []ListsHoldGraph
<1>1. IInv => ListsHoldGraph
  BY DEF IInv, Lists, ListsHoldGraph
<1> QED
  BY <1>1, Invariance, PTL

\* No cell outside the array is ever touched.
THEOREM BoundsCorrect == Spec => []IndexInBounds
<1>1. IInv => IndexInBounds
  <2> SUFFICES ASSUME IInv
               PROVE  IndexInBounds
    OBVIOUS
  <2>1. ASSUME pc = "adjacency", line <= Len(file)
        PROVE  {Handled, file[line][2]} \subseteq Vertices
    BY <2>1, HandledIsFirst
  <2>2. ASSUME pc \in {"adjacency", "assign"}, NEW v \in Vertices
        PROVE  Neighbours(v) \subseteq Vertices
    BY <2>2 DEF IInv, Lists
  <2> QED
    BY <2>1, <2>2 DEF IndexInBounds
<1> QED
  BY <1>1, Invariance, PTL

(***************************************************************************)
(* Giving up is justified by the number of vertices within two edges: the  *)
(* registers held there are all the registers, so there are at least as    *)
(* many vertices.                                                          *)
(***************************************************************************)
THEOREM QuitJustified == Spec => []QuitOnlyWhenCrowded
<1>1. IInv => QuitOnlyWhenCrowded
  <2> DEFINE near == {w \in Vertices : \/ Joined(i, w)
                                       \/ \E x \in Vertices : Joined(i, x) /\ Joined(x, w)}
             holders == {w \in Vertices : w \in Met(i) /\ reg_assigned[w] \in Registers}
             held == [w \in holders |-> reg_assigned[w]]
  <2> SUFFICES ASSUME IInv, pc = "quit"
               PROVE  Cardinality(near \ {i}) >= NumRegs
    BY DEF QuitOnlyWhenCrowded
  <2>1. /\ i \in Vertices /\ reg_assigned[i] = -1 /\ Free(i) = {}
        /\ NumRegs \in Nat \ {0} /\ MaxVertex \in Nat /\ max_alloc_num \in Int
        /\ max_alloc_num <= MaxVertex + 1
    BY RegAllocAssumption DEF IInv, Colours, TypeOK, Vertices
  <2>2. holders \subseteq near \ {i}
    <3>1. \A w \in Vertices : w \in Met(i) =>
            Joined(i, w) \/ \E x \in Vertices : Joined(i, x) /\ Joined(x, w)
      BY <2>1 DEF IInv, Lists, Met
    <3>2. \A w \in holders : w # i
      BY <2>1 DEF Registers
    <3> QED
      BY <3>1, <3>2
  <2>3. IsFiniteSet(near \ {i})
    <3>1. near \ {i} \in SUBSET (1 .. MaxVertex)
      BY <2>1 DEF Vertices
    <3>2. IsFiniteSet(1 .. MaxVertex)
      BY <2>1, FS_Interval
    <3> QED
      BY <3>1, <3>2, FS_Subset
  <2>4. IsFiniteSet(holders) /\ Cardinality(holders) <= Cardinality(near \ {i})
    <3> HIDE DEF near, holders
    <3> QED
      BY <2>2, <2>3, FS_Subset
  <2>5. \A r \in Registers : \E w \in holders : reg_assigned[w] = r
    <3>1. \A r \in Registers : \E w \in Met(i) : reg_assigned[w] = r
      BY <2>1 DEF Free
    <3>2. Met(i) \subseteq Vertices
      BY <2>1 DEF IInv, Lists, Met
    <3> QED
      BY <3>1, <3>2
  <2>6. held \in Surjection(holders, Registers)
    BY <2>5 DEF Surjection
  <2>7. Cardinality(Registers) <= Cardinality(holders)
    <3> HIDE DEF holders, held
    <3> QED
      BY <2>4, <2>6, FS_Surjection
  <2>8. Cardinality(Registers) = NumRegs
    <3>1. Cardinality(0 .. NumRegs - 1) = IF 0 > NumRegs - 1 THEN 0 ELSE NumRegs - 1 - 0 + 1
      BY <2>1, FS_Interval
    <3> QED
      BY <3>1, <2>1 DEF Registers
  <2>9. Cardinality(near \ {i}) \in Nat /\ Cardinality(holders) \in Nat
    BY <2>3, <2>4, FS_CardinalityType
  <2> HIDE DEF near, holders
  <2> QED
    BY <2>1, <2>4, <2>7, <2>8, <2>9
<1> QED
  BY <1>1, Invariance, PTL

-----------------------------------------------------------------------------
(***************************************************************************)
(* A vertex that the search has passed and whose list is empty already has *)
(* register 0: the loop that places the lonely vertices changes nothing.   *)
(***************************************************************************)
LonelyHaveZero ==
  pc = "assign" => \A v \in Vertices : adj[v] = <<>> => reg_assigned[v] \in {-1, 0}

LEMMA LonelyInv == Spec => []LonelyHaveZero
<1>1. Init => LonelyHaveZero
  BY DEF Init, Start, LonelyHaveZero
<1>2. IInv /\ IInv' /\ LonelyHaveZero /\ [Next]_vars => LonelyHaveZero'
  <2> SUFFICES ASSUME IInv, IInv', LonelyHaveZero, [Next]_vars, pc' = "assign",
                      NEW v \in Vertices', adj'[v] = <<>>
               PROVE  reg_assigned'[v] \in {-1, 0}
    BY DEF LonelyHaveZero
  <2>1. CASE ClearRegisters
    BY <2>1 DEF ClearRegisters, Vertices
  <2>2. CASE findFreeReg
    <3>1. /\ pc = "assign" /\ i \in Vertices /\ Vertices' = Vertices /\ adj' = adj
          /\ reg_assigned \in [Vertices -> -1 .. NumRegs - 1]
          /\ reg_assigned' = [reg_assigned EXCEPT ![i] = Min(Free(i))]
          /\ NumRegs \in Nat \ {0}
      <4>1. /\ pc = "assign" /\ adj' = adj /\ max_alloc_num' = max_alloc_num
            /\ reg_assigned' = [reg_assigned EXCEPT ![i] = Min(Free(i))]
            /\ i < max_alloc_num
        BY <2>2 DEF findFreeReg
      <4>2. /\ i \in 1 .. MaxVertex + 1 /\ max_alloc_num \in Int
            /\ reg_assigned \in [Vertices -> -1 .. NumRegs - 1]
        BY <4>1 DEF IInv, TypeOK
      <4>3. i \in Vertices /\ Vertices' = Vertices
        BY <4>1, <4>2 DEF Vertices
      <4> QED
        BY <4>1, <4>2, <4>3, RegAllocAssumption
    <3>2. CASE v # i
      BY <3>1, <3>2 DEF LonelyHaveZero
    <3>3. CASE v = i
      <4>1. Neighbours(i) = {}
        BY <3>1, <3>3 DEF Neighbours, Range
      <4>2. Free(i) = Registers
        BY <4>1 DEF Free, Met
      <4>3. Registers \subseteq Nat /\ 0 \in Registers
        BY <3>1 DEF Registers
      <4>4. Min(Free(i)) \in Nat /\ Min(Free(i)) <= 0
        BY <4>2, <4>3, MinIn
      <4>5. reg_assigned'[v] = Min(Free(i))
        BY <3>1, <3>3
      <4> QED
        BY <4>4, <4>5
    <3> QED
      BY <3>2, <3>3
  <2>3. CASE UNCHANGED vars
    BY <2>3 DEF vars, Vertices, LonelyHaveZero
  <2> QED
    BY <2>1, <2>2, <2>3
    DEF Next, MeasureLine, AllocateGraph, AddLine, Quit, PlaceLonely
<1> QED
  BY <1>1, <1>2, Invariance, PTL DEF Spec

\* Both ends of an edge have a cell once the array is there.
LEMMA EndsInBounds ==
  ASSUME IInv, pc # "measure", NEW e \in Edges
  PROVE  e[1] \in Vertices /\ e[2] \in Vertices
<1>1. PICK k \in 1 .. Len(file) : e = <<file[k][1], file[k][2]>>
  BY DEF IInv, TypeOK, Edges
<1>2. file[k] \in (1 .. MaxVertex) \X (1 .. MaxVertex)
  BY DEF IInv, TypeOK
<1>3. file[k][1] < file[k][2] /\ file[k][2] < max_alloc_num /\ max_alloc_num \in Int
  BY DEF IInv, TypeOK, Sizes, Ordered
<1> QED
  BY <1>1, <1>2, <1>3, RegAllocAssumption DEF Vertices

(***************************************************************************)
(* The allocator implements Colouring: colour is reg_assigned where there  *)
(* is one, and every step is the colouring of one vertex, the end, or no   *)
(* step at all of the abstract specification.                              *)
(***************************************************************************)
THEOREM Refinement == Spec => ImplementsColouring
<1>1. Init => Abstract!Init
  BY DEF Init, Start, Abstract!Init, Abstract!Uncoloured, Colour, Outcome
<1>2. IInv /\ IInv' /\ LonelyHaveZero /\ [Next]_vars
        => [Abstract!Next]_<<Edges, Colour, Outcome>>
  <2> SUFFICES ASSUME IInv, IInv', LonelyHaveZero, [Next]_vars
               PROVE  [Abstract!Next]_<<Edges, Colour, Outcome>>
    OBVIOUS
  <2>1. Edges' = Edges
    BY DEF Next, MeasureLine, AllocateGraph, AddLine, ClearRegisters, findFreeReg, Quit,
           PlaceLonely, vars, Edges
  <2>2. CASE MeasureLine \/ AllocateGraph \/ AddLine \/ UNCHANGED vars
    BY <2>1, <2>2 DEF MeasureLine, AllocateGraph, AddLine, vars, Colour, Outcome
  <2>3. CASE ClearRegisters
    <3>1. Outcome' = Outcome
      BY <2>3 DEF ClearRegisters, Outcome
    <3>2. reg_assigned = <<>> /\ reg_assigned' = [v \in Vertices |-> -1]
      BY <2>3 DEF ClearRegisters, IInv, TypeOK
    <3>3. Colour = [v \in 1 .. MaxVertex |-> -1]
      BY <3>2 DEF Colour
    <3>4. Colour' = [v \in 1 .. MaxVertex |-> -1]
      BY <3>2 DEF Colour
    <3> QED
      BY <2>1, <3>1, <3>3, <3>4
  <2>4. CASE findFreeReg
    <3> DEFINE r == Min(Free(i))
    <3>1. /\ pc = "assign" /\ pc' = "assign" /\ i \in Vertices /\ i \in 1 .. MaxVertex
          /\ Vertices \subseteq 1 .. MaxVertex
          /\ reg_assigned \in [Vertices -> -1 .. NumRegs - 1]
          /\ reg_assigned' = [reg_assigned EXCEPT ![i] = r]
          /\ reg_assigned[i] = -1
      BY <2>4, RegAllocAssumption DEF findFreeReg, IInv, TypeOK, Vertices, Colours
    <3>2. r \in 0 .. NumRegs - 1 /\ r \notin {reg_assigned[w] : w \in Met(i)}
      <4>1. Free(i) \subseteq Nat /\ Free(i) # {}
        BY <2>4, RegAllocAssumption DEF Free, Registers, findFreeReg
      <4>2. r \in Free(i)
        BY <4>1, MinIn
      <4> QED
        BY <4>2 DEF Free, Registers
    <3> HIDE DEF r
    <3>3. Outcome = "colouring" /\ Outcome' = "colouring"
      BY <3>1 DEF Outcome
    <3>4. Colour[i] = -1
      BY <3>1 DEF Colour
    <3>5. Colour' = [Colour EXCEPT ![i] = r]
      <4>1. \A v \in 1 .. MaxVertex : Colour'[v] = IF v = i THEN r ELSE Colour[v]
        BY <3>1 DEF Colour
      <4> QED
        BY <4>1 DEF Colour
    <3>6. ASSUME NEW w \in 1 .. MaxVertex, Abstract!Joined(i, w)
          PROVE  Colour[w] # r
      <4>1. Joined(i, w)
        BY <3>6 DEF Abstract!Joined, Joined
      <4>2. w \in Vertices
        BY <4>1, <3>1, EndsInBounds DEF Joined
      <4>3. w \in Met(i)
        BY <4>1, <4>2, <3>1 DEF IInv, Lists, Met
      <4>4. Colour[w] = reg_assigned[w]
        BY <4>2, <3>1 DEF Colour
      <4> QED
        BY <4>3, <4>4, <3>2
    <3>7. Abstract!Assign(i, r)
      BY <2>1, <3>3, <3>4, <3>5, <3>6 DEF Abstract!Assign
    <3> QED
      BY <3>1, <3>2, <3>7 DEF Abstract!Next
  <2>5. CASE Quit
    <3>1. Outcome = "colouring" /\ Outcome' = "gave up" /\ Colour' = Colour
      BY <2>5 DEF Quit, Outcome, Colour
    <3> QED
      BY <2>1, <3>1 DEF Abstract!Next, Abstract!GiveUp
  <2>6. CASE PlaceLonely
    <3>1. /\ pc = "assign" /\ Vertices' = Vertices /\ Vertices \subseteq Nat
          /\ reg_assigned \in [Vertices -> -1 .. NumRegs - 1]
          /\ Vertices \subseteq 1 .. MaxVertex
          /\ \A v \in Vertices : reg_assigned[v] # -1
      <4>1. i >= max_alloc_num /\ i \in Int /\ max_alloc_num \in Int
        BY <2>6 DEF PlaceLonely, IInv, TypeOK
      <4>2. \A v \in Vertices : v \in Int /\ v < i
        BY <4>1 DEF Vertices
      <4>3. \A v \in Vertices : reg_assigned[v] = -1 <=> v >= i
        BY <2>6 DEF PlaceLonely, IInv, Colours
      <4>4. \A v \in Vertices : reg_assigned[v] # -1
        BY <4>1, <4>2, <4>3
      <4> QED
        BY <2>6, <4>4, RegAllocAssumption DEF PlaceLonely, IInv, TypeOK, Vertices
    <3>2. reg_assigned' = reg_assigned
      <4>1. \A v \in Vertices : reg_assigned'[v] = reg_assigned[v]
        BY <2>6, <3>1 DEF PlaceLonely, LonelyHaveZero
      <4>2. reg_assigned' = [v \in Vertices |-> reg_assigned'[v]]
        BY <2>6 DEF PlaceLonely
      <4> QED
        BY <4>1, <4>2, <3>1
    <3>3. Colour' = Colour
      BY <3>2 DEF Colour
    <3>4. Outcome = "colouring" /\ Outcome' = "coloured"
      BY <2>6 DEF PlaceLonely, Outcome
    <3>5. ASSUME NEW e \in Edges
          PROVE  Colour[e[1]] # -1 /\ Colour[e[2]] # -1
      BY <3>1, <3>5, EndsInBounds DEF Colour
    <3> QED
      BY <2>1, <3>3, <3>4, <3>5 DEF Abstract!Next, Abstract!Succeed
  <2> QED
    BY <2>2, <2>3, <2>4, <2>5, <2>6 DEF Next
<1> QED
  BY <1>1, <1>2, Invariance, LonelyInv, PTL DEF Spec, Abstract!Spec, ImplementsColouring

-----------------------------------------------------------------------------
\* The most steps that the two readings, the search and the placing of the lonely vertices take.
LinesLeft == Len(file) + 1 - line

VerticesLeft == MaxVertex + 1 - i

StepsLeft ==
  CASE pc = "measure"   -> LinesLeft + Len(file) + VerticesLeft + 3
    [] pc = "adjacency" -> LinesLeft + VerticesLeft + 2
    [] pc = "assign"    -> VerticesLeft + 1
    [] OTHER            -> 0

LEMMA BothLeft ==
  ASSUME IInv
  PROVE  Len(file) \in Nat /\ LinesLeft \in Nat /\ VerticesLeft \in Nat /\ StepsLeft \in Nat
<1>1. Len(file) \in Nat
  BY LenProperties DEF IInv, TypeOK
<1>2. LinesLeft \in Nat /\ VerticesLeft \in Nat
  BY <1>1, RegAllocAssumption DEF IInv, TypeOK, LinesLeft, VerticesLeft
<1> QED
  BY <1>1, <1>2 DEF StepsLeft

LEMMA EveryStepCounts == IInv /\ Next => StepsLeft' < StepsLeft
<1> SUFFICES ASSUME IInv, Next
             PROVE  StepsLeft' < StepsLeft
  OBVIOUS
<1>1. PICK a, b, c \in Nat : a = LinesLeft /\ b = VerticesLeft /\ c = Len(file)
  BY BothLeft
<1>2. Len(file') = Len(file)
  BY DEF Next, MeasureLine, AllocateGraph, AddLine, ClearRegisters, findFreeReg, Quit, PlaceLonely
<1>3. line \in Int /\ i \in Int /\ MaxVertex \in Int
  BY <1>1, RegAllocAssumption DEF IInv, TypeOK
<1>4. CASE MeasureLine
  <2>1. LinesLeft' = a - 1 /\ VerticesLeft' = b
    BY <1>1, <1>2, <1>3, <1>4 DEF MeasureLine, LinesLeft, VerticesLeft
  <2> QED
    BY <1>1, <1>2, <1>4, <2>1 DEF MeasureLine, StepsLeft
<1>5. CASE AllocateGraph
  <2>1. LinesLeft' = c /\ VerticesLeft' = b
    BY <1>1, <1>2, <1>3, <1>5 DEF AllocateGraph, LinesLeft, VerticesLeft
  <2> QED
    BY <1>1, <1>2, <1>5, <2>1 DEF AllocateGraph, StepsLeft
<1>6. CASE AddLine
  <2>1. LinesLeft' = a - 1 /\ VerticesLeft' = b
    BY <1>1, <1>2, <1>3, <1>6 DEF AddLine, LinesLeft, VerticesLeft
  <2> QED
    BY <1>1, <1>6, <2>1 DEF AddLine, StepsLeft
<1>7. CASE ClearRegisters
  <2>1. LinesLeft' = a /\ VerticesLeft' = b
    BY <1>1, <1>2, <1>7 DEF ClearRegisters, LinesLeft, VerticesLeft
  <2> QED
    BY <1>1, <1>7, <2>1 DEF ClearRegisters, StepsLeft
<1>8. CASE findFreeReg
  <2>1. VerticesLeft' = b - 1
    BY <1>1, <1>3, <1>8 DEF findFreeReg, VerticesLeft
  <2> QED
    BY <1>1, <1>8, <2>1 DEF findFreeReg, StepsLeft
<1>9. CASE Quit \/ PlaceLonely
  BY <1>1, <1>9 DEF Quit, PlaceLonely, StepsLeft
<1> QED
  BY <1>4, <1>5, <1>6, <1>7, <1>8, <1>9 DEF Next

(***************************************************************************)
(* The allocator ends: every step makes a number smaller that is twice the *)
(* length of the file and the largest vertex to begin with. A vertex that  *)
(* is given a register, and a line that is filed, are not come to again.   *)
(***************************************************************************)
THEOREM AllocationEnds ==
  Spec => /\ StepsLeft = 2 * Len(file) + MaxVertex + 3
          /\ [](StepsLeft \in Nat)
          /\ [][StepsLeft' < StepsLeft]_vars
<1>1. Init => StepsLeft = 2 * Len(file) + MaxVertex + 3
  <2> SUFFICES ASSUME Init
               PROVE  StepsLeft = 2 * Len(file) + MaxVertex + 3
    OBVIOUS
  <2>1. Len(file) \in Nat
    BY InitInv, BothLeft
  <2>2. pc = "measure" /\ line = 1 /\ i = 1
    BY DEF Init, Start
  <2> QED
    BY <2>1, <2>2, RegAllocAssumption DEF StepsLeft, LinesLeft, VerticesLeft
<1>2. IInv => StepsLeft \in Nat
  BY BothLeft
<1> QED
  BY <1>1, <1>2, EveryStepCounts, Invariance, PTL DEF Spec
=============================================================================
