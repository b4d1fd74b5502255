--------------------------- MODULE Rewrite_proofs ---------------------------
(***************************************************************************)
(* Proofs about Rewrite, for every program and every array graph[]: what   *)
(* the two textual passes make of a line.                                  *)
(***************************************************************************)
EXTENDS Rewrite, Extrema, FiniteSetTheorems, SequenceTheorems, TLAPS

\* Programs with operands of the grammar, and arrays that the allocator has gone through.
RewriteAssumption == Sources \subseteq Seq(Seq(Operands)) /\ Cells \subseteq Seq(0 .. 7)

-----------------------------------------------------------------------------
(***************************************************************************)
(* The two passes over one line.  The first one takes the temporaries one  *)
(* after the other and rewrites the line as the ones before have left it:  *)
(* since no register is the name of a temporary, it does what rewriting    *)
(* them all at once would do.                                              *)
(***************************************************************************)
Substituted(operand) == IF IsTempOperand(operand) THEN Allocated(operand) ELSE operand

LEMMA AllocatedType ==
  ASSUME graph \in Seq(0 .. 7), cell0 \in Garbage, NEW operand \in Operands, IsTempOperand(operand)
  PROVE  /\ Allocated(operand) \in Operands
         /\ IF operand[2] >= max_alloc_num THEN Allocated(operand) = operand
            ELSE ~IsTempOperand(Allocated(operand))
         /\ operand[2] \in 1 .. max_alloc_num - 1 => Allocated(operand) = Reg(graph[operand[2]])
<1>1. operand[2] \in Nat /\ max_alloc_num \in Nat
  BY LenProperties DEF Operands, max_alloc_num
<1>2. CASE operand[2] >= max_alloc_num
  <2>1. Allocated(operand) = operand
    BY <1>1, <1>2 DEF Allocated, Cell
  <2> QED
    BY <1>1, <1>2, <2>1
<1>3. CASE operand[2] < max_alloc_num /\ operand[2] = 0
  <2>1. Allocated(operand) = Reg(cell0) /\ cell0 \in Nat
    BY <1>1, <1>3 DEF Allocated, Cell, Garbage, Junk
  <2> QED
    BY <1>1, <1>3, <2>1 DEF Reg, Operands, IsTempOperand
<1>4. CASE operand[2] < max_alloc_num /\ operand[2] # 0
  <2>1. operand[2] \in 1 .. Len(graph) /\ Len(graph) \in Nat
    BY <1>1, <1>4, LenProperties DEF max_alloc_num
  <2>2. graph[operand[2]] \in 0 .. 7
    BY <2>1, ElementOfSeq
  <2>3. Allocated(operand) = Reg(graph[operand[2]]) /\ graph[operand[2]] \in Nat
    BY <1>1, <1>4, <2>2 DEF Allocated, Cell
  <2> QED
    BY <1>1, <1>4, <2>3 DEF Reg, Operands, IsTempOperand
<1> QED
  BY <1>1, <1>2, <1>3, <1>4

LEMMA PassOne ==
  ASSUME graph \in Seq(0 .. 7), cell0 \in Garbage, NEW text \in Seq(Operands)
  PROVE  /\ ReplaceEach(text) \in Seq(Operands)
         /\ ReplaceEach(text) = [q \in DOMAIN text |-> Substituted(text[q])]
<1> DEFINE N == Len(text)
           T == [1 .. N -> Operands]
           temps == get_tmp_info(text)
           round(p, x) == IF p \in temps THEN replaceAllString(x, text[p], Allocated(text[p])) ELSE x
           F == [p \in 1 .. N |-> [x \in T |-> round(p, x)]]
<1>1. N \in Nat /\ DOMAIN text = 1 .. N /\ text \in T /\ \A q \in 1 .. N : text[q] \in Operands
  BY LenProperties, ElementOfSeq
<1>2. temps = {p \in 1 .. N : IsTempOperand(text[p])}
  BY <1>1 DEF get_tmp_info, TempPlaces
<1>3. ASSUME NEW p \in 1 .. N, NEW x \in T
      PROVE  round(p, x) \in T
  <2>1. CASE p \in temps
    <3>1. Allocated(text[p]) \in Operands
      BY <1>1, <1>2, <2>1, AllocatedType
    <3>2. DOMAIN x = 1 .. N
      OBVIOUS
    <3>3. round(p, x) = [q \in 1 .. N |-> IF x[q] = text[p] THEN Allocated(text[p]) ELSE x[q]]
      BY <2>1, <3>2 DEF replaceAllString
    <3> QED
      BY <3>1, <3>3
  <2>2. CASE p \notin temps
    BY <2>2
  <2> QED
    BY <2>1, <2>2
<1>4. F \in [1 .. N -> [T -> T]]
  <2> HIDE DEF round, T, N
  <2> QED
    BY <1>3
<1>5. PICK f \in [0 .. N -> T] : f[0] = text /\ \A p \in 1 .. N : f[p] = F[p][f[p - 1]]
  <2>1. N \in Nat /\ text \in T
    BY <1>1
  <2> HIDE DEF F, T, N
  <2>2. LoopValues(N, T, text, F) # {}
    BY <2>1, <1>4, LoopHasValues
  <2> QED
    BY <2>2 DEF LoopValues
<1>6. \A p \in 1 .. N : f[p] = round(p, f[p - 1])
  <2> HIDE DEF round
  <2> SUFFICES ASSUME NEW p \in 1 .. N
               PROVE  f[p] = round(p, f[p - 1])
    OBVIOUS
  <2>1. p - 1 \in 0 .. N
    BY <1>1
  <2>2. f[p - 1] \in T
    BY <1>5, <2>1
  <2> HIDE DEF T, N
  <2> QED
    BY <1>5, <2>2
<1> DEFINE Step(g) == [p \in 0 .. N |-> IF p = 0 THEN text ELSE round(p, g[p - 1])]
<1>7. f = Step(f)
  <2> HIDE DEF round, T
  <2>1. \A p \in 0 .. N : p # 0 => p \in 1 .. N
    BY <1>1
  <2> QED
    BY <1>5, <1>6, <2>1
<1>8. PICK g : g = Step(g) /\ ReplaceEach(text) = g[N]
  <2>1. ReplaceEach(text) = (CHOOSE g : g = Step(g))[N]
    BY DEF ReplaceEach
  <2> HIDE DEF Step
  <2> QED
    BY <1>7, <2>1
<1>9. g[0] = text /\ \A p \in 1 .. N : g[p] = round(p, g[p - 1])
  <2> HIDE DEF round, T
  <2>1. \A p \in 0 .. N : g[p] = IF p = 0 THEN text ELSE round(p, g[p - 1])
    BY <1>8
  <2>2. 0 \in 0 .. N /\ \A p \in 1 .. N : p \in 0 .. N /\ p # 0
    BY <1>1
  <2> HIDE DEF Step
  <2> QED
    BY <2>1, <2>2
\* Behind round p the temporaries that stand at one of the first p places are replaced.
<1> DEFINE seen(p, q) == \E r \in 1 .. p : text[r] = text[q]
           Upto(p) == [q \in 1 .. N |-> IF seen(p, q) THEN Substituted(text[q]) ELSE text[q]]
           S == {p \in Nat : p <= N => g[p] = Upto(p)}
<1>10. \A q \in 1 .. N :
         /\ Substituted(text[q]) \in Operands
         /\ IsTempOperand(text[q]) /\ IsTempOperand(Substituted(text[q]))
              => Substituted(text[q]) = text[q]
         /\ ~IsTempOperand(text[q]) => Substituted(text[q]) = text[q]
         /\ IsTempOperand(text[q]) => Allocated(text[q]) = Substituted(text[q])
  BY <1>1, AllocatedType DEF Substituted
<1>11. 0 \in S
  <2>1. text = [q \in 1 .. N |-> text[q]]
    BY <1>1
  <2>2. \A q : ~seen(0, q)
    OBVIOUS
  <2>3. Upto(0) = [q \in 1 .. N |-> text[q]]
    BY <2>2
  <2> HIDE DEF Upto
  <2> QED
    BY <1>9, <2>1, <2>3
<1>12. ASSUME NEW p \in Nat, p \in S
       PROVE  p + 1 \in S
  <2> SUFFICES ASSUME p + 1 <= N
               PROVE  g[p + 1] = Upto(p + 1)
    OBVIOUS
  <2> DEFINE k == p + 1
  <2>1. k \in 1 .. N /\ k - 1 = p /\ g[p] = Upto(p)
    BY <1>1, <1>12
  <2>2. g[k] = round(k, Upto(p))
    <3> HIDE DEF round, Upto, k
    <3> QED
      BY <1>9, <2>1
  <2>3. \A q \in 1 .. N : seen(k, q) <=> seen(p, q) \/ text[q] = text[k]
    <3>1. \A r : r \in 1 .. k <=> r \in 1 .. p \/ r = k
      BY <2>1
    <3> HIDE DEF k
    <3> QED
      BY <3>1
  <2> HIDE DEF k, seen
  <2>4. CASE k \notin temps
    <3>1. Substituted(text[k]) = text[k]
      BY <1>2, <1>10, <2>1, <2>4
    <3>2. Upto(k) = Upto(p)
      BY <2>3, <3>1
    <3>3. g[k] = Upto(p)
      BY <2>2, <2>4
    <3> HIDE DEF Upto
    <3> QED
      BY <3>2, <3>3 DEF k
  <2>5. CASE k \in temps
    <3> DEFINE x == Upto(p)
    <3>1. x = [q \in 1 .. N |-> IF seen(p, q) THEN Substituted(text[q]) ELSE text[q]]
      OBVIOUS
    <3>2. g[k] = [q \in DOMAIN x |-> IF x[q] = text[k] THEN Allocated(text[k]) ELSE x[q]]
      BY <2>2, <2>5 DEF replaceAllString
    <3>3. DOMAIN x = 1 .. N
      OBVIOUS
    <3>4. IsTempOperand(text[k]) /\ Allocated(text[k]) = Substituted(text[k])
      <4>1. IsTempOperand(text[k])
        BY <1>2, <2>5
      <4> HIDE DEF N
      <4> QED
        BY <1>10, <2>1, <4>1
    <3>5. ASSUME NEW q \in 1 .. N
          PROVE  (IF x[q] = text[k] THEN Allocated(text[k]) ELSE x[q])
                   = (IF seen(k, q) THEN Substituted(text[q]) ELSE text[q])
      <4>1. x[q] = IF seen(p, q) THEN Substituted(text[q]) ELSE text[q]
        OBVIOUS
      <4> HIDE DEF x, N
      <4>2. CASE ~IsTempOperand(text[q])
        BY <4>1, <4>2, <1>10, <3>4, <2>1, <2>3 DEF IsTempOperand
      <4>3. CASE IsTempOperand(text[q]) /\ seen(p, q)
        BY <4>1, <4>3, <1>10, <3>4, <2>1, <2>3 DEF IsTempOperand
      <4>4. CASE IsTempOperand(text[q]) /\ ~seen(p, q)
        BY <4>1, <4>4, <1>10, <3>4, <2>1, <2>3 DEF IsTempOperand
      <4> QED
        BY <4>2, <4>3, <4>4
    <3>6. g[k] = Upto(k)
      <4> HIDE DEF x
      <4> QED
        BY <3>2, <3>3, <3>5
    <3> QED
      BY <3>6 DEF k
  <2> QED
    BY <2>4, <2>5
<1>13. N \in S
  <2> HIDE DEF S, N
  <2> QED
    BY <1>1, <1>11, <1>12, Induction
<1>14. \A q \in 1 .. N : seen(N, q)
  OBVIOUS
<1>15. Upto(N) = [q \in DOMAIN text |-> Substituted(text[q])]
  <2> HIDE DEF seen
  <2> QED
    BY <1>1, <1>14
<1>16. ReplaceEach(text) = [q \in DOMAIN text |-> Substituted(text[q])]
  <2>1. g[N] = Upto(N)
    <3>1. N \in Nat /\ N <= N
      BY <1>1
    <3> HIDE DEF N, Upto
    <3> QED
      BY <1>13, <3>1
  <2> HIDE DEF Upto, Step
  <2> QED
    BY <1>8, <1>15, <2>1
<1>17. ReplaceEach(text) \in [1 .. N -> Operands]
  <2>1. ReplaceEach(text) = [q \in 1 .. N |-> Substituted(text[q])]
    BY <1>1, <1>16
  <2> HIDE DEF N
  <2> QED
    BY <1>10, <2>1
<1>18. ReplaceEach(text) \in Seq(Operands)
  <2> HIDE DEF N
  <2> QED
    BY <1>1, <1>17, SeqDef
<1> QED
  BY <1>16, <1>18

\* The second pass leaves a line as it is or replaces one of the temporaries it still has.
OneReplaced(before, after) ==
  \/ get_tmp_info(before) = {} /\ after = before
  \/ \E q \in get_tmp_info(before) : after = replaceAllString(before, before[q], Reg(9))

LEMMA PassTwo ==
  ASSUME NEW text \in Seq(Operands)
  PROVE  ReplaceFirst(text) \in Seq(Operands) /\ OneReplaced(text, ReplaceFirst(text))
<1> DEFINE temps == get_tmp_info(text)
<1>1. /\ Len(text) \in Nat /\ DOMAIN text = 1 .. Len(text) /\ text \in [1 .. Len(text) -> Operands]
      /\ temps \subseteq 1 .. Len(text)
  BY LenProperties, ElementOfSeq DEF get_tmp_info, TempPlaces
<1>2. CASE temps = {}
  BY <1>2 DEF ReplaceFirst, OneReplaced
<1>3. CASE temps # {}
  <2>1. Min(temps) \in temps
    <3>1. temps \subseteq Nat
      BY <1>1
    <3> HIDE DEF temps
    <3> QED
      BY <1>3, <3>1, MinIn
  <2>2. ReplaceFirst(text) = replaceAllString(text, text[Min(temps)], Reg(9))
    BY <1>3 DEF ReplaceFirst
  <2> HIDE DEF temps
  <2>3. ReplaceFirst(text) = [p \in 1 .. Len(text) |-> IF text[p] = text[Min(temps)] THEN Reg(9) ELSE text[p]]
    BY <1>1, <2>2 DEF replaceAllString
  <2>4. Reg(9) \in Operands
    BY DEF Reg, Operands
  <2>5. ReplaceFirst(text) \in [1 .. Len(text) -> Operands]
    BY <1>1, <2>3, <2>4
  <2>6. ReplaceFirst(text) \in Seq(Operands)
    BY <1>1, <2>5, SeqDef
  <2> QED
    BY <2>1, <2>2, <2>6 DEF OneReplaced, temps
<1> QED
  BY <1>2, <1>3

-----------------------------------------------------------------------------
(***************************************************************************)
(* The inductive invariant.  Copied: each file has, line for line, what    *)
(* its pass made of the file before it, and a pass begins when the one     *)
(* before it has come to the end.                                          *)
(***************************************************************************)
Copied ==
  /\ \A l \in 1 .. Len(temp_txt) :
       /\ DOMAIN temp_txt[l] = DOMAIN source[l]
       /\ \A q \in DOMAIN source[l] : temp_txt[l][q] = Substituted(source[l][q])
  /\ \A l \in 1 .. Len(final) : OneReplaced(temp_txt[l], final[l])
  /\ pc = "registers" => final = <<>>
  /\ pc # "registers" => Len(temp_txt) = Len(source)
  /\ pc = "written" => Len(final) = Len(temp_txt)

RInv == TypeOK /\ Copied

LEMMA StartRInv ==
  ASSUME NEW src \in Seq(Seq(Operands)), NEW cells \in Seq(0 .. 7), cell0 \in Garbage, Start(src, cells)
  PROVE  RInv
<1>1. temp_txt = <<>> /\ final = <<>> /\ Len(<<>>) = 0 /\ <<>> \in Seq(Seq(Operands))
  BY EmptySeq DEF Start
<1>2. Len(source) \in Nat
  BY LenProperties DEF Start
<1> QED
  BY <1>1, <1>2 DEF Start, RInv, TypeOK, Copied

LEMMA WriteRegistersStep == RInv /\ WriteRegisters => RInv'
<1> SUFFICES ASSUME RInv, WriteRegisters
             PROVE  RInv'
  OBVIOUS
<1> DEFINE n == Len(temp_txt)
           text == source[n + 1]
<1>1. /\ UNCHANGED <<source, graph, cell0, pc, final>> /\ pc = "registers" /\ final = <<>>
      /\ n \in Nat /\ Len(source) \in Nat /\ n < Len(source)
      /\ temp_txt \in Seq(Seq(Operands)) /\ graph \in Seq(0 .. 7) /\ cell0 \in Garbage
      /\ text \in Seq(Operands)
  BY LenProperties, ElementOfSeq DEF RInv, TypeOK, Copied, WriteRegisters
<1>2. /\ ReplaceEach(text) \in Seq(Operands)
      /\ ReplaceEach(text) = [q \in DOMAIN text |-> Substituted(text[q])]
  <2> HIDE DEF text
  <2> QED
    BY <1>1, PassOne
<1>3. /\ temp_txt' \in Seq(Seq(Operands)) /\ Len(temp_txt') = n + 1
      /\ \A l \in 1 .. n : temp_txt'[l] = temp_txt[l]
      /\ temp_txt'[n + 1] = ReplaceEach(text)
  <2>1. temp_txt' = Append(temp_txt, ReplaceEach(text))
    BY DEF WriteRegisters
  <2> HIDE DEF text
  <2> QED
    BY <1>1, <1>2, <2>1, AppendProperties
<1>4. TypeOK'
  <2>1. Len(final) = 0
    BY <1>1
  <2> HIDE DEF n
  <2> QED
    BY <1>1, <1>3, <2>1 DEF RInv, TypeOK
<1>5. ASSUME NEW l \in 1 .. Len(temp_txt')
      PROVE  /\ DOMAIN temp_txt'[l] = DOMAIN source[l]
             /\ \A q \in DOMAIN source[l] : temp_txt'[l][q] = Substituted(source[l][q])
  <2>1. CASE l \in 1 .. n
    BY <1>3, <2>1 DEF RInv, Copied
  <2>2. CASE l = n + 1
    BY <1>2, <1>3, <2>2
  <2>3. l \in 1 .. n \/ l = n + 1
    <3> HIDE DEF n
    <3> QED
      BY <1>1, <1>3
  <2> QED
    BY <2>1, <2>2, <2>3
<1>6. Copied'
  <2>1. Len(final') = 0
    BY <1>1
  <2>2. \A l \in 1 .. Len(temp_txt') :
          /\ DOMAIN temp_txt'[l] = DOMAIN source'[l]
          /\ \A q \in DOMAIN source'[l] : temp_txt'[l][q] = Substituted(source[l][q])'
    BY <1>1, <1>5 DEF Substituted, Allocated, Cell, max_alloc_num
  <2> QED
    BY <1>1, <2>1, <2>2 DEF Copied
<1> QED
  BY <1>4, <1>6 DEF RInv

LEMMA WriteLonelyStep == RInv /\ WriteLonely => RInv'
<1> SUFFICES ASSUME RInv, WriteLonely
             PROVE  RInv'
  OBVIOUS
<1> DEFINE n == Len(final)
           text == temp_txt[n + 1]
<1>1. /\ UNCHANGED <<source, graph, cell0, pc, temp_txt>> /\ pc = "lonely"
      /\ n \in Nat /\ Len(temp_txt) \in Nat /\ n < Len(temp_txt)
      /\ final \in Seq(Seq(Operands))
      /\ text \in Seq(Operands)
  BY LenProperties, ElementOfSeq DEF RInv, TypeOK, WriteLonely
<1>2. ReplaceFirst(text) \in Seq(Operands) /\ OneReplaced(text, ReplaceFirst(text))
  <2> HIDE DEF text
  <2> QED
    BY <1>1, PassTwo
<1>3. /\ final' \in Seq(Seq(Operands)) /\ Len(final') = n + 1
      /\ \A l \in 1 .. n : final'[l] = final[l]
      /\ final'[n + 1] = ReplaceFirst(text)
  <2>1. final' = Append(final, ReplaceFirst(text))
    BY DEF WriteLonely
  <2> HIDE DEF text
  <2> QED
    BY <1>1, <1>2, <2>1, AppendProperties
<1>4. TypeOK'
  <2> HIDE DEF n
  <2> QED
    BY <1>1, <1>3 DEF RInv, TypeOK
<1>5. ASSUME NEW l \in 1 .. Len(final')
      PROVE  OneReplaced(temp_txt[l], final'[l])
  <2>1. CASE l \in 1 .. n
    BY <1>3, <2>1 DEF RInv, Copied
  <2>2. CASE l = n + 1
    BY <1>2, <1>3, <2>2
  <2>3. l \in 1 .. n \/ l = n + 1
    <3> HIDE DEF n
    <3> QED
      BY <1>1, <1>3
  <2> QED
    BY <2>1, <2>2, <2>3
<1>6. Copied'
  <2>1. \A l \in 1 .. Len(temp_txt') :
          /\ DOMAIN temp_txt'[l] = DOMAIN source'[l]
          /\ \A q \in DOMAIN source'[l] : temp_txt'[l][q] = Substituted(source[l][q])'
    BY <1>1 DEF RInv, Copied, Substituted, Allocated, Cell, max_alloc_num
  <2>2. \A l \in 1 .. Len(final') : OneReplaced(temp_txt'[l], final'[l])
    BY <1>1, <1>5
  <2>3. Len(temp_txt') = Len(source')
    BY <1>1 DEF RInv, Copied
  <2> QED
    BY <1>1, <2>1, <2>2, <2>3 DEF Copied
<1> QED
  BY <1>4, <1>6 DEF RInv

LEMMA NextRInv == RInv /\ [Next]_vars => RInv'
<1>1. ASSUME RInv, UNCHANGED <<source, graph, cell0, temp_txt, final>>,
             \/ pc' = pc
             \/ pc = "registers" /\ pc' = "lonely" /\ Len(temp_txt) = Len(source)
             \/ pc = "lonely" /\ pc' = "written" /\ Len(final) = Len(temp_txt)
      PROVE  RInv'
  <2>1. TypeOK'
    BY <1>1 DEF RInv, TypeOK
  <2>2. \A l \in 1 .. Len(temp_txt') :
          /\ DOMAIN temp_txt'[l] = DOMAIN source'[l]
          /\ \A q \in DOMAIN source'[l] : temp_txt'[l][q] = Substituted(source[l][q])'
    BY <1>1 DEF RInv, Copied, Substituted, Allocated, Cell, max_alloc_num
  <2>3. \A l \in 1 .. Len(final') : OneReplaced(temp_txt'[l], final'[l])
    BY <1>1 DEF RInv, Copied
  <2>4. /\ pc' = "registers" => final' = <<>>
        /\ pc' # "registers" => Len(temp_txt') = Len(source')
        /\ pc' = "written" => Len(final') = Len(temp_txt')
    BY <1>1 DEF RInv, Copied
  <2> QED
    BY <2>1, <2>2, <2>3, <2>4 DEF RInv, Copied
<1>2. RInv /\ Rewind => RInv'
  BY <1>1 DEF Rewind
<1>3. RInv /\ Close => RInv'
  BY <1>1 DEF Close
<1>4. RInv /\ UNCHANGED vars => RInv'
  BY <1>1 DEF vars
<1> QED
  BY <1>2, <1>3, <1>4, WriteRegistersStep, WriteLonelyStep DEF Next

-----------------------------------------------------------------------------
(***************************************************************************)
(* What the invariant says of an operand of the final text: the second     *)
(* pass leaves a register alone, and of a temporary without a cell it      *)
(* makes $t9 or nothing.                                                   *)
(***************************************************************************)
LEMMA OperandWritten ==
  ASSUME RInv, NEW l \in 1 .. Len(final), NEW p \in DOMAIN source[l]
  PROVE  /\ l \in 1 .. Len(source) /\ l \in 1 .. Len(temp_txt)
         /\ source[l] \in Seq(Operands) /\ source[l][p] \in Operands
         /\ DOMAIN temp_txt[l] = DOMAIN source[l] /\ DOMAIN final[l] = DOMAIN source[l]
         /\ temp_txt[l][p] = Substituted(source[l][p])
         /\ final[l][p] \in {temp_txt[l][p], Reg(9)}
         /\ ~IsTempOperand(temp_txt[l][p]) => final[l][p] = temp_txt[l][p]
<1>1. l \in 1 .. Len(source) /\ l \in 1 .. Len(temp_txt)
  BY LenProperties DEF RInv, TypeOK
<1>2. source[l] \in Seq(Operands) /\ source[l][p] \in Operands
  <2>1. source[l] \in Seq(Operands)
    BY <1>1, ElementOfSeq DEF RInv, TypeOK
  <2>2. DOMAIN source[l] = 1 .. Len(source[l])
    BY <2>1, LenProperties
  <2> QED
    BY <2>1, <2>2, ElementOfSeq
<1>3. /\ DOMAIN temp_txt[l] = DOMAIN source[l]
      /\ temp_txt[l][p] = Substituted(source[l][p])
  BY <1>1 DEF RInv, Copied
<1>4. OneReplaced(temp_txt[l], final[l])
  BY DEF RInv, Copied
<1>5. CASE final[l] = temp_txt[l]
  BY <1>1, <1>2, <1>3, <1>5
<1>6. ASSUME NEW q \in get_tmp_info(temp_txt[l]),
             final[l] = replaceAllString(temp_txt[l], temp_txt[l][q], Reg(9))
      PROVE  /\ DOMAIN final[l] = DOMAIN temp_txt[l]
             /\ final[l][p] \in {temp_txt[l][p], Reg(9)}
             /\ ~IsTempOperand(temp_txt[l][p]) => final[l][p] = temp_txt[l][p]
  <2>1. IsTempOperand(temp_txt[l][q])
    BY DEF get_tmp_info, TempPlaces
  <2>2. /\ DOMAIN final[l] = DOMAIN temp_txt[l]
        /\ final[l][p] = IF temp_txt[l][p] = temp_txt[l][q] THEN Reg(9) ELSE temp_txt[l][p]
    BY <1>3, <1>6 DEF replaceAllString
  <2>3. temp_txt[l][p] = temp_txt[l][q] => IsTempOperand(temp_txt[l][p])
    BY <2>1
  <2> QED
    BY <2>2, <2>3
<1> QED
  BY <1>1, <1>2, <1>3, <1>4, <1>5, <1>6 DEF OneReplaced

LEMMA SubstitutesFromRInv == RInv => SubstitutesEach
<1> SUFFICES ASSUME RInv, NEW l \in 1 .. Len(final), NEW p \in DOMAIN source[l]
             PROVE  IF IsTempOperand(source[l][p]) /\ source[l][p][2] \in 1 .. max_alloc_num - 1
                      THEN final[l][p] = Reg(graph[source[l][p][2]])
                      ELSE IsTempOperand(source[l][p]) \/ final[l][p] = source[l][p]
  BY DEF SubstitutesEach
<1>1. /\ source[l][p] \in Operands
      /\ temp_txt[l][p] = Substituted(source[l][p])
      /\ ~IsTempOperand(temp_txt[l][p]) => final[l][p] = temp_txt[l][p]
  BY OperandWritten
<1>2. CASE IsTempOperand(source[l][p]) /\ source[l][p][2] \in 1 .. max_alloc_num - 1
  <2>1. Substituted(source[l][p]) = Reg(graph[source[l][p][2]])
    BY <1>1, <1>2, AllocatedType DEF Substituted, RInv, TypeOK
  <2>2. ~IsTempOperand(Reg(graph[source[l][p][2]]))
    BY DEF Reg, IsTempOperand
  <2> QED
    BY <1>1, <1>2, <2>1, <2>2
<1>3. CASE ~IsTempOperand(source[l][p])
  BY <1>1, <1>3 DEF Substituted
<1> QED
  BY <1>2, <1>3

\* A temporary that is alone on its line, but for others that have cells, gets $t9.
LEMMA LonelyWritten ==
  ASSUME RInv, NEW l \in 1 .. Len(final), NEW p \in DOMAIN source[l],
         IsTempOperand(source[l][p]), source[l][p][2] >= max_alloc_num,
         \A q \in DOMAIN source[l] :
           IsTempOperand(source[l][q]) /\ source[l][q][2] >= max_alloc_num => source[l][q] = source[l][p]
  PROVE  final[l][p] = Reg(9)
<1>1. \A q \in DOMAIN source[l] :
        /\ source[l][q] \in Operands
        /\ DOMAIN temp_txt[l] = DOMAIN source[l]
        /\ temp_txt[l][q] = Substituted(source[l][q])
  BY OperandWritten
<1>2. temp_txt[l][p] = source[l][p]
  BY <1>1, AllocatedType DEF Substituted, RInv, TypeOK
<1>3. ASSUME NEW q \in get_tmp_info(temp_txt[l])
      PROVE  temp_txt[l][q] = source[l][p]
  <2>1. q \in DOMAIN source[l] /\ IsTempOperand(temp_txt[l][q])
    BY <1>1 DEF get_tmp_info, TempPlaces
  <2>2. IsTempOperand(source[l][q])
    BY <1>1, <2>1 DEF Substituted
  <2>3. source[l][q][2] >= max_alloc_num /\ temp_txt[l][q] = source[l][q]
    <3>1. temp_txt[l][q] = Allocated(source[l][q])
      BY <1>1, <2>1, <2>2 DEF Substituted
    <3>2. IF source[l][q][2] >= max_alloc_num THEN Allocated(source[l][q]) = source[l][q]
          ELSE ~IsTempOperand(Allocated(source[l][q]))
      BY <1>1, <2>1, <2>2, AllocatedType DEF RInv, TypeOK
    <3> QED
      BY <2>1, <3>1, <3>2
  <2> QED
    BY <2>1, <2>2, <2>3
<1>4. p \in get_tmp_info(temp_txt[l])
  BY <1>1, <1>2 DEF get_tmp_info, TempPlaces
<1>5. PICK q \in get_tmp_info(temp_txt[l]) :
        final[l] = replaceAllString(temp_txt[l], temp_txt[l][q], Reg(9))
  BY <1>4 DEF RInv, Copied, OneReplaced
<1>6. temp_txt[l][q] = temp_txt[l][p]
  BY <1>2, <1>3
<1> QED
  BY <1>1, <1>5, <1>6 DEF replaceAllString

\* A set with at most one element has no two.
LEMMA AtMostOne ==
  ASSUME NEW S, IsFiniteSet(S), Cardinality(S) <= 1, NEW a \in S, NEW b \in S
  PROVE  a = b
<1>1. Cardinality(S) \in Nat /\ Cardinality(S) # 0
  BY FS_CardinalityType, FS_EmptySet
<1>2. Cardinality(S) = 1
  BY <1>1
<1> QED
  BY <1>2, FS_Singleton

LEMMA SingleFromRInv == RInv => SingleLonelyReplaced
<1> SUFFICES ASSUME RInv, NEW l \in 1 .. Len(final), Cardinality(LonelyOf(source[l])) <= 1,
                    NEW p \in get_tmp_info(final[l])
             PROVE  FALSE
  BY DEF SingleLonelyReplaced
<1>0. l \in 1 .. Len(source) /\ l \in 1 .. Len(temp_txt)
  BY LenProperties DEF RInv, TypeOK
<1>1. p \in DOMAIN source[l] /\ IsTempOperand(final[l][p])
  <2>1. p \in DOMAIN final[l] /\ IsTempOperand(final[l][p])
    BY DEF get_tmp_info, TempPlaces
  <2>2. DOMAIN final[l] = DOMAIN temp_txt[l]
    BY DEF RInv, Copied, OneReplaced, replaceAllString
  <2> QED
    BY <1>0, <2>1, <2>2 DEF RInv, Copied
<1>2. /\ source[l] \in Seq(Operands) /\ source[l][p] \in Operands
      /\ temp_txt[l][p] = Substituted(source[l][p])
      /\ final[l][p] \in {temp_txt[l][p], Reg(9)}
  BY <1>1, OperandWritten
<1>3. ~IsTempOperand(Reg(9))
  BY DEF Reg, IsTempOperand
<1>4. IsTempOperand(Substituted(source[l][p]))
  BY <1>1, <1>2, <1>3
<1>5. IsTempOperand(source[l][p]) /\ source[l][p][2] >= max_alloc_num
  BY <1>2, <1>4, AllocatedType DEF Substituted, RInv, TypeOK
<1>6. ASSUME NEW q \in DOMAIN source[l], IsTempOperand(source[l][q]), source[l][q][2] >= max_alloc_num
      PROVE  source[l][q] = source[l][p]
  <2>1. {source[l][q], source[l][p]} \subseteq LonelyOf(source[l])
    BY <1>1, <1>5, <1>6 DEF LonelyOf, Range
  <2>2. IsFiniteSet(LonelyOf(source[l]))
    <3>1. IsFiniteSet(DOMAIN source[l])
      BY <1>2, LenProperties, FS_Interval
    <3>2. source[l] \in Surjection(DOMAIN source[l], Range(source[l]))
      <4>1. source[l] \in [DOMAIN source[l] -> Range(source[l])]
        <5>1. source[l] = [x \in DOMAIN source[l] |-> source[l][x]]
          BY <1>2, LenProperties
        <5> QED
          BY <5>1 DEF Range
      <4> QED
        BY <4>1 DEF Surjection, Range
    <3>3. IsFiniteSet(Range(source[l]))
      BY <3>1, <3>2, FS_Surjection
    <3>4. LonelyOf(source[l]) \in SUBSET Range(source[l])
      BY DEF LonelyOf
    <3> QED
      BY <3>3, <3>4, FS_Subset
  <2> QED
    BY <2>1, <2>2, AtMostOne
<1>7. final[l][p] = Reg(9)
  BY <1>1, <1>5, <1>6, LonelyWritten
<1> QED
  BY <1>1, <1>3, <1>7

-----------------------------------------------------------------------------
THEOREM RewriteInvariance ==
  ASSUME RewriteAssumption
  PROVE  Spec => []RInv
<1>1. Init => RInv
  <2> SUFFICES ASSUME cell0 \in Garbage, NEW src \in Sources, NEW cells \in Cells, Start(src, cells)
               PROVE  RInv
    BY DEF Init
  <2> QED
    BY StartRInv DEF RewriteAssumption
<1> QED
  BY <1>1, NextRInv, PTL DEF Spec

\* Every line that is written has operands of the grammar, and no pass writes more lines than it reads.
THEOREM RewriteTypeCorrect ==
  ASSUME RewriteAssumption
  PROVE  Spec => []TypeOK
<1>1. RInv => TypeOK
  BY DEF RInv
<1> QED
  BY <1>1, RewriteInvariance, PTL

(***************************************************************************)
(* Rewriting the temporaries of a line one after the other does what one   *)
(* simultaneous substitution would do, for every program, every line       *)
(* length and every outcome of the allocation.                             *)
(***************************************************************************)
THEOREM SubstitutionCorrect ==
  ASSUME RewriteAssumption
  PROVE  Spec => []SubstitutesEach
BY SubstitutesFromRInv, RewriteInvariance, PTL

\* The second pass sees to every line with no more than one temporary without a cell.
THEOREM SingleLonelyCorrect ==
  ASSUME RewriteAssumption
  PROVE  Spec => []SingleLonelyReplaced
BY SingleFromRInv, RewriteInvariance, PTL

-----------------------------------------------------------------------------
\* The lines that each of the two passes still has to go through.
StepsLeft ==
  CASE pc = "registers" -> 2 * Len(source) - Len(temp_txt) + 2
    [] pc = "lonely"    -> Len(temp_txt) - Len(final) + 1
    [] pc = "written"   -> 0

LEMMA Lengths ==
  ASSUME RInv
  PROVE  /\ Len(source) \in Nat /\ Len(temp_txt) \in Nat /\ Len(final) \in Nat
         /\ StepsLeft \in Nat
<1>1. Len(source) \in Nat /\ Len(temp_txt) \in Nat /\ Len(final) \in Nat
  BY LenProperties DEF RInv, TypeOK
<1>2. Len(final) <= Len(temp_txt) /\ Len(temp_txt) <= Len(source)
  BY DEF RInv, TypeOK
<1> QED
  BY <1>1, <1>2 DEF StepsLeft, RInv, TypeOK

LEMMA EveryStepCounts == RInv /\ Next => StepsLeft' < StepsLeft
<1> SUFFICES ASSUME RInv, Next
             PROVE  StepsLeft' < StepsLeft
  OBVIOUS
<1>1. PICK a, b, c \in Nat : a = Len(source) /\ b = Len(temp_txt) /\ c = Len(final)
  BY Lengths
<1>2. CASE WriteRegisters
  <2>1. Len(temp_txt') = b + 1
    BY <1>1, <1>2, AppendProperties DEF WriteRegisters, RInv, TypeOK
  <2> QED
    BY <1>1, <1>2, <2>1 DEF WriteRegisters, StepsLeft
<1>3. CASE Rewind
  <2>1. c = 0
    BY <1>1, <1>3, EmptySeq DEF Rewind, RInv, Copied
  <2> QED
    BY <1>1, <1>3, <2>1 DEF Rewind, StepsLeft
<1>4. CASE WriteLonely
  <2>1. Len(final') = c + 1
    BY <1>1, <1>4, AppendProperties DEF WriteLonely, RInv, TypeOK
  <2> QED
    BY <1>1, <1>4, <2>1 DEF WriteLonely, StepsLeft
<1>5. CASE Close
  BY <1>1, <1>5 DEF Close, StepsLeft
<1> QED
  BY <1>2, <1>3, <1>4, <1>5 DEF Next

(***************************************************************************)
(* Both passes over the text end, and between them they take two steps for *)
(* each line of tiger_prog.s and one more for the end of each.             *)
(***************************************************************************)
THEOREM RewritingEnds ==
  ASSUME RewriteAssumption
  PROVE  Spec => /\ StepsLeft = 2 * Len(source) + 2
                 /\ [](StepsLeft \in Nat)
                 /\ [][StepsLeft' < StepsLeft]_vars
<1>1. Spec => []RInv
  BY RewriteInvariance
<1>2. Init => StepsLeft = 2 * Len(source) + 2
  <2> SUFFICES ASSUME Init
               PROVE  StepsLeft = 2 * Len(source) + 2
    OBVIOUS
  <2>1. Len(temp_txt) = 0 /\ pc = "registers" /\ source \in Seq(Seq(Operands))
    BY EmptySeq DEF Init, Start, RewriteAssumption
  <2> QED
    BY <2>1, LenProperties DEF StepsLeft
<1>3. RInv => StepsLeft \in Nat
  BY Lengths
<1> QED
  BY <1>1, <1>2, <1>3, EveryStepCounts, PTL DEF Spec
=============================================================================
