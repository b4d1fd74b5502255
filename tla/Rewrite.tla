------------------------------ MODULE Rewrite ------------------------------
(***************************************************************************)
(* The last part of the register allocator (allocate_reg_to_temp): it      *)
(* copies tiger_prog.s line by line to temp.txt, writing registers in the  *)
(* place of temporaries, and copies temp.txt to MIPS_ASM_Prog.s, writing   *)
(* $t9 in the place of temporaries that have no cell in graph[].           *)
(*                                                                         *)
(* A line is the sequence of its operands, in the order of the text: a     *)
(* temporary Temp(k), for Temp_(100 + k), or a register.  Temporaries have *)
(* three digits (k < 900), as get_tmp_info takes for granted.              *)
(***************************************************************************)
EXTENDS Integers, Sequences, FiniteSetsExt, Functions

CONSTANTS
  Sources,   \* the programs: sequences of lines
  Cells      \* the arrays graph[]: sequences of reg_assigned from cell 1 on

Temp(k) == <<"Temp_", k>>
Reg(r)  == <<"$t", r>>
Other   == <<"$fp", 0>>      \* any other register

IsTempOperand(operand) == operand[1] = "Temp_"

VARIABLES
  source,     \* the lines of tiger_prog.s
  graph,      \* graph[v].reg_assigned, for v from 1 on
  cell0,      \* graph[0].reg_assigned, which nothing initialises
  pc,
  temp_txt,   \* the lines of temp.txt
  final       \* the lines of MIPS_ASM_Prog.s

vars == <<source, graph, cell0, pc, temp_txt, final>>

max_alloc_num == IF graph = <<>> THEN 0 ELSE Len(graph) + 1

\* Memory that malloc leaves as it was: a register's number, or no such thing.
Junk == 99
Garbage == 0 .. 7 \cup {Junk}

Start(src, cells) ==
  /\ source = src
  /\ graph = cells
  /\ pc = "registers"
  /\ temp_txt = <<>>
  /\ final = <<>>

Init == cell0 \in Garbage /\ \E src \in Sources, cells \in Cells : Start(src, cells)

(***************************************************************************)
(* get_tmp_info: the places of a line at which a temporary stands, which   *)
(* the loops below take in the order of the text; and replaceAllString:    *)
(* every occurrence of one of them.                                        *)
(***************************************************************************)
TempPlaces(text) == {p \in DOMAIN text : IsTempOperand(text[p])}

\* A mutant of get_tmp_info: it stops at the second temporary.
get_two_tmp_info(text) ==
  {p \in TempPlaces(text) : Cardinality({q \in TempPlaces(text) : q < p}) < 2}

get_tmp_info(text) == TempPlaces(text)

\* A mutant of replaceAllString: only the first occurrence.
replaceOneString(text, orig, replacement) ==
  [p \in DOMAIN text |->
     IF text[p] = orig /\ \A q \in 1 .. p - 1 : text[q] # orig THEN replacement ELSE text[p]]

replaceAllString(text, orig, replacement) ==
  [p \in DOMAIN text |-> IF text[p] = orig THEN replacement ELSE text[p]]

\* The register written for a temporary in the first pass; the temporary itself without a cell.
Cell(k) == IF k = 0 THEN cell0 ELSE graph[k]

Allocated(operand) == IF operand[2] < max_alloc_num THEN Reg(Cell(operand[2])) ELSE operand

\* The loop over the first, second and third temporary that get_tmp_info found in the line.
ReplaceEach(text) ==
  LET temps == get_tmp_info(text)
      step[p \in 0 .. Len(text)] ==
        IF p = 0 THEN text
        ELSE IF p \in temps THEN replaceAllString(step[p - 1], text[p], Allocated(text[p]))
        ELSE step[p - 1]
  IN  step[Len(text)]

WriteRegisters ==
  /\ pc = "registers"
  /\ Len(temp_txt) < Len(source)
  /\ temp_txt' = Append(temp_txt, ReplaceEach(source[Len(temp_txt) + 1]))
  /\ UNCHANGED <<source, graph, cell0, pc, final>>

\* fseek to the start of temp.txt.
Rewind ==
  /\ pc = "registers"
  /\ Len(temp_txt) = Len(source)
  /\ pc' = "lonely"
  /\ UNCHANGED <<source, graph, cell0, temp_txt, final>>

\* Of the temporaries that a line still has, the loop replaces only number i = 1.
ReplaceFirst(text) ==
  LET temps == get_tmp_info(text) IN
  IF temps = {} THEN text ELSE replaceAllString(text, text[Min(temps)], Reg(9))

\* A mutant of WriteLonely: the line is written before and after the replacement.
WriteLonelyTwice ==
  /\ pc = "lonely"
  /\ Len(final) < Len(temp_txt)
  /\ LET text == temp_txt[Len(final) + 1]
     IN  final' = final \o <<text, ReplaceFirst(text)>>
  /\ UNCHANGED <<source, graph, cell0, pc, temp_txt>>

WriteLonely ==
  /\ pc = "lonely"
  /\ Len(final) < Len(temp_txt)
  /\ final' = Append(final, ReplaceFirst(temp_txt[Len(final) + 1]))
  /\ UNCHANGED <<source, graph, cell0, pc, temp_txt>>

Close ==
  /\ pc = "lonely"
  /\ Len(final) = Len(temp_txt)
  /\ pc' = "written"
  /\ UNCHANGED <<source, graph, cell0, temp_txt, final>>

Next == WriteRegisters \/ Rewind \/ WriteLonely \/ Close

Spec == Init /\ [][Next]_vars

-----------------------------------------------------------------------------
Operands == {"Temp_", "$t", "$fp"} \X Nat

TypeOK ==
  /\ source \in Seq(Seq(Operands))
  /\ graph \in Seq(0 .. 7)
  /\ cell0 \in Garbage
  /\ pc \in {"registers", "lonely", "written"}
  /\ temp_txt \in Seq(Seq(Operands))
  /\ final \in Seq(Seq(Operands))
  /\ Len(final) <= Len(temp_txt)
  /\ Len(temp_txt) <= Len(source)

(***************************************************************************)
(* Replacing the temporaries of a line one after the other, and again in   *)
(* the second pass, does what one simultaneous substitution would do: an   *)
(* operand of the final text is the register of the temporary that stood   *)
(* there, whatever else stood on its line, and what was a register stays.  *)
(***************************************************************************)
SubstitutesEach ==
  \A l \in 1 .. Len(final) : \A p \in DOMAIN source[l] :
    LET before == source[l][p] IN
    IF IsTempOperand(before) /\ before[2] \in 1 .. max_alloc_num - 1
      THEN final[l][p] = Reg(graph[before[2]])
      ELSE IsTempOperand(before) \/ final[l][p] = before

(***************************************************************************)
(* What the two passes do see to: a line is left with a temporary only     *)
(* when two different temporaries without a cell stood on it.              *)
(***************************************************************************)
LonelyOf(text) == {operand \in Range(text) : IsTempOperand(operand) /\ operand[2] >= max_alloc_num}

SingleLonelyReplaced ==
  pc = "written" =>
    \A l \in 1 .. Len(final) :
      Cardinality(LonelyOf(source[l])) <= 1 => get_tmp_info(final[l]) = {}
=============================================================================
