------------------------------- MODULE Frame -------------------------------
(***************************************************************************)
(* MIPS_frame.c and temp.c: the registers with a part to play, temporaries *)
(* and labels, and where a function finds its formals and locals. Only the *)
(* number of locals of the frame that is being filled is kept (its size is *)
(* a word for each).                                                       *)
(***************************************************************************)
EXTENDS Integers, Sequences, FiniteSets, SequencesExt

F_wordSize == 4

\* Registers with a name; the numbers from firstTemp are those of the temporaries.
FP == 0
SP == 1
RV == 2
RA == 3
firstTemp == 100

Named == {FP, SP, RV, RA}

\* temps and labels are the two counters, in whatever record s they are part of.
newtemp(s)       == [s EXCEPT !.temps = @ + 1]
\* Mutant: the same label again.
newlabelAgain(s) == s
newlabel(s)      == [s EXCEPT !.labels = @ + 1]

\* FP(), SP(), RV() or RA(): the first use of one takes the number of a temporary.
Using(registers, s) ==
  [s EXCEPT !.named = @ \cup registers, !.temps = @ + Cardinality(registers \ s.named)]

\* Mutant: in the order of the loop.
FormalsForward(numInputParameters) == [q \in 1 .. numInputParameters |-> (numInputParameters + 2 - q) * F_wordSize]

\* The list is built backwards, from the last formal to the first.
Formals(numInputParameters) ==
  FoldLeft(LAMBDA accessList, i : <<(numInputParameters + 1 - i) * F_wordSize>> \o accessList,
           <<>>, [q \in 1 .. numInputParameters |-> q - 1])

F_newFrame(numInputParameters) == [formals |-> Formals(numInputParameters), locals |-> 0]

\* Mutants: the last local is not counted; locals are counted, not their bytes.
sizeOneLess(frame) == F_wordSize * (frame.locals - 1)
sizeInWords(frame) == frame.locals

size(frame) == F_wordSize * frame.locals

\* The access of the new local is its offset.
F_allocLocal(frame) ==
  [frame  |-> [frame EXCEPT !.locals = @ + 1],
   access |-> 0 - F_wordSize * (frame.locals + 1)]
=============================================================================
