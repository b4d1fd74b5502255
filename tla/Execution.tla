------------------------------ MODULE Execution ------------------------------
(***************************************************************************)
(* A compiled program at work: the commands of MIPSAsm on a machine with   *)
(* registers, a stack and a heap, one action per class of command, held    *)
(* against the meaning of its source (Tiger). Small programs are run with  *)
(* the registers of MIPS_ASM_Prog.s. The others are run as they are in     *)
(* tiger_prog.s, where the temporaries are registers that the allocator    *)
(* would put into $t0 to $t7.                                              *)
(***************************************************************************)
EXTENDS Registers, Tiger

CONSTANTS
  Programs,       \* trees, run with temporaries
  SmallPrograms,  \* trees, run with registers
  StackTop,       \* sp when main starts
  StackLimit,     \* bound: no call is made below it
  HeapBase,       \* what sbrk returns first
  MaxOutput       \* bound: numbers a program may print

VARIABLES
  source,    \* the tree of the source
  code,      \* the commands of the program
  meaning,   \* what its source prints
  assembled, \* they are the commands of MIPS_ASM_Prog.s
  pc,
  reg,       \* values of the registers that have one
  mem,       \* words that have been written, by address
  saved,     \* cells that hold the registers of a caller
  heap,      \* end of the heap
  out,       \* printed so far
  status,    \* "running" or "exited", or "rejected" by the assembler
  calls      \* history: what each call that is open has left behind

loaded == <<source, code, meaning, assembled>>

vars == <<loaded, pc, reg, mem, saved, heap, out, status, calls>>

cmd        == code[pc]
Operand(q) == reg[cmd.args[q]]

Places(label) == {q \in DOMAIN code : code[q] = At(label)}
Routines      == {PrintInt, AllocateRecord, AllocateArray}

ArithOps  == {"add", "sub", "mul", "div", "and", "or"}
BranchOps == {"beq", "bne", "blt", "bge", "bgt", "ble"}
ReadOnly  == BranchOps \cup {"sw", "jr"}

\* Registers read: all operands, or all but the first one, which is written.
ReadBy(c) == {c.args[q] : q \in (IF c.op \in ReadOnly THEN 1 ELSE 2) .. Len(c.args)}

\* Temporaries in the text, which are no names of registers.
TemporariesIn(commands) ==
  {r \in UNION {Range(commands[q].args) : q \in DOMAIN commands} : r >= firstTemp}

Load(program, commands) ==
  /\ source = program
  /\ code = commands
  /\ meaning = Meaning(program)
  /\ pc = 1
  /\ reg = SP :> StackTop @@ RA :> 1       \* main is reached by a call
  /\ mem = <<>>
  /\ saved = <<>>
  /\ heap = HeapBase
  /\ out = <<>>
  /\ calls = <<>>

\* The allocator has a file to work on when the liveness tool can read the program. A program
\* with Temp_100 in it, whose cell nothing has written, is a matter of Rewrite.
Init ==
  \/ /\ \E program \in Programs : Load(program, MIPS_ASM_CodeGeneration(program))
     /\ assembled = FALSE
     /\ status = "running"
  \/ /\ \E program \in SmallPrograms : \E commands \in {MIPS_ASM_CodeGeneration(program)} :
          /\ \A q \in DOMAIN commands : Parses(commands[q])
          /\ firstTemp \notin TemporariesIn(commands)
          /\ \E final \in {MIPS_ASM_Prog(commands)} : final # <<>> /\ Load(program, final)
     /\ assembled = TRUE
     /\ status = IF TemporariesIn(code) = {} THEN "running" ELSE "rejected"

-----------------------------------------------------------------------------
Runs(ops) ==
  /\ status = "running"
  /\ pc \in DOMAIN code
  /\ cmd.op \in ops
  /\ ReadBy(cmd) \subseteq DOMAIN reg

SetReg(r, v) == reg' = (r :> v) @@ reg

Goto(label) == /\ Places(label) # {}
               /\ pc' = CHOOSE q \in Places(label) : TRUE

Value(c) ==
  LET a == reg[c.args[2]]
      b == reg[c.args[3]]
  IN  CASE c.op = "add" -> a + b
        [] c.op = "sub" -> a - b
        [] c.op = "mul" -> a * b
        [] c.op = "div" -> a \div b
        [] c.op = "and" -> a & b
        [] c.op = "or"  -> a | b

Compute ==
  /\ Runs({"li", "addi"} \cup ArithOps)
  /\ cmd.op = "div" => Operand(3) # 0
  /\ SetReg(cmd.args[1],
            CASE cmd.op = "li"   -> cmd.n
              [] cmd.op = "addi" -> Operand(2) + cmd.n
              [] OTHER           -> Value(cmd))
  /\ pc' = pc + 1
  /\ UNCHANGED <<loaded, mem, saved, heap, out, status, calls>>

LoadWord ==
  /\ Runs({"lw"})
  /\ Operand(2) \in DOMAIN mem
  /\ SetReg(cmd.args[1], mem[Operand(2)])
  /\ pc' = pc + 1
  /\ UNCHANGED <<loaded, mem, saved, heap, out, status, calls>>

StoreWord ==
  /\ Runs({"sw"})
  /\ mem' = (Operand(2) :> Operand(1)) @@ mem
  /\ saved' = [a \in DOMAIN saved \ {Operand(2)} |-> saved[a]]
  /\ pc' = pc + 1
  /\ UNCHANGED <<loaded, reg, heap, out, status, calls>>

-----------------------------------------------------------------------------
\* A call saves $t0 to $t7.
Kept == Named \cup {T9}

SavedCells == {reg[SP] + q * F_wordSize : q \in 0 .. SavedRegisters - 1}

SaveTemporaries ==
  /\ Runs({"saveT"})
  /\ saved' = [a \in SavedCells |-> [t \in DOMAIN reg \ Kept |-> reg[t]]] @@ saved
  /\ mem' = [a \in DOMAIN mem \ SavedCells |-> mem[a]]
  /\ pc' = pc + 1
  /\ UNCHANGED <<loaded, reg, heap, out, status, calls>>

RestoreTemporaries ==
  /\ Runs({"restoreT"})
  /\ SavedCells \subseteq DOMAIN saved
  /\ reg' = [t \in Kept \cap DOMAIN reg |-> reg[t]] @@ saved[reg[SP]]
  /\ saved' = [a \in DOMAIN saved \ SavedCells |-> saved[a]]
  /\ pc' = pc + 1
  /\ UNCHANGED <<loaded, mem, heap, out, status, calls>>

Holds(op, a, b) ==
  CASE op = "beq" -> a = b
    [] op = "bne" -> a # b
    [] op = "blt" -> a < b
    [] op = "bge" -> a >= b
    [] op = "bgt" -> a > b
    [] op = "ble" -> a <= b

BranchIf ==
  /\ Runs(BranchOps)
  /\ IF Holds(cmd.op, Operand(1), Operand(2)) THEN Goto(cmd.label) ELSE pc' = pc + 1
  /\ UNCHANGED <<loaded, reg, mem, saved, heap, out, status, calls>>

Jump ==
  /\ Runs({"j"})
  /\ Goto(cmd.label)
  /\ UNCHANGED <<loaded, reg, mem, saved, heap, out, status, calls>>

PassLabel ==
  /\ Runs({"label"})
  /\ pc' = pc + 1
  /\ UNCHANGED <<loaded, reg, mem, saved, heap, out, status, calls>>

-----------------------------------------------------------------------------
JumpAndLink ==
  /\ Runs({"jal"})
  /\ cmd.label \notin Routines
  /\ reg[SP] >= StackLimit
  /\ SetReg(RA, pc + 1)
  /\ Goto(cmd.label)
  /\ calls' = Append(calls, [sp |-> reg[SP], fp |-> reg[FP], back |-> pc + 1, n |-> cmd.n])
  /\ UNCHANGED <<loaded, mem, saved, heap, out, status>>

JumpRegister ==
  /\ Runs({"jr"})
  /\ calls # <<>>
  /\ pc' = Operand(1)
  /\ calls' = Front(calls)
  /\ UNCHANGED <<loaded, reg, mem, saved, heap, out, status>>

\* A routine that every program carries is run as one step, from jal to jr.
Routine(label) ==
  /\ Runs({"jal"})
  /\ cmd.label = label
  /\ reg[SP] \in DOMAIN mem
  /\ pc' = pc + 1
  /\ UNCHANGED <<loaded, saved, status, calls>>

CallPrintInt ==
  /\ Routine(PrintInt)
  /\ Len(out) < MaxOutput
  /\ out' = Append(out, mem[reg[SP]])
  /\ reg' = RV :> 1 @@ RA :> pc + 1 @@ reg
  /\ UNCHANGED <<mem, heap>>

\* The heap grows by the bytes at sp; words is what the loop copies, at least one.
Allocate(word(_, _)) ==
  LET bytes == mem[reg[SP]]
      words == IF bytes = 0 THEN 1 ELSE bytes \div 4
  IN  /\ mem' = [a \in {heap + 4 * q : q \in 0 .. words - 1} |-> word((a - heap) \div 4, bytes)] @@ mem
      /\ heap' = heap + bytes
      /\ reg' = RV :> heap @@ RA :> pc + 1 @@ reg
      /\ UNCHANGED out

\* From the highest of the initialisers on the stack down.
RecordWord(q, bytes) == mem[reg[SP] + bytes - 4 * q]

\* From the lowest one up.
ArrayWord(q, bytes) == mem[reg[SP] + 4 + 4 * q]

CallAllocateRecord ==
  /\ Routine(AllocateRecord)
  /\ Allocate(RecordWord)

CallAllocateArray ==
  /\ Routine(AllocateArray)
  /\ Allocate(ArrayWord)

Stop ==
  /\ Runs({"exit"})
  /\ status' = "exited"
  /\ UNCHANGED <<loaded, pc, reg, mem, saved, heap, out, calls>>

Step ==
  \/ Compute \/ LoadWord \/ StoreWord \/ SaveTemporaries \/ RestoreTemporaries
  \/ BranchIf \/ Jump \/ PassLabel \/ JumpAndLink \/ JumpRegister
  \/ CallPrintInt \/ CallAllocateRecord \/ CallAllocateArray \/ Stop

Next == Step

Fairness == WF_vars(Next)

Spec == Init /\ [][Next]_vars /\ Fairness

-----------------------------------------------------------------------------
RECURSIVE Nodes(_), HasCall(_), CallFirst(_), LastOf(_), Used(_), Owned(_)

Calls       == {"call", "record", "array"}
Children(e) == Range(e.subs) \cup (IF e.k = "let" THEN Range(e.decs) ELSE {})
InPlace(e)  == {c \in Children(e) : c.k # "function"}

Nodes(e)   == {e} \cup UNION {Nodes(c) : c \in Children(e)}
HasCall(e) == e.k \in Calls \/ \E c \in InPlace(e) : HasCall(c)
LastOf(e)  == IF e.k \in {"seq", "let"} THEN LastOf(Last(e.subs)) ELSE e

\* Variables read or written by e, and declared by it, outside of the functions in it.
Used(e)  == (IF e.k = "simple" THEN {e.name} ELSE {}) \cup UNION {Used(c) : c \in InPlace(e)}
Owned(e) == (IF e.k \in {"var", "for"} THEN {e.name} ELSE {}) \cup UNION {Owned(c) : c \in InPlace(e)}

InV0(e) == LastOf(e).k \in Calls

\* What is computed for the node while something else of it waits in a temporary.
Later(e) ==
  CASE e.k \in {"op", "assign"} -> {e.subs[2]}
    [] e.k = "for" -> {e.subs[1], e.subs[2]}
    [] e.k = "var" -> Range(e.subs)
    [] OTHER -> {}

(***************************************************************************)
(* The flow graph ends at a call: what waits for it is not known to be     *)
(* needed in front of it. No temporary is written there when the call,     *)
(* which saves them all, is the first to be computed and the only one.     *)
(***************************************************************************)
CallFirst(e) ==
  e.k \in Calls \/ (e.k = "op" /\ CallFirst(e.subs[1]) /\ ~HasCall(e.subs[2]))

KeptAcrossCalls(e) == \A c \in Later(e) : HasCall(c) => CallFirst(c)

\* What is computed and thrown away gets a register that may be in use.
Discards(e) == \E x \in Nodes(e) : x.k = "seq" /\ Len(x.subs) > 1
NothingInVain(e) == \A c \in Later(e) : ~Discards(c)

\* What the grammar of the liveness tool has a command for.
Readable(e) ==
  /\ e.k = "op" => e.oper \notin {"divideOp", "andOp", "orOp"}
  /\ e.k = "op" /\ e.oper \in {"timesOp", "ltOp", "leOp", "gtOp", "geOp"} => ~InV0(e.subs[1])
  /\ e.k = "op" /\ e.oper \notin {"plusOp", "eqOp", "neqOp"} => ~InV0(e.subs[2])
  /\ e.k \in {"for", "subscript"} => ~InV0(e.subs[2])

\* A call leaves its value in $v0, where the next call puts its own.
OperandsApart(e) == e.k = "op" /\ LastOf(e.subs[1]).k = "call" => ~HasCall(e.subs[2])

\* The frame pointer is the only way to a variable.
OwnVariables(e) ==
  e.k = "function" => Used(e.subs[1]) \subseteq Owned(e.subs[1]) \cup {q[1] : q \in Range(e.params)}

\* An assignment has no result, and the code generator does not notice.
EndsInResult(e) == e.k = "function" => LastOf(e.subs[1]).k # "assign"

\* SEM_transExp, called by IR.c, follows a list of formals that IR.c has not filled.
InitTyped(e) == e.k = "var" => \A x \in UNION {Nodes(c) : c \in InPlace(e)} : x.k = "call" => x.subs = <<>>

\* main has ten words, whatever its locals.
MainFits(program) == IR_transProg(program, NULL).s.frame.locals <= 10

Compilable(program) ==
  MainFits(program) /\ \A e \in Nodes(program) : EndsInResult(e) /\ InitTyped(e)

-----------------------------------------------------------------------------
TypeOK ==
  /\ pc \in DOMAIN code
  /\ status \in {"running", "exited", "rejected"}
  /\ reg[SP] \in StackLimit - 400 .. StackTop
  /\ \A r \in {SP, FP} \cap DOMAIN reg : reg[r] % F_wordSize = 0
  /\ DOMAIN mem \cap DOMAIN saved = {}
  /\ heap % F_wordSize = 0

AsMeant ==
  /\ IsPrefix(out, meaning)
  /\ status = "exited" => out = meaning

(***************************************************************************)
(* A compiled program prints what its source says, in that order, and all  *)
(* of it by the time it exits: frames, formals, calls, loops, relations,   *)
(* records and arrays compute what they mean.                              *)
(***************************************************************************)
PrintsItsMeaning == ~assembled => AsMeant

(***************************************************************************)
(* All tools together: with the eight registers of MIPS_ASM_Prog.s, as the *)
(* flow graph, the ranges, the edges and the search two edges wide have    *)
(* given them out, and with calls that save them, a program still prints   *)
(* what its source says.                                                   *)
(***************************************************************************)
RegistersKeepMeaning == assembled => AsMeant

(***************************************************************************)
(* No line of a program is left with a temporary for which there is no     *)
(* register, but where there are more temporaries than are analysed: of    *)
(* two on a line that nothing interferes with, the second would stay.      *)
(***************************************************************************)
RejectedOnlyBeyondTable ==
  status = "rejected" => \A r \in TemporariesIn(code) : r - firstTemp >= AnalysedTemporaries

(***************************************************************************)
(* The register of the temporaries behind the last edge, $t9, is not among *)
(* the eight that a call saves, and yet keeps its value across the call:   *)
(* the epilogue of every function has edges, so that no function has such  *)
(* a temporary.                                                            *)
(***************************************************************************)
LonelyOutliveCalls ==
  [][calls # <<>> => \A r \in {T9} \cap (DOMAIN reg \cup DOMAIN reg') :
                       r \in DOMAIN reg /\ r \in DOMAIN reg' /\ reg'[r] = reg[r]]_vars

(***************************************************************************)
(* The liveness tool reads exactly the programs without division and       *)
(* logic in which the value of a call is no operand of a product, of a     *)
(* relation of order, of a difference (on the right), of a bound or of an  *)
(* index: the grammar of the one tool against what the other one writes.   *)
(***************************************************************************)
LivenessToolReads ==
  pc = 1 /\ ~assembled =>
    ((\A q \in DOMAIN code : Parses(code[q])) <=> \A e \in Nodes(source) : Readable(e))

(***************************************************************************)
(* Every function gives back the stack and the frame of its caller, and    *)
(* comes back behind the call: what prologue and epilogue push and pop,    *)
(* with the frame in between, cancels out however calls nest.              *)
(***************************************************************************)
CallsBalanced ==
  [][Len(calls') < Len(calls) =>
       LET c == Last(calls) IN reg'[SP] = c.sp /\ reg'[FP] = c.fp /\ pc' = c.back]_vars

\* The words a function may write: above sp, up to the arguments it was given.
OwnFrame ==
  LET top == IF calls = <<>> THEN StackTop + 40 ELSE Last(calls).sp + F_wordSize * Last(calls).n
  IN  reg[SP] .. top - 1

(***************************************************************************)
(* No store reaches below the stack, where the next call would overwrite   *)
(* it, nor into the frame or the saved registers of a caller: the offsets  *)
(* of locals and formals agree with what callers push and prologues        *)
(* reserve.                                                                *)
(***************************************************************************)
StoresStayInFrame ==
  Runs({"sw"}) => Operand(2) \in (OwnFrame \ DOMAIN saved) \cup HeapBase .. heap - 1

(***************************************************************************)
(* Every jump, branch and call has one place to go to, although the trees  *)
(* of both bounds of a loop are made twice and labels are taken before the *)
(* operands that take their own.                                           *)
(***************************************************************************)
LabelsResolved ==
  pc = 1 => \A q \in DOMAIN code :
    code[q].label # None => code[q].label \in Routines \/ Cardinality(Places(code[q].label)) = 1

(***************************************************************************)
(* Every program comes to its end: loops count up to their bounds, calls   *)
(* come back, and no command is left without operands.                     *)
(***************************************************************************)
Terminates == <>(status \in {"exited", "rejected"})

-----------------------------------------------------------------------------
(***************************************************************************)
(* "move left operand to t2 temporary ... move right operand to t3         *)
(* temporary", says the comment on operations: when the command is run,    *)
(* both values are there.                                                  *)
(***************************************************************************)
OperationsHaveOperands == AsMeant

(***************************************************************************)
(* "since nested functions are allowed", says the comment on declarations  *)
(* of functions: a function inside another one means what it says.         *)
(***************************************************************************)
NestedFunctionsAllowed == AsMeant

(***************************************************************************)
(* "move dst expression to temp ... generate store instruction", says the  *)
(* comment on assignments: the destination is there when the store is run. *)
(***************************************************************************)
DestinationsKept == StoresStayInFrame
=============================================================================
