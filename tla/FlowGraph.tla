----------------------------- MODULE FlowGraph -----------------------------
(***************************************************************************)
(* What the liveness tool (VerifyCodeGen/main.c, steps [2] to [4]) knows   *)
(* of the program in tiger_prog.s: for every command the temporaries it    *)
(* reads (use), the one it writes (def) and the commands that may follow   *)
(* it (out_edges).                                                         *)
(*                                                                         *)
(* A program is a function from 0 .. n-1 to instructions.  An operand is a *)
(* natural number for Temp_(100 + number), or Register for a machine       *)
(* register: atoi reads from the sixth byte of its name, which is behind   *)
(* the end of the string, where the debug heap of the project's build has  *)
(* guard bytes and no digits.                                              *)
(***************************************************************************)
EXTENDS Integers, Sequences

Register == -100   \* use/def entry of $fp, $sp, $v0, ...
NoTemp   == -1     \* use/def entry of an operand that is not there
NoEdge   == -1     \* out_edges entry of a successor that is not there

IsTemp(operand) == operand >= 0

(***************************************************************************)
(* The instructions of the grammar, by what the tool does with them.       *)
(***************************************************************************)
Arith(t1, t2, t3)   == [op |-> "arith",  args |-> <<t1, t2, t3>>, label |-> ""]
Load(t1, t2)        == [op |-> "load",   args |-> <<t1, t2>>,     label |-> ""]
Store(t1, t2)       == [op |-> "store",  args |-> <<t1, t2>>,     label |-> ""]
Move(t1, t2)        == [op |-> "move",   args |-> <<t1, t2>>,     label |-> ""]
AddImmediate(t1,t2) == [op |-> "addi",   args |-> <<t1, t2>>,     label |-> ""]
LoadImmediate(t)    == [op |-> "li",     args |-> <<t>>,          label |-> ""]
Branch(t1, t2, lab) == [op |-> "branch", args |-> <<t1, t2>>,     label |-> lab]
Jump(lab)           == [op |-> "jump",   args |-> <<>>,           label |-> lab]
Label(lab)          == [op |-> "label",  args |-> <<>>,           label |-> lab]
JumpAndLink(lab)    == [op |-> "jal",    args |-> <<>>,           label |-> lab]
JumpRegister        == [op |-> "jr",     args |-> <<>>,           label |-> ""]

\* Everything the grammar accepts, a label being any text.
Operands == Nat \cup {Register}
Pair     == Operands \X Operands

Instructions ==
       [op : {"arith"}, args : Operands \X Operands \X Operands, label : {""}]
  \cup [op : {"load", "store", "move", "addi"}, args : Pair, label : {""}]
  \cup [op : {"li"}, args : [{1} -> Operands], label : {""}]
  \cup [op : {"branch"}, args : Pair, label : STRING]
  \cup [op : {"jump", "label", "jal"}, args : {<<>>}, label : STRING]
  \cup [op : {"jr"}, args : {<<>>}, label : {""}]

\* A mutant of Use: a branch is read through a member whose words are elsewhere.
UseButBranch(instr) ==
  CASE instr.op = "arith"  -> <<instr.args[2], instr.args[3]>>
    [] instr.op = "branch" -> <<0, 0>>
    [] instr.op = "store"  -> instr.args
    [] instr.op \in {"load", "move", "addi"} -> <<instr.args[2], NoTemp>>
    [] OTHER -> <<NoTemp, NoTemp>>

(***************************************************************************)
(* use[command][0..1]: a branch is entered only when its first operand is  *)
(* a temporary; otherwise the row keeps the zeros of the memset, which is  *)
(* a use of temporary number 0 and not of the second operand.              *)
(***************************************************************************)
Use(instr) ==
  CASE instr.op = "arith"  -> <<instr.args[2], instr.args[3]>>
    [] instr.op = "branch" -> IF IsTemp(instr.args[1]) THEN instr.args ELSE <<0, 0>>
    [] instr.op = "store"  -> instr.args
    [] instr.op \in {"load", "move", "addi"} -> <<instr.args[2], NoTemp>>
    [] OTHER -> <<NoTemp, NoTemp>>

Def(instr) ==
  IF instr.op \in {"arith", "load", "move", "addi", "li"} THEN instr.args[1] ELSE NoTemp

(***************************************************************************)
(* instructionToLabel[command], and the first command that carries a text. *)
(* A command that is no label carries the empty text; the table has room   *)
(* for more commands than the program, so the empty text is always found.  *)
(***************************************************************************)
InstructionToLabel(prog) ==
  [command \in DOMAIN prog |-> IF prog[command].op = "label" THEN prog[command].label ELSE ""]

FindInstructionNumberOfLabel(prog, text) ==
  LET carriers == {c \in DOMAIN prog : InstructionToLabel(prog)[c] = text}
      least    == CHOOSE c \in carriers : \A d \in carriers : c <= d
      past     == CHOOSE c \in {d + 1 : d \in DOMAIN prog} : c \notin DOMAIN prog
  IN  CASE carriers # {} -> least
        [] carriers = {} /\ text = "" -> past
        [] OTHER -> 0

(***************************************************************************)
(* out_edges[command][0..1].  A branch looks up exp->u.label, the union    *)
(* member of a label line: its bytes are those of the pointer u.beq.temp1. *)
(* They are no label's name (overlay # ""), or the empty text when the     *)
(* lowest byte of the pointer is zero (overlay = "").                      *)
(***************************************************************************)
BranchOverlay == {"", "pointer bytes"}

OutEdges(prog, command, overlay) ==
  LET instr == prog[command] IN
  CASE instr.op = "branch" -> <<command + 1, FindInstructionNumberOfLabel(prog, overlay)>>
    [] instr.op = "jump"   -> <<FindInstructionNumberOfLabel(prog, instr.label), NoEdge>>
    [] instr.op \in {"jal", "jr"} -> <<NoEdge, NoEdge>>
    [] OTHER -> <<command + 1, NoEdge>>

(***************************************************************************)
(* The three tables together.  A pointer differs from branch to branch, so *)
(* overlay is a function of the command.                                   *)
(***************************************************************************)
FlowGraphOf(prog, overlay) ==
  [use |-> [c \in DOMAIN prog |-> Use(prog[c])],
   def |-> [c \in DOMAIN prog |-> Def(prog[c])],
   out_edges |-> [c \in DOMAIN prog |-> OutEdges(prog, c, overlay[c])]]

FlowGraphsOf(prog) ==
  {FlowGraphOf(prog, overlay) : overlay \in [DOMAIN prog -> BranchOverlay]}
=============================================================================
