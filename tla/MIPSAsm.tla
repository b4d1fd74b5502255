------------------------------- MODULE MIPSAsm -------------------------------
(***************************************************************************)
(* MIPS_asm.c: from trees to the commands of tiger_prog.s. Every function  *)
(* takes the counters in s, and returns the commands it writes with the    *)
(* register r of the result and the new counters.                          *)
(***************************************************************************)
EXTENDS IR

\* A command: its registers in the order of the text, its number, its label.
Command(op, args, n, label) == [op |-> op, args |-> args, n |-> n, label |-> label]

None == -3

Li(t, n)                 == Command("li", <<t>>, n, None)
Addi(t, u, n)            == Command("addi", <<t, u>>, n, None)
Arith(op, t, u, v)       == Command(op, <<t, u, v>>, 0, None)
Lw(t, u)                 == Command("lw", <<t, u>>, 0, None)
Sw(t, u)                 == Command("sw", <<t, u>>, 0, None)
Branch(op, t, u, label)  == Command(op, <<t, u>>, 0, label)
J(label)                 == Command("j", <<>>, 0, label)
Jal(label, n)            == Command("jal", <<>>, n, label)   \* n: arguments, for the reader
Jr(t)                    == Command("jr", <<t>>, 0, None)
At(label)                == Command("label", <<>>, 0, label)
Exit                     == Command("exit", <<>>, 0, None)

(***************************************************************************)
(* The eight stores and loads of $t0 to $t7 in the 32 bytes at sp. Before  *)
(* the registers are allocated they stand for all temporaries, which the   *)
(* allocator will put into these eight.                                    *)
(***************************************************************************)
SaveT    == Command("saveT", <<>>, 0, None)
RestoreT == Command("restoreT", <<>>, 0, None)
SavedRegisters == 8

\* What a function that gives no result returns: NULL, or whatever it leaves behind.
NoResult == -4
Leftover == -5

Asm(code, r, s) == [code |-> code, r |-> r, s |-> s]

MIPSBinop == [plus |-> "add", minus |-> "sub", mul |-> "mul", div |-> "div", and |-> "and", or |-> "or"]

\* The branch that is taken when the relation holds, and the one for when it does not.
Branches ==
  [eq |-> <<"beq", "bne">>, ne |-> <<"bne", "beq">>, lt |-> <<"blt", "bge">>,
   gt |-> <<"bgt", "ble">>, le |-> <<"ble", "bgt">>, ge |-> <<"bge", "blt">>]

-----------------------------------------------------------------------------
RECURSIVE MIPS_ASM_codeGeneration(_, _)

\* The temporary of the result is taken before the address is computed.
MIPS_ASM_CodeGeneration_Mem(t, s) ==
  LET address == MIPS_ASM_codeGeneration(t.exp, newtemp(s))
  IN  Asm(Append(address.code, Lw(s.temps, address.r)), s.temps, address.s)

(***************************************************************************)
(* A call saves the temporaries, pushes the arguments one by one as they   *)
(* are computed, and takes everything off the stack again.                 *)
(***************************************************************************)
MIPS_ASM_CodeGeneration_Call(t, s) ==
  LET n       == Len(t.args)
      bytes   == SavedRegisters * F_wordSize
      PushArg(acc, e) ==
        LET arg == MIPS_ASM_codeGeneration(e, acc.s)
        IN  Asm(acc.code \o arg.code \o <<Addi(SP, SP, -F_wordSize), Sw(arg.r, SP)>>, RV, arg.s)
      pushed  == Thread(PushArg, Asm(<<Addi(SP, SP, -bytes), SaveT>>, RV, s), t.args)
  IN  Asm(pushed.code \o <<Jal(t.label, n), Addi(SP, SP, n * 4), RestoreT, Addi(SP, SP, bytes)>>,
          RV, Using({RV}, pushed.s))

\* Into a temporary or into memory, the destination first; the C function returns nothing.
MIPS_ASM_CodeGeneration_Move(t, s) ==
  LET toMemory == t.dst.k = "mem"
      dst == MIPS_ASM_codeGeneration(IF toMemory THEN t.dst.exp ELSE t.dst, s)
      src == MIPS_ASM_codeGeneration(t.src, dst.s)
  IN  Asm(dst.code \o src.code \o <<IF toMemory THEN Sw(src.r, dst.r) ELSE Addi(dst.r, src.r, 0)>>,
          Leftover, src.s)

MIPS_ASM_CodeGeneration_Binop(t, s) ==
  LET t2 == MIPS_ASM_codeGeneration(t.left, newtemp(s))
      t3 == MIPS_ASM_codeGeneration(t.right, t2.s)
  IN  Asm(t2.code \o t3.code \o <<Arith(MIPSBinop[t.op], s.temps, t2.r, t3.r)>>, s.temps, t3.s)

MIPS_ASM_CodeGeneration_Cjump(t, s) ==
  LET left  == MIPS_ASM_codeGeneration(t.left, s)
      right == MIPS_ASM_codeGeneration(t.right, left.s)
      op    == Branches[t.op]
  IN  Asm(left.code \o right.code \o <<Branch(op[1], left.r, right.r, t.true),
                                       Branch(op[2], left.r, right.r, t.false)>>,
          NoResult, right.s)

MIPS_ASM_CodeGeneration_Function(t, s) ==
  LET pro  == MIPS_ASM_codeGeneration(t.prologue, s)
      body == MIPS_ASM_codeGeneration(t.body, pro.s)
      void == body.r = NoResult
      epi  == MIPS_ASM_codeGeneration(t.epilogue, IF void THEN body.s ELSE Using({RV}, body.s))
      move == IF void THEN <<>> ELSE <<Addi(RV, body.r, 0)>>
  IN  Asm(<<At(t.label)>> \o pro.code \o body.code \o move \o epi.code,
          IF void THEN NoResult ELSE RV, epi.s)

MIPS_ASM_CodeGeneration_Seq(t, s) ==
  LET left  == MIPS_ASM_codeGeneration(t.left, s)
      right == MIPS_ASM_codeGeneration(t.right, left.s)
  IN  Asm(left.code \o right.code, right.r, right.s)

MIPS_ASM_codeGeneration(t, s) ==
  CASE t.k = "NULL"         -> Asm(<<>>, Leftover, s)
    [] t.k = "seq"          -> MIPS_ASM_CodeGeneration_Seq(t, s)
    [] t.k = "mem"          -> MIPS_ASM_CodeGeneration_Mem(t, s)
    [] t.k = "call"         -> MIPS_ASM_CodeGeneration_Call(t, s)
    [] t.k = "temp"         -> Asm(<<>>, t.temp, s)
    [] t.k = "jump"         -> Asm(<<J(t.label)>>, Leftover, s)
    [] t.k = "jumpRegister" -> Asm(<<Jr(t.temp)>>, Leftover, s)
    [] t.k = "move"         -> MIPS_ASM_CodeGeneration_Move(t, s)
    [] t.k = "binop"        -> MIPS_ASM_CodeGeneration_Binop(t, s)
    [] t.k = "label"        -> Asm(<<At(t.label)>>, NoResult, s)
    [] t.k = "cjump"        -> MIPS_ASM_CodeGeneration_Cjump(t, s)
    [] t.k = "const"        -> Asm(<<Li(s.temps, t.n)>>, s.temps, newtemp(s))
    [] t.k = "function"     -> MIPS_ASM_CodeGeneration_Function(t, s)

\* main has ten words below its frame pointer, whatever its locals.
MIPS_ASM_Init == <<Addi(FP, SP, 40)>>

(***************************************************************************)
(* The commands from main on. The routines in front of them are single     *)
(* steps of Execution.                                                     *)
(***************************************************************************)
MIPS_ASM_CodeGeneration(program) ==
  LET ir == IR_transProg(program, NULL)
  IN  MIPS_ASM_Init \o MIPS_ASM_codeGeneration(ir.t, Using({SP, FP}, ir.s)).code \o <<Exit>>
=============================================================================
