--------------------------------- MODULE IR ---------------------------------
(***************************************************************************)
(* IR.c: from the tree of the source to the tree of the intermediate       *)
(* representation. Every function takes the environments, the counters and *)
(* the frame under construction in a record s, the state of Semant with    *)
(* them, and returns the new one with the tree t.                          *)
(***************************************************************************)
EXTENDS Frame, Semant

\* Trees, tree.c.
T_Const(n)           == [k |-> "const", n |-> n]
T_Temp(t)            == [k |-> "temp", temp |-> t]
T_Mem(e)             == [k |-> "mem", exp |-> e]
T_Binop(op, l, r)    == [k |-> "binop", op |-> op, left |-> l, right |-> r]
T_Move(d, e)         == [k |-> "move", dst |-> d, src |-> e]
T_Seq(l, r)          == [k |-> "seq", left |-> l, right |-> r]
T_Label(l)           == [k |-> "label", label |-> l]
T_JumpLabel(l)       == [k |-> "jump", label |-> l]
T_JumpRegister(t)    == [k |-> "jumpRegister", temp |-> t]
T_Cjump(op, l, r, true, false) ==
  [k |-> "cjump", op |-> op, left |-> l, right |-> r, true |-> true, false |-> false]
T_Call(label, args)  == [k |-> "call", label |-> label, args |-> args]
T_Function(pro, body, epi, label) ==
  [k |-> "function", prologue |-> pro, body |-> body, epilogue |-> epi, label |-> label]

RECURSIVE Sequence(_)
Sequence(ts) == IF Len(ts) = 1 THEN ts[1] ELSE T_Seq(ts[1], Sequence(Tail(ts)))

\* ConvertAbstractSyntaxBinopsToIRBinops
IRBinop ==
  [plusOp |-> "plus", minusOp |-> "minus", timesOp |-> "mul", divideOp |-> "div",
   andOp |-> "and", orOp |-> "or",
   eqOp |-> "eq", neqOp |-> "ne", ltOp |-> "lt", leOp |-> "le", gtOp |-> "gt", geOp |-> "ge"]

Relations == {"eq", "ne", "lt", "le", "gt", "ge"}

\* F_Exp takes the frame of the access as an argument and has no use for it.
F_Exp(access) == T_Mem(T_Binop("plus", T_Temp(FP), T_Const(access)))

Plus(t, n)  == T_Binop("plus", t, T_Const(n))
Minus(t, n) == T_Binop("minus", t, T_Const(n))

\* Entries of venv; a function's has neither formals nor result.
E_VarEntry(type, access, id) == [k |-> "var", type |-> type, access |-> access, id |-> id]
E_FrameEntry(label) == [k |-> "fun", formals |-> <<>>, result |-> NULL, label |-> label]

EnterAt(s, name, type, access, site) ==
  EnterVar(Allocated(s), name, E_VarEntry(type, access, s.made), site)

\* Labels of the routines every program carries; the first has the first serial number.
PrintInt       == 0
AllocateRecord == -1
AllocateArray  == -2

\* A frame of s has a new local at "access".
AllocLocal(s) ==
  LET new == F_allocLocal(s.frame) IN [s |-> [s EXCEPT !.frame = new.frame], access |-> new.access]

-----------------------------------------------------------------------------
RECURSIVE IR_transExp(_, _), IR_transVarExp(_, _)

\* The trees of es, translated from first to last, in a list that has the last one first.
TransList(es, s) ==
  Thread(LAMBDA acc, e : LET r == IR_transExp(e, acc.s) IN [ts |-> <<r.t>> \o acc.ts, s |-> r.s],
         [ts |-> <<>>, s |-> s], es)

(***************************************************************************)
(* The initialiser is analysed a second time, with the entries of IR.c in  *)
(* the place of types; what that looks up is no part of the history.       *)
(***************************************************************************)
TypeOfInit(e, s) == Once(SEM_transExp(e, s), LAMBDA r : Result(r.v, [r.s EXCEPT !.uses = s.uses]))

\* Translate e as a part of the declaration d.
TransWithin(d, e, s) ==
  Once(IR_transExp(e, [s EXCEPT !.inside = Append(@, d)]), LAMBDA r :
    [t |-> r.t, s |-> [r.s EXCEPT !.inside = s.inside]])

\* The variable is entered before its initialiser is translated, and used after it (the
\* compilers for this machine evaluate arguments from the last to the first).
IR_transVarDecInit(d, s) ==
  LET new == AllocLocal(s)
      entered == Once(TypeOfInit(d.subs[1], new.s), LAMBDA typed :
                   EnterAt(typed.s, d.name, typed.v, new.access, d))
  IN  Once(TransWithin(d, d.subs[1], entered), LAMBDA init :
        [t |-> T_Move(F_Exp(new.access), init.t), s |-> Using({FP}, init.s)])

IR_transVarDecNoInit(d, s) ==
  LET new == AllocLocal(s)
  IN  [t |-> NULL, s |-> EnterAt(new.s, d.name, S_look(s.tenv, d.typ), new.access, d)]

\* No checks: a type that is unknown is NULL. The list of fields has the last one first.
IR_transTypeDec(d, s) ==
  LET ty == CASE d.ty.k = "name"   -> S_look(s.tenv, d.ty.of)
              [] d.ty.k = "array"  -> Ty_Array(S_look(s.tenv, d.ty.of), s.made)
              [] d.ty.k = "record" ->
                   Ty_Record(Reverse([q \in DOMAIN d.ty.fields |->
                                        <<d.ty.fields[q][1], S_look(s.tenv, d.ty.fields[q][2])>>]), s.made)
  IN  [t |-> NULL, s |-> EnterType(Allocated(s), d.name, ty)]

Push(t) == T_Seq(T_Move(T_Temp(SP), Minus(T_Temp(SP), F_wordSize)), T_Move(T_Mem(T_Temp(SP)), T_Temp(t)))

\* Mutant: the address of the top of the stack, not what is there.
PopAddress(t) == T_Seq(T_Move(T_Temp(t), T_Temp(SP)), T_Move(T_Temp(SP), Plus(T_Temp(SP), F_wordSize)))
Pop(t) == T_Seq(T_Move(T_Temp(t), T_Mem(T_Temp(SP))), T_Move(T_Temp(SP), Plus(T_Temp(SP), F_wordSize)))

Prologue(frame) ==
  Sequence(<<Push(RA), Push(FP), T_Move(T_Temp(FP), T_Temp(SP)),
             T_Move(T_Temp(SP), Minus(T_Temp(SP), size(frame)))>>)

\* Mutant: the locals stay on the stack.
EpilogueWithLocals == Sequence(<<Pop(FP), Pop(RA), T_JumpRegister(RA)>>)
Epilogue == Sequence(<<T_Move(T_Temp(SP), T_Temp(FP)), Pop(FP), Pop(RA), T_JumpRegister(RA)>>)

(***************************************************************************)
(* The function is visible in its own body; the frame has its size when    *)
(* the body is translated; the code stands where the declaration stands    *)
(* and is jumped over.                                                     *)
(***************************************************************************)
IR_transFuncDec(d, s) ==
  LET skip     == s.labels
      label    == s.labels + 1
      counted  == newlabel(newlabel(newtemp(Using({SP, FP, RA}, s))))
      frame    == F_newFrame(Len(d.params))
      declared == EnterVar(counted, d.name, E_FrameEntry(label), d)
      opened   == [Open(declared) EXCEPT !.frame = frame]
      inside   == Thread(LAMBDA acc, q :
                           EnterAt(acc, d.params[q][1], S_look(acc.tenv, d.params[q][2]), frame.formals[q],
                                   [d EXCEPT !.k = "parameter"]),
                         opened, [q \in DOMAIN d.params |-> q])
      body     == TransWithin(d, d.subs[1], inside)
  IN  [t |-> Sequence(<<T_JumpLabel(skip),
                        T_Function(Prologue(body.s.frame), body.t, Epilogue, label),
                        T_Label(skip)>>),
       s |-> [Close(body.s) EXCEPT !.frame = s.frame]]

TransDec(d, s) ==
  CASE d.k = "var" /\ d.subs # <<>> -> IR_transVarDecInit(d, s)
    [] d.k = "var" /\ d.subs = <<>> -> IR_transVarDecNoInit(d, s)
    [] d.k = "type"                 -> IR_transTypeDec(d, s)
    [] d.k = "function"             -> IR_transFuncDec(d, s)

\* The list T_Seq(d1, T_Seq(d2, ... NULL)), with the state behind it.
RECURSIVE IR_transDecs(_, _)
IR_transDecs(decs, s) ==
  IF decs = <<>> THEN [t |-> NULL, s |-> s]
  ELSE Once(TransDec(decs[1], s), LAMBDA first :
         Once(IR_transDecs(Tail(decs), first.s), LAMBDA rest :
           [t |-> T_Seq(first.t, rest.t), s |-> rest.s]))

IR_transSeqExp(e, s) ==
  Thread(LAMBDA acc, x : LET r == IR_transExp(x, acc.s) IN [t |-> T_Seq(acc.t, r.t), s |-> r.s],
         [t |-> NULL, s |-> s], e.subs)

\* Mutant: the scope of the variables stays open.
IR_transLetExpOpen(e, s) ==
  Once(IR_transDecs(e.decs, [Open(s) EXCEPT !.tenv = S_beginScope(@)]), LAMBDA decs :
    Once(IR_transExp(e.subs[1], decs.s), LAMBDA body :
      [t |-> T_Seq(decs.t, body.t), s |-> [body.s EXCEPT !.tenv = S_endScope(@)]]))

IR_transLetExp(e, s) ==
  Once(IR_transDecs(e.decs, [Open(s) EXCEPT !.tenv = S_beginScope(@)]), LAMBDA decs :
    Once(IR_transExp(e.subs[1], decs.s), LAMBDA body :
      [t |-> T_Seq(decs.t, body.t), s |-> [Close(body.s) EXCEPT !.tenv = S_endScope(@)]]))

\* temp and the three labels are taken first, for arithmetic as well.
IR_transOpExp(e, s) ==
  LET T     == s.labels
      F     == s.labels + 1
      END   == s.labels + 2
      temp  == T_Temp(s.temps)
      op    == IRBinop[e.oper]
      left  == IR_transExp(e.subs[1], newlabel(newlabel(newlabel(newtemp(s)))))
      right == IR_transExp(e.subs[2], left.s)
      Set(label, n) == T_Seq(T_Label(label), T_Seq(T_Move(temp, T_Const(n)), T_JumpLabel(END)))
      relation ==
        T_Seq(T_Seq(T_Cjump(op, left.t, right.t, T, F), T_Seq(Set(T, 1), Set(F, 0))),
              T_Seq(T_Label(END), temp))
  IN  [t |-> IF op \in Relations THEN relation ELSE T_Binop(op, left.t, right.t), s |-> right.s]

\* A frame in the place of an access: some offset.
OffsetOf(entry) == IF entry.k = "var" THEN entry.access ELSE 0

IR_transSimpleVar(v, s) ==
  LET entry == S_look(s.venv, v.name)
      used  == LogUse(s, v.name)
  IN  IF entry = NULL THEN [t |-> NULL, type |-> NULL, s |-> Crash(used)]
      ELSE [t    |-> F_Exp(OffsetOf(entry)),
            type |-> IF entry.k = "var" THEN entry.type ELSE NULL,
            s    |-> Using({FP}, [used EXCEPT !.undetermined = @ \/ entry.k # "var"])]

\* The offset of a field is its place in the reversed list; the end of the list has no type.
IR_transFieldVar(v, base) ==
  LET fields == IF base.type.k = "record" THEN base.type.fields ELSE <<>>
      place  == SelectInSeq(fields, LAMBDA f : f[1] = v.name)
  IN  IF place = 0 THEN [t |-> NULL, type |-> NULL, s |-> Crash(base.s)]
      ELSE [t    |-> T_Mem(Plus(base.t, (place - 1) * F_wordSize)),
            type |-> fields[place][2], s |-> base.s]

IR_transSubscriptVar(v, base) ==
  LET index == IR_transExp(v.subs[2], base.s)
  IN  IF base.type = NULL THEN [t |-> NULL, type |-> NULL, s |-> Crash(index.s)]
      ELSE [t    |-> T_Mem(T_Binop("plus", T_Binop("mul", index.t, T_Const(F_wordSize)), base.t)),
            type |-> IF base.type.k = "array" THEN base.type.of ELSE NULL, s |-> index.s]

\* Returns the type as well.
IR_transVarExp(v, s) ==
  CASE s.crashed           -> [t |-> NULL, type |-> NULL, s |-> s]
    [] v.k = "simple"      -> IR_transSimpleVar(v, s)
    [] v.k = "field"       -> IR_transFieldVar(v, IR_transVarExp(v.subs[1], s))
    [] v.k = "subscript"   -> IR_transSubscriptVar(v, IR_transVarExp(v.subs[1], s))

\* The expression is translated before the variable.
IR_transAssignExp(e, s) ==
  LET r == IR_transExp(e.subs[2], s)
      v == IR_transVarExp(e.subs[1], r.s)
  IN  [t |-> T_Move(v.t, r.t), s |-> v.s]

(***************************************************************************)
(* Both bounds are translated twice, and one copy of each is dropped. The  *)
(* variable is entered into the scope the loop stands in. The analysis has *)
(* not seen the loop: what is looked up in it is no part of the history.   *)
(***************************************************************************)
IR_transForExp(e, s) ==
  LET loop     == s.labels
      exitLoop == s.labels + 1
      forCheck == s.labels + 2
      new      == AllocLocal(newlabel(newlabel(newlabel(s))))
      low      == IR_transExp(e.subs[1], EnterAt(new.s, e.name, NULL, new.access, e))
      low_     == IR_transExp(e.subs[1], low.s)
      high     == IR_transExp(e.subs[2], low_.s)
      high_    == IR_transExp(e.subs[2], high.s)
      body     == IR_transExp(e.subs[3], high_.s)
      variable == F_Exp(new.access)
  IN  [t |-> T_Seq(Sequence(<<T_Move(variable, low.t), T_Label(forCheck),
                              T_Cjump("le", variable, high.t, loop, exitLoop), T_Label(loop),
                              body.t, T_Move(variable, Plus(variable, 1)), T_JumpLabel(forCheck)>>),
                   T_Label(exitLoop)),
       s |-> Using({FP}, [body.s EXCEPT !.uses = s.uses])]

IR_transIfExp(e, s) ==
  LET taken == s.labels
      not   == s.labels + 1
      test  == IR_transExp(e.subs[1], newlabel(newlabel(s)))
      then  == IR_transExp(e.subs[2], test.s)
  IN  [t |-> T_Seq(T_Seq(T_Cjump("ne", test.t, T_Const(0), taken, not),
                         T_Seq(T_Label(taken), then.t)),
                   T_Label(not)),
       s |-> then.s]

\* The label of a variable's access, which is no frame, is anything.
IR_transCallExp(e, s) ==
  LET entry == S_look(s.venv, e.name)
      used  == LogUse(s, e.name)
      args  == TransList(e.subs, [used EXCEPT !.undetermined = @ \/ entry.k # "fun"])
  IN  IF entry = NULL THEN [t |-> NULL, s |-> Crash(used)]
      ELSE [t |-> T_Call(IF entry.k = "fun" THEN entry.label ELSE PrintInt, args.ts), s |-> args.s]

\* The size in bytes is the last argument, behind the initialisers, which the analysis has not seen.
IR_transAllocteRecordExp(e, s) ==
  LET inits == TransList(e.subs, s)
  IN  [t |-> T_Call(AllocateRecord, Append(inits.ts, T_Const(Len(e.subs) * 4))),
       s |-> [inits.s EXCEPT !.uses = s.uses]]

IR_transAllocteArrayExp(e, s) ==
  [t |-> T_Call(AllocateArray, Append([q \in 1 .. e.len |-> T_Const(e.n)], T_Const(e.len * 4))), s |-> s]

\* Of a floating number the bits are taken for an integer; a string falls off the end.
IR_transExp(e, s) ==
  CASE s.crashed      -> [t |-> NULL, s |-> s]
    [] e.k \in {"int", "float"} -> [t |-> T_Const(e.n), s |-> s]
    [] e.k = "string" -> [t |-> NULL, s |-> [s EXCEPT !.undetermined = TRUE]]
    [] e.k = "op"     -> IR_transOpExp(e, s)
    [] e.k = "if"     -> IR_transIfExp(e, s)
    [] e.k = "for"    -> IR_transForExp(e, s)
    [] e.k = "let"    -> IR_transLetExp(e, s)
    [] e.k = "seq"    -> IR_transSeqExp(e, s)
    [] e.k \in {"simple", "field", "subscript"} ->
         LET v == IR_transVarExp(e, s) IN [t |-> v.t, s |-> v.s]
    [] e.k = "call"   -> IR_transCallExp(e, s)
    [] e.k = "assign" -> IR_transAssignExp(e, s)
    [] e.k = "array"  -> IR_transAllocteArrayExp(e, s)
    [] e.k = "record" -> IR_transAllocteRecordExp(e, s)

\* Labels 0 to 3 go to the printing functions and to main.
BaseFrames == S_enter(S_empty, "PrintInt", E_FrameEntry(PrintInt))

IR_transProg(program, junk) ==
  IR_transExp(program,
    Fresh(BaseFrames, junk) @@ [frame |-> F_newFrame(0), labels |-> 4, temps |-> firstTemp, named |-> {}])
=============================================================================
