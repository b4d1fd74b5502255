------------------------------- MODULE Semant -------------------------------
(***************************************************************************)
(* semant.c with types.c and env.c: the checks of names and types. Every   *)
(* function takes the state s of the analysis; those for expressions       *)
(* return the new one with the type v of the expression. IR.c calls        *)
(* SEM_transExp too, with environments of its own.                         *)
(*                                                                         *)
(* A state has                                                             *)
(*   venv, tenv   the environments                                         *)
(*   made         what has been allocated: a pointer's identity            *)
(*   message      a message was given                                      *)
(*   crashed      a null pointer was followed: nothing happens any more    *)
(*   junk         what a function returns that falls off its end           *)
(*   undetermined such a value was returned                                *)
(* and as history                                                          *)
(*   sites        for every name in venv the declaration it comes from     *)
(*   inside       declarations that are being translated                   *)
(*   uses         for every name looked up in venv: name, site and inside  *)
(*   refused      record declarations refused so far                       *)
(***************************************************************************)
EXTENDS Naturals, Env, Threaded

NoType == ""        \* a declaration that names no type

Ty_Int    == [k |-> "int"]
Ty_Float  == [k |-> "float"]
Ty_String == [k |-> "string"]
Ty_Nil    == [k |-> "nil"]
Wild      == [k |-> "wild"]       \* a pointer to nothing in particular
Dummy     == [k |-> "dummy"]      \* what stands for the name of a field

Ty_Record(fields, id)             == [k |-> "record", fields |-> fields, id |-> id]
Ty_Array(ty, id)                  == [k |-> "array", of |-> ty, id |-> id]
E_FunEntry(formals, result, id)   == [k |-> "fun", formals |-> formals, result |-> result, id |-> id]

(***************************************************************************)
(* Types and entries are told apart by the number in their first word, and *)
(* share venv: Ty_record is E_varEntry is 0, Ty_nil is E_funEntry is 1.    *)
(***************************************************************************)
IsRecord(p)   == p.k \in {"record", "var"}
IsFunction(p) == p.k \in {"fun", "nil"}

\* Past the crash nothing is said.
Say(s)   == IF s.crashed THEN s ELSE [s EXCEPT !.message = TRUE]
Crash(s) == [s EXCEPT !.crashed = TRUE]

SayIf(condition, s) == IF condition THEN Say(s) ELSE s

Result(v, s) == [v |-> v, s |-> s]
FallOff(s)  == Result(s.junk, [s EXCEPT !.undetermined = TRUE])

Allocated(s) == [s EXCEPT !.made = @ + 1]

EnterVar(s, name, value, site) ==
  [s EXCEPT !.venv = S_enter(@, name, value), !.sites = S_enter(@, name, site)]

EnterType(s, name, ty) == [s EXCEPT !.tenv = S_enter(@, name, ty)]

LogUse(s, name) ==
  [s EXCEPT !.uses = Append(@, [name |-> name, site |-> S_look(s.sites, name), inside |-> s.inside])]

Open(s)  == [s EXCEPT !.venv = S_beginScope(@), !.sites = S_beginScope(@)]
Close(s) == [s EXCEPT !.venv = S_endScope(@), !.sites = S_endScope(@)]

-----------------------------------------------------------------------------
RECURSIVE SEM_transExp(_, _)

\* Translate e as a part of the declaration d.
Within(d, e, s) ==
  LET r == SEM_transExp(e, [s EXCEPT !.inside = Append(@, d)])
  IN  Result(r.v, [r.s EXCEPT !.inside = s.inside])

\* A variable of an unknown type is not entered; one of the wrong type is.
SEM_transVarDecInit(d, s) ==
  LET init     == Within(d, d.subs[1], s)
      declared == S_look(init.s.tenv, d.typ)
  IN  IF d.typ # NoType /\ declared = NULL THEN Say(init.s)
      ELSE EnterVar(SayIf(d.typ # NoType /\ init.v # declared, init.s), d.name, init.v, d)

\* The parser gives every variable without an initialiser a type.
SEM_transVarDecNoInit(d, s) ==
  LET ty == S_look(s.tenv, d.typ)
  IN  IF ty = NULL THEN Say(s) ELSE EnterVar(s, d.name, ty, d)

SEM_transNameTypeDec(d, s) ==
  LET ty == S_look(s.tenv, d.ty.of)
  IN  IF ty = NULL THEN Say(s) ELSE EnterType(s, d.name, ty)

SEM_transArrayTypeDec(d, s) ==
  LET ty == S_look(s.tenv, d.ty.of)
  IN  IF ty = NULL THEN Say(s) ELSE EnterType(Allocated(s), d.name, Ty_Array(ty, s.made))

(***************************************************************************)
(* The names of the fields are entered into a scope of tenv that is opened *)
(* for them, where types are looked up as well; a refusal leaves it open.  *)
(***************************************************************************)
SEM_transRecordTypeDec(d, s) ==
  LET fields  == d.ty.fields
      opened  == [s EXCEPT !.tenv = S_beginScope(@)]
      Refuses(acc, f) == S_look(acc.tenv, f[2]) = NULL \/ S_look(acc.tenv, f[1]) # NULL
      scanned == Thread(LAMBDA acc, f :
                          IF acc.refused > s.refused THEN acc
                          ELSE IF Refuses(acc, f) THEN Say([acc EXCEPT !.refused = @ + 1])
                          ELSE EnterType(acc, f[1], Dummy),
                        opened, fields)
      typed   == Reverse([q \in DOMAIN fields |-> <<fields[q][1], S_look(s.tenv, fields[q][2])>>])
  IN  IF scanned.refused > s.refused THEN scanned
      ELSE EnterType(Allocated(s), d.name, Ty_Record(typed, s.made))

SEM_transTypeDec(d, s) ==
  IF S_look(s.tenv, d.name) # NULL THEN Say(s)
  ELSE CASE d.ty.k = "name"   -> SEM_transNameTypeDec(d, s)
         [] d.ty.k = "array"  -> SEM_transArrayTypeDec(d, s)
         [] d.ty.k = "record" -> SEM_transRecordTypeDec(d, s)

(***************************************************************************)
(* Parameters are entered into the scope the declaration stands in, the    *)
(* function behind its body, with the type the body has.                   *)
(***************************************************************************)
SEM_transFuncDec(d, s) ==
  LET TypeOf(f) == S_look(s.tenv, f[2])
      result  == S_look(s.tenv, d.result)
      types   == [q \in DOMAIN d.params |-> TypeOf(d.params[q])]
      checked == SayIf((d.result # NoType /\ result = NULL) \/ NULL \in {types[q] : q \in DOMAIN types}, s)
      bound   == Thread(LAMBDA acc, f : EnterVar(acc, f[1], TypeOf(f), [d EXCEPT !.k = "parameter"]),
                        checked, d.params)
      body    == Within(d, d.subs[1], bound)
      told    == SayIf(d.result # NoType /\ result # body.v, body.s)
  IN  EnterVar(Allocated(told), d.name, E_FunEntry(types, body.v, told.made), d)

SEM_transDec(s, d) ==
  CASE d.k = "var" /\ d.subs # <<>> -> SEM_transVarDecInit(d, s)
    [] d.k = "var" /\ d.subs = <<>> -> SEM_transVarDecNoInit(d, s)
    [] d.k = "type"                 -> SEM_transTypeDec(d, s)
    [] d.k = "function"             -> SEM_transFuncDec(d, s)

SEM_transDecs(decs, s) ==
  Thread(LAMBDA acc, d : IF acc.crashed THEN acc ELSE SEM_transDec(acc, d), s, decs)

SEM_transSeqExp(e, s) == Thread(LAMBDA acc, x : SEM_transExp(x, acc.s), Result(NULL, s), e.subs)

\* Mutant: the variables of the scope stay visible.
SEM_transLetExpOpen(e, s) ==
  SEM_transExp(e.subs[1], SEM_transDecs(e.decs, s))

SEM_transLetExp(e, s) ==
  LET opened == [Open(s) EXCEPT !.tenv = S_beginScope(@)]
      body   == SEM_transExp(e.subs[1], SEM_transDecs(e.decs, opened))
  IN  Result(body.v, [Close(body.s) EXCEPT !.tenv = S_endScope(@)])

-----------------------------------------------------------------------------
Numbers == {Ty_Int, Ty_Float}

\* What the comparisons at the end of TypeCheck let through.
Comparable(left, right) == {left, right} \subseteq Numbers \/ (left = Ty_String /\ right = Ty_String)

(***************************************************************************)
(* Equality looks at the kinds of its operands, pointers or not; two that  *)
(* do not fit fall through to the comparisons and off the end, in silence. *)
(***************************************************************************)
TypeCheckEquality(left, right, s) ==
  CASE Comparable(left, right)               -> Result(Ty_Int, s)
    [] left = NULL                           -> Result(NULL, Crash(s))
    [] IsRecord(left) /\ right = NULL        -> Result(NULL, Crash(s))
    [] IsRecord(left) /\ IsRecord(right)     -> Result(Ty_Int, s)
    [] OTHER                                 -> FallOff(s)

TypeCheckOrder(left, right, s) ==
  IF Comparable(left, right) THEN Result(Ty_Int, s) ELSE FallOff(s)

TypeCheckLogic(left, right, s) ==
  IF {left, right} = {Ty_Int} THEN Result(Ty_Int, s) ELSE Result(left, Say(s))

TypeCheckArithmetic(left, right, s) ==
  CASE {left, right} = {Ty_Int}           -> Result(Ty_Int, s)
    [] {left, right} \in {Numbers, {Ty_Float}} -> Result(Ty_Float, s)
    [] OTHER                              -> Result(left, Say(s))

TypeCheck(left, right, oper, s) ==
  CASE oper \in {"andOp", "orOp"}                            -> TypeCheckLogic(left, right, s)
    [] oper \in {"plusOp", "minusOp", "timesOp", "divideOp"} -> TypeCheckArithmetic(left, right, s)
    [] oper \in {"eqOp", "neqOp"}                            -> TypeCheckEquality(left, right, s)
    [] oper \in {"ltOp", "leOp", "gtOp", "geOp"}             -> TypeCheckOrder(left, right, s)

SEM_transOpExp(e, s) ==
  LET left  == SEM_transExp(e.subs[1], s)
      right == SEM_transExp(e.subs[2], left.s)
  IN  IF right.s.crashed THEN right ELSE TypeCheck(left.v, right.v, e.oper, right.s)

\* Mutant: no message for a variable that is not there.
SEM_transVarExpSilently(e, s) ==
  IF e.k # "simple" THEN FallOff(s) ELSE Result(S_look(s.venv, e.name), LogUse(s, e.name))

\* Fields and subscripts are still to be done.
SEM_transVarExp(e, s) ==
  IF e.k # "simple" THEN FallOff(s)
  ELSE LET v == S_look(s.venv, e.name)
       IN  IF v = NULL THEN Result(NULL, Say(LogUse(s, e.name))) ELSE Result(v, LogUse(s, e.name))

SEM_transAssignExp(e, s) ==
  LET value == SEM_transExp(e.subs[2], s)
      var   == SEM_transVarExp(e.subs[1], value.s)
  IN  IF value.s.crashed THEN value ELSE Result(value.v, SayIf(value.v # var.v, var.s))

\* The expression behind "then" is left alone when the test is not an integer.
SEM_transIfExp(e, s) ==
  LET test == SEM_transExp(e.subs[1], s)
  IN  IF test.v # Ty_Int THEN Result(NULL, Say(test.s)) ELSE SEM_transExp(e.subs[2], test.s)

\* Mutant: no message when a list has come to its end.
TransArgumentSilently(s, e, formals, q) ==
  CASE s.crashed          -> s
    [] q > Len(e.subs)    -> Crash(s)
    [] q > Len(formals)   -> Crash(SEM_transExp(e.subs[q], s).s)
    [] OTHER              -> SEM_transExp(e.subs[q], s).s

(***************************************************************************)
(* One argument after the other, against one formal after the other: when  *)
(* only one of the lists has come to its end there is a message, and then  *)
(* the end of the list is taken for an element.                            *)
(***************************************************************************)
TransArgument(s, e, formals, q) ==
  LET missing == SayIf(q > Len(e.subs) \/ q > Len(formals), s)
      arg     == SEM_transExp(e.subs[q], missing)
  IN  CASE s.crashed          -> s
        [] q > Len(e.subs)    -> Crash(missing)
        [] q > Len(formals)   -> Crash(arg.s)
        [] OTHER              -> SayIf(arg.v # formals[q], arg.s)

Longer(m, n) == IF m > n THEN m ELSE n

\* A variable whose type is Ty_nil passes for a function; its formals are zero.
SEM_transCallExp(e, s) ==
  LET entry   == S_look(s.venv, e.name)
      formals == IF entry.k = "fun" THEN entry.formals ELSE <<>>
      checked == Thread(LAMBDA acc, q : TransArgument(acc, e, formals, q), LogUse(s, e.name),
                        [q \in 1 .. Longer(Len(e.subs), Len(formals)) |-> q])
  IN  CASE ~IsFunction(entry)  -> Result(NULL, Say(LogUse(s, e.name)))
        [] entry.k = "fun"     -> Result(entry.result, checked)
        [] entry.k = "nil"     -> FallOff(checked)

\* The initial values are not looked at.
SEM_transAllocateExp(e, s) ==
  LET ty == S_look(s.tenv, e.name) IN IF ty = NULL THEN Result(NULL, Say(s)) ELSE Result(ty, s)

\* A loop is still to be done; a string has no case, nor has it in IR.c.
SEM_transExp(e, s) ==
  CASE s.crashed                    -> Result(NULL, s)
    [] e.k = "int"                  -> Result(Ty_Int, s)
    [] e.k = "float"                -> Result(Ty_Float, s)
    [] e.k = "string"               -> FallOff(s)
    [] e.k = "for"                  -> Result(NULL, s)
    [] e.k = "op"                   -> SEM_transOpExp(e, s)
    [] e.k = "if"                   -> SEM_transIfExp(e, s)
    [] e.k = "let"                  -> SEM_transLetExp(e, s)
    [] e.k = "seq"                  -> SEM_transSeqExp(e, s)
    [] e.k = "call"                 -> SEM_transCallExp(e, s)
    [] e.k = "assign"               -> SEM_transAssignExp(e, s)
    [] e.k \in {"simple", "field", "subscript"} -> SEM_transVarExp(e, s)
    [] e.k \in {"array", "record"}  -> SEM_transAllocateExp(e, s)

-----------------------------------------------------------------------------
\* The part of a state that does not depend on the pass.
Fresh(venv, junk) ==
  [venv |-> venv,
   tenv |-> S_enter(S_enter(S_enter(S_empty, "int", Ty_Int), "float", Ty_Float), "string", Ty_String),
   made |-> 1, message |-> FALSE, crashed |-> FALSE, junk |-> junk, undetermined |-> FALSE,
   sites |-> <<[name \in DOMAIN venv[1] |-> NULL]>>, inside |-> <<>>, uses |-> <<>>, refused |-> 0]

\* Of the three functions that print, one.
BaseVariables == S_enter(S_empty, "PrintInt", E_FunEntry(<<Ty_Int>>, Ty_Nil, 0))

SEM_transProg(program, junk) == SEM_transExp(program, Fresh(BaseVariables, junk)).s
=============================================================================
