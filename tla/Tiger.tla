------------------------------- MODULE Tiger -------------------------------
(***************************************************************************)
(* The source language: the nodes the parser builds (absyn.c), and what a  *)
(* program prints, told by recursion over its tree. Every node has its     *)
(* sub-expressions in "subs", in the order of the text.                    *)
(***************************************************************************)
EXTENDS Integers, Sequences, SequencesExt, Bitwise, Threaded

IntExp(n)                   == [k |-> "int", n |-> n, subs |-> <<>>]
FloatExp(bits)              == [k |-> "float", n |-> bits, subs |-> <<>>]
StringExp                   == [k |-> "string", subs |-> <<>>]
SimpleVar(x)                == [k |-> "simple", name |-> x, subs |-> <<>>]
FieldVar(v, f)              == [k |-> "field", name |-> f, subs |-> <<v>>]
SubscriptVar(v, e)          == [k |-> "subscript", subs |-> <<v, e>>]
CallExp(f, args)            == [k |-> "call", name |-> f, subs |-> args]
OpExp(oper, l, r)           == [k |-> "op", oper |-> oper, subs |-> <<l, r>>]
SeqExp(es)                  == [k |-> "seq", subs |-> es]
AssignExp(v, e)             == [k |-> "assign", subs |-> <<v, e>>]
IfExp(test, e)              == [k |-> "if", subs |-> <<test, e>>]
ForExp(x, lo, hi, body)     == [k |-> "for", name |-> x, subs |-> <<lo, hi, body>>]
LetExp(decs, body)          == [k |-> "let", decs |-> decs, subs |-> <<body>>]
AllocateRecordExp(t, es)    == [k |-> "record", name |-> t, subs |-> es]
AllocateArrayExp(t, len, n) == [k |-> "array", name |-> t, len |-> len, n |-> n, subs |-> <<>>]

\* A declaration without a type or a result type has "" for it. Parameters and fields are pairs <<name, name of the type>>.
VarDec(x, typ, init)        == [k |-> "var", name |-> x, typ |-> typ, subs |-> init]
FunctionDec(f, params, result, e) ==
  [k |-> "function", name |-> f, params |-> params, result |-> result, subs |-> <<e>>]
TypeDec(t, ty)              == [k |-> "type", name |-> t, ty |-> ty, subs |-> <<>>]
NameTy(t)                   == [k |-> "name", of |-> t]
ArrayTy(t)                  == [k |-> "array", of |-> t]
RecordTy(fields)            == [k |-> "record", fields |-> fields]

-----------------------------------------------------------------------------
(***************************************************************************)
(* The meaning. A store s has the objects made so far and the numbers      *)
(* printed; an object is a function from keys to values: a variable has    *)
(* the key "value", a record its fields, an array its indices. A place is  *)
(* an object with a key. env takes a variable to its object, a function to *)
(* its definition, a record type to its fields. Arguments and initialisers *)
(* are evaluated from the last to the first, the upper bound of a loop     *)
(* before every round, as the translation has it.                          *)
(***************************************************************************)
Apply(oper, a, b) ==
  LET Truth(holds) == IF holds THEN 1 ELSE 0
  IN  CASE oper = "plusOp"   -> a + b
        [] oper = "minusOp"  -> a - b
        [] oper = "timesOp"  -> a * b
        [] oper = "divideOp" -> a \div b
        [] oper = "andOp"    -> a & b
        [] oper = "orOp"     -> a | b
        [] oper = "eqOp"     -> Truth(a = b)
        [] oper = "neqOp"    -> Truth(a # b)
        [] oper = "ltOp"     -> Truth(a < b)
        [] oper = "leOp"     -> Truth(a <= b)
        [] oper = "gtOp"     -> Truth(a > b)
        [] oper = "geOp"     -> Truth(a >= b)

Void == 0

Make(s, object)    == [s EXCEPT !.objects = Append(@, object)]
Newest(s)          == Len(s.objects)
ValueAt(s, p)      == s.objects[p[1]][p[2]]
Put(s, p, v)       == [s EXCEPT !.objects[p[1]][p[2]] = v]
With(env, name, d) == (name :> d) @@ env

RECURSIVE Eval(_, _, _), Declare(_, _, _)

\* The values of es, and the store behind them all.
EvalAll(es, env, s) ==
  Thread(LAMBDA acc, e : LET r == Eval(e, env, acc.s) IN [vs |-> <<r.v>> \o acc.vs, s |-> r.s],
         [vs |-> <<>>, s |-> s], Reverse(es))

Place(e, env, s) ==
  LET base  == Eval(e.subs[1], env, s)
      index == Eval(e.subs[2], env, base.s)
  IN  CASE e.k = "simple"    -> [p |-> <<env[e.name], "value">>, s |-> s]
        [] e.k = "field"     -> [p |-> <<base.v, e.name>>, s |-> base.s]
        [] e.k = "subscript" -> [p |-> <<base.v, index.v>>, s |-> index.s]

EvalCall(e, env, s) ==
  LET args   == EvalAll(e.subs, env, s)
      f      == env[e.name]
      params == [q \in DOMAIN f.params |-> f.params[q][1]]
      cells  == [q \in DOMAIN args.vs |-> [value |-> args.vs[q]]]
      inside == [args.s EXCEPT !.objects = @ \o cells]
      inner  == Thread(LAMBDA acc, q : With(acc, params[q], Newest(args.s) + q),
                       With(f.env, e.name, f), [q \in DOMAIN params |-> q])
  IN  IF e.name = "PrintInt"
      THEN [v |-> Void, s |-> [args.s EXCEPT !.out = Append(@, args.vs[1])]]
      ELSE Eval(f.body, inner, inside)

RECURSIVE Rounds(_, _, _)
Rounds(e, env, s) ==
  LET hi    == Eval(e.subs[2], env, s)
      place == <<env[e.name], "value">>
      after == Eval(e.subs[3], env, hi.s).s
  IN  IF ValueAt(hi.s, place) > hi.v THEN hi.s
      ELSE Rounds(e, env, Put(after, place, ValueAt(after, place) + 1))

EvalFor(e, env, s) ==
  LET lo  == Eval(e.subs[1], env, s)
      new == Make(lo.s, [value |-> lo.v])
  IN  [v |-> Void, s |-> Rounds(e, With(env, e.name, Newest(new)), new)]

Eval(e, env, s) ==
  CASE e.k = "int" -> [v |-> e.n, s |-> s]
    [] e.k \in {"simple", "field", "subscript"} ->
         LET at == Place(e, env, s) IN [v |-> ValueAt(at.s, at.p), s |-> at.s]
    [] e.k = "call" -> EvalCall(e, env, s)
    [] e.k = "op" ->
         LET l == Eval(e.subs[1], env, s)
             r == Eval(e.subs[2], env, l.s)
         IN  [v |-> Apply(e.oper, l.v, r.v), s |-> r.s]
    [] e.k = "seq" -> Thread(LAMBDA acc, x : Eval(x, env, acc.s), [v |-> Void, s |-> s], e.subs)
    [] e.k = "assign" ->
         LET at == Place(e.subs[1], env, s)
             r  == Eval(e.subs[2], env, at.s)
         IN  [v |-> Void, s |-> Put(r.s, at.p, r.v)]
    [] e.k = "if" ->
         LET test == Eval(e.subs[1], env, s)
         IN  [v |-> Void, s |-> IF test.v # 0 THEN Eval(e.subs[2], env, test.s).s ELSE test.s]
    [] e.k = "for" -> EvalFor(e, env, s)
    [] e.k = "let" ->
         LET ds == Thread(LAMBDA acc, d : Declare(d, acc.env, acc.s), [env |-> env, s |-> s], e.decs)
         IN  Eval(e.subs[1], ds.env, ds.s)
    [] e.k = "record" ->
         LET inits  == EvalAll(e.subs, env, s)
             fields == env[e.name]
             object == [f \in {fields[q][1] : q \in DOMAIN fields} |->
                          inits.vs[CHOOSE q \in DOMAIN fields : fields[q][1] = f]]
             new    == Make(inits.s, object)
         IN  [v |-> Newest(new), s |-> new]
    [] e.k = "array" ->
         LET new == Make(s, [q \in 0 .. e.len - 1 |-> e.n]) IN [v |-> Newest(new), s |-> new]

Declare(d, env, s) ==
  CASE d.k = "var" ->
         LET init == IF d.subs = <<>> THEN [v |-> Void, s |-> s] ELSE Eval(d.subs[1], env, s)
             new  == Make(init.s, [value |-> init.v])
         IN  [env |-> With(env, d.name, Newest(new)), s |-> new]
    [] d.k = "function" ->
         [env |-> With(env, d.name, [params |-> d.params, body |-> d.subs[1], env |-> env]), s |-> s]
    [] d.k = "type" ->
         LET known == CASE d.ty.k = "record" -> With(env, d.name, d.ty.fields)
                        [] d.ty.k = "name"   -> With(env, d.name, env[d.ty.of])
                        [] OTHER             -> env
         IN  [env |-> known, s |-> s]

\* What a program prints.
Meaning(program) ==
  Eval(program, "PrintInt" :> [params |-> <<>>], [objects |-> <<>>, out |-> <<>>]).s.out
=============================================================================
