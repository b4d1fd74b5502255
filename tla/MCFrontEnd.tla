----------------------------- MODULE MCFrontEnd -----------------------------
(***************************************************************************)
(* Model checking of FrontEnd: every two declarations of variables,        *)
(* functions and types, the second one with the name of the first or with  *)
(* another one, with initialisers and bodies that declare something of     *)
(* their own, and every use of the names.                                  *)
(***************************************************************************)
EXTENDS FrontEnd

A == SimpleVar("a")
B == SimpleVar("b")
One == IntExp(1)
Call(x, args) == CallExp(x, args)

Uses == {One, A, B, Call("a", <<>>), Call("b", <<>>), Call("a", <<One>>), Call("b", <<A>>)}
Few  == {A, Call("a", <<One>>), Call("b", <<>>)}

Records ==
  {RecordTy(fields) : fields \in {<<<<"a", "int">>>>, <<<<"a", "int">>, <<"b", "a">>>>, <<<<"int", "int">>>>,
                                  <<<<"a", "t">>>>}}

\* Declarations of an inner scope.
InnerDecs ==
  {VarDec("a", "", <<One>>), VarDec("a", "int", <<Call("a", <<>>)>>),
   FunctionDec("a", <<<<"a", "int">>>>, "", A), FunctionDec("b", <<<<"b", "int">>>>, "", Call("b", <<One>>)),
   TypeDec("t", NameTy("int")), TypeDec("t", RecordTy(<<<<"a", "u">>>>))}

Inner == {LetExp(<<d>>, u) : d \in InnerDecs, u \in Few}

Inits ==
  Uses \cup Inner
  \cup {FloatExp(1), StringExp, AllocateRecordExp("t", <<A>>), AllocateArrayExp("t", 1, 1), FieldVar(A, "a"),
        OpExp("plusOp", A, One), OpExp("ltOp", A, One)}

First ==
  {VarDec("a", typ, <<e>>) : typ \in {"", "int"}, e \in Inits}
  \cup {VarDec("a", "int", <<>>), VarDec("a", "t", <<>>)}
  \cup {FunctionDec("a", params, result, e) :
          params \in {<<>>, <<<<"a", "int">>>>, <<<<"b", "t">>>>}, result \in {"", "int"},
          e \in Few \cup {ForExp("b", One, One, A)}}
  \cup {TypeDec("t", ty) : ty \in Records \cup {NameTy("int"), NameTy("t"), ArrayTy("int")}}

Second ==
  {VarDec(x, typ, <<e>>) : x \in {"a", "b"}, typ \in {"", "t"}, e \in Few}
  \cup {VarDec("b", "t", <<>>), VarDec("a", "", <<AllocateRecordExp("t", <<B>>)>>)}
  \cup {FunctionDec(f, params, "", e) :
          f \in {"a", "b"}, params \in {<<>>, <<<<"a", "int">>>>}, e \in {A, Call("a", <<>>)}}
  \cup {TypeDec("t", ty) : ty \in {NameTy("int"), RecordTy(<<<<"a", "u">>>>), RecordTy(<<<<"a", "int">>>>)}}

Expressions ==
  Uses \cup {SeqExp(<<e, u>>) : e \in Inner, u \in {A, Call("b", <<>>)}}
  \cup {ForExp("a", One, One, B), SeqExp(<<ForExp("a", One, One, One), A>>), AssignExp(A, B),
        AssignExp(A, FieldVar(B, "a")), IfExp(A, B), IfExp(One, B)}
  \cup {OpExp("eqOp", l, A) : l \in {FieldVar(B, "a"), Call("a", <<>>)}}
  \cup {OpExp(oper, A, u) : oper \in {"plusOp", "andOp", "eqOp", "ltOp"}, u \in {B, Call("b", <<>>)}}
=============================================================================
