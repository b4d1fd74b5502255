----------------------------- MODULE MCExecution -----------------------------
(***************************************************************************)
(* Model checking of Execution. Every program has the same declarations    *)
(* and an expression in one of several places; the expressions are all     *)
(* those of one operation over constants, variables and calls.             *)
(***************************************************************************)
EXTENDS Execution

Id(x) == SimpleVar(x)
Call1(f, e) == CallExp(f, <<e>>)
Show(e) == Call1("PrintInt", e)

\* One less; the sum over 1 to j, by a loop; the same downwards, by recursion.
Less == FunctionDec("less", <<<<"n", "int">>>>, "int", OpExp("minusOp", Id("n"), IntExp(1)))

SumUp ==
  FunctionDec("sum", <<<<"from", "int">>, <<"to", "int">>>>, "int",
    LetExp(<<VarDec("r", "int", <<IntExp(0)>>)>>,
      SeqExp(<<ForExp("i", Id("from"), Id("to"), AssignExp(Id("r"), OpExp("plusOp", Id("r"), Id("i")))),
               Id("r")>>)))

Power ==
  FunctionDec("power", <<<<"b", "int">>, <<"e", "int">>>>, "",
    LetExp(<<VarDec("q", "int", <<IntExp(1)>>)>>,
      SeqExp(<<IfExp(OpExp("gtOp", Id("e"), IntExp(0)),
                     SeqExp(<<AssignExp(Id("q"), CallExp("power", <<Id("b"), OpExp("minusOp", Id("e"), IntExp(1))>>)),
                               AssignExp(Id("q"), OpExp("timesOp", Id("b"), Id("q")))>>)),
               Id("q")>>)))

Types ==
  <<TypeDec("point", RecordTy(<<<<"x", "int">>, <<"y", "int">>, <<"z", "int">>>>)),
    TypeDec("row", ArrayTy("int"))>>

Declarations ==
  Types \o
  <<VarDec("a", "int", <<IntExp(3)>>), VarDec("c", "int", <<IntExp(0)>>),
    VarDec("pt", "point", <<AllocateRecordExp("point", <<IntExp(7), OpExp("plusOp", Id("a"), Id("a")), IntExp(9)>>)>>),
    VarDec("ar", "row", <<AllocateArrayExp("row", 4, 5)>>),
    Less, SumUp, Power>>

Program(body) == LetExp(Declarations, body)

Leaves == {IntExp(2), Id("a"), Call1("less", Id("a")), CallExp("sum", <<Id("a"), IntExp(4)>>)}

Operations(opers) == {OpExp(oper, l, r) : oper \in opers, l \in Leaves, r \in Leaves}

\* Operations of one kind each stand in all places, the others are printed.
Expressions == Leaves \cup Operations({"minusOp", "ltOp"})
Printed     == Operations(DOMAIN IRBinop)

Around(e) ==
  {Show(e),
   SeqExp(<<AssignExp(Id("c"), e), Show(OpExp("timesOp", Id("c"), Id("a")))>>),
   IfExp(OpExp("geOp", e, IntExp(1)), Show(Id("a"))),
   Show(CallExp("sum", <<e, OpExp("plusOp", Id("a"), IntExp(1))>>)),
   SeqExp(<<AssignExp(FieldVar(Id("pt"), "y"), e), Show(FieldVar(Id("pt"), "y")), Show(FieldVar(Id("pt"), "x"))>>),
   LetExp(<<VarDec("p2", "point", <<>>)>>,
     SeqExp(<<AssignExp(Id("p2"), AllocateRecordExp("point", <<IntExp(1), e, IntExp(4)>>)),
              Show(OpExp("minusOp", FieldVar(Id("p2"), "y"), FieldVar(Id("pt"), "z")))>>))}

\* Indices and bounds have to be in range.
InRange == {IntExp(2), Id("a"), Call1("less", Id("a")), OpExp("minusOp", Id("a"), IntExp(2)),
            OpExp("ltOp", IntExp(2), Call1("less", Id("a")))}

AroundIndex(e) ==
  {SeqExp(<<AssignExp(SubscriptVar(Id("ar"), e), OpExp("plusOp", Id("a"), IntExp(8))),
            Show(SubscriptVar(Id("ar"), IntExp(2)))>>),
   ForExp("k", IntExp(1), e, Show(OpExp("timesOp", Id("k"), Id("k"))))}

\* A function in a function, calling out of both; recursion; a loop in a loop.
Special ==
  {LetExp(<<FunctionDec("outer", <<<<"u", "int">>>>, "int",
               LetExp(<<VarDec("t", "int", <<Id("u")>>),
                        FunctionDec("inner", <<<<"w", "int">>>>, "int",
                          Call1("less", OpExp("timesOp", Id("w"), IntExp(2))))>>,
                 OpExp("plusOp", Id("t"), Call1("inner", Id("t")))))>>,
           Show(Call1("outer", Call1("less", Id("a"))))),
   Show(CallExp("power", <<Call1("less", IntExp(3)), Id("a")>>)),
   ForExp("k", IntExp(1), IntExp(2),
      ForExp("l", Id("k"), Id("a"), IfExp(OpExp("neqOp", Id("k"), Id("l")), Show(Id("l")))))}

Handled(program) ==
  Compilable(program) /\ \A e \in Nodes(program) : OperandsApart(e) /\ OwnVariables(e)

HandledPrograms ==
  LET bodies == (UNION {Around(e) : e \in Expressions}) \cup {Show(e) : e \in Printed}
                  \cup (UNION {AroundIndex(e) : e \in InRange}) \cup Special
  IN  {program \in {Program(e) : e \in bodies} : Handled(program)}

\* The search two edges wide finds eight registers for small programs only.
Difference == FunctionDec("difference", <<<<"from", "int">>, <<"to", "int">>>>, "int", OpExp("minusOp", Id("from"), Id("to")))
One        == FunctionDec("one", <<>>, "int", IntExp(1))

SmallVariables    == <<VarDec("a", "int", <<IntExp(3)>>), VarDec("c", "int", <<IntExp(0)>>)>>
SmallDeclarations == SmallVariables \o <<Less, One, Difference>>

SmallLeaves == {IntExp(2), Id("a"), CallExp("one", <<>>), CallExp("difference", <<Id("a"), IntExp(4)>>)}

SmallExpressions ==
  SmallLeaves \cup {OpExp(oper, l, r) : oper \in {"minusOp", "eqOp"}, l \in SmallLeaves, r \in SmallLeaves}
    \cup {OpExp("plusOp", OpExp("plusOp", l, IntExp(2)), r) : l \in {Id("a"), CallExp("one", <<>>)}, r \in SmallLeaves}

AroundSmall(e) ==
  {Show(e),
   SeqExp(<<AssignExp(Id("c"), e), Show(Id("c"))>>),
   IfExp(OpExp("geOp", e, IntExp(1)), Show(Id("a"))),
   Show(CallExp("difference", <<e, Id("a")>>)),
   ForExp("k", IntExp(1), e, Show(Id("k"))),
   SeqExp(<<e, Show(Id("a"))>>)}

\* A sum that nobody asks for, in front of e.
InVain(e) == SeqExp(<<OpExp("plusOp", Id("a"), IntExp(2)), e>>)

Discarding ==
  UNION {{InVain(Show(e)), Show(OpExp("minusOp", InVain(e), Id("a"))), Show(OpExp("minusOp", Id("a"), InVain(e))),
          SeqExp(<<AssignExp(Id("c"), InVain(e)), Show(Id("c"))>>),
          IfExp(OpExp("geOp", InVain(e), IntExp(1)), Show(Id("a"))),
          ForExp("k", InVain(IntExp(1)), e, InVain(Show(Id("k"))))} :
         e \in {IntExp(2), Id("a"), OpExp("minusOp", Id("a"), IntExp(1))}}

\* A record, an array, and more temporaries than are analysed.
SmallSpecial ==
  {LetExp(<<VarDec("a", "int", <<IntExp(3)>>), Types[1],
            VarDec("pt", "point", <<AllocateRecordExp("point", <<IntExp(7), Id("a"), IntExp(9)>>)>>)>>,
          Show(FieldVar(Id("pt"), "y"))),
   LetExp(<<VarDec("a", "int", <<IntExp(3)>>), Types[2], VarDec("ar", "row", <<AllocateArrayExp("row", 4, 5)>>)>>,
          SeqExp(<<AssignExp(SubscriptVar(Id("ar"), Id("a")), IntExp(8)), Show(SubscriptVar(Id("ar"), IntExp(3)))>>)),
   SeqExp([q \in 1 .. 22 |-> Show(OpExp("plusOp", OpExp("minusOp", IntExp(9), IntExp(q)), OpExp("minusOp", IntExp(8), IntExp(7))))])}

HandledSmall ==
  LET bodies == UNION {AroundSmall(e) : e \in SmallExpressions}
  IN  {program \in {LetExp(SmallDeclarations, e) : e \in bodies}
                     \cup {LetExp(SmallVariables, e) : e \in Discarding} \cup SmallSpecial :
         Handled(program) /\ \A e \in Nodes(program) : KeptAcrossCalls(e) /\ NothingInVain(e)}

\* An assignment of a sequence whose first value is thrown away.
DiscardingPrograms ==
  {LetExp(SmallVariables, SeqExp(<<AssignExp(Id("c"), InVain(IntExp(2))), Show(Id("c"))>>))}

\* The difference of the values of two calls.
TwoCallPrograms ==
  {Program(Show(OpExp("minusOp", Call1("less", Id("a")), CallExp("sum", <<Id("a"), IntExp(4)>>))))}

\* A function that adds the parameter of the function around it.
NestedPrograms ==
  {Program(LetExp(<<FunctionDec("outer", <<<<"u", "int">>>>, "int",
                       LetExp(<<FunctionDec("inner", <<<<"w", "int">>>>, "int", OpExp("plusOp", Id("w"), Id("u")))>>,
                              Call1("inner", IntExp(8))))>>,
                   Show(Call1("outer", Id("a")))))}
=============================================================================
