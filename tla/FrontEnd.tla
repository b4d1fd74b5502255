------------------------------ MODULE FrontEnd ------------------------------
(***************************************************************************)
(* The compiler from the tree to the intermediate representation (main.c): *)
(* two passes over the same tree, each with environments of its own. The   *)
(* second one checks nothing, and is run whatever the first one has said.  *)
(***************************************************************************)
EXTENDS IR, Tiger, FiniteSets

CONSTANTS
  FirstDecs, SecondDecs,    \* the declarations of the program
  Bodies                    \* and what stands behind "in"

VARIABLES
  program,
  pc,       \* "parsed", "analysed", "translated", or "crashed"
  sem,      \* the state of the analysis
  ir        \* the state of the translation

vars == <<program, pc, sem, ir>>

Start(tree) ==
  /\ program = tree
  /\ pc = "parsed"
  /\ sem = Fresh(BaseVariables, NULL)
  /\ ir = Fresh(BaseFrames, NULL)

Init ==
  \E first \in FirstDecs, second \in SecondDecs, body \in Bodies :
    Start(LetExp(<<first, second>>, body))

\* What a function that falls off its end may happen to return, if one does.
Junk(pass(_)) == IF pass(NULL).undetermined THEN {NULL, Ty_Int, Wild} ELSE {NULL}

SEM_pass(junk) == SEM_transProg(program, junk)
IR_pass(junk)  == IR_transProg(program, junk).s

\* Mutant: the second pass is started whatever became of the first.
AnalyseAndGoOn ==
  /\ pc = "parsed"
  /\ \E junk \in Junk(SEM_pass) : sem' = SEM_pass(junk)
  /\ pc' = "analysed"
  /\ UNCHANGED <<program, ir>>

\* SEM_transProg; no message stops the compiler.
Analyse ==
  /\ pc = "parsed"
  /\ \E junk \in Junk(SEM_pass) : sem' = SEM_pass(junk)
  /\ pc' = IF sem'.crashed THEN "crashed" ELSE "analysed"
  /\ UNCHANGED <<program, ir>>

\* IR_transProg
Translate ==
  /\ pc = "analysed"
  /\ \E junk \in Junk(IR_pass) : ir' = IR_pass(junk)
  /\ pc' = IF ir'.crashed THEN "crashed" ELSE "translated"
  /\ UNCHANGED <<program, sem>>

Next == Analyse \/ Translate

Spec == Init /\ [][Next]_vars

-----------------------------------------------------------------------------
RECURSIVE Nodes(_)
Nodes(e) ==
  {e} \cup UNION {Nodes(c) : c \in Range(e.subs) \cup (IF e.k = "let" THEN Range(e.decs) ELSE {})}

Kinds(e) == {n.k : n \in Nodes(e)}

\* The analysis has no message, and met no value that is not there.
Accepted == pc \notin {"parsed"} /\ ~sem.crashed /\ ~sem.message /\ ~sem.undetermined

(***************************************************************************)
(* Each pass has its stacks of scopes, and has come back from every        *)
(* declaration unless it crashed; nothing is done after a crash.           *)
(***************************************************************************)
TypeOK ==
  /\ pc \in {"parsed", "analysed", "translated", "crashed"}
  /\ pc = "crashed" <=> sem.crashed \/ ir.crashed
  /\ \A s \in {sem, ir} :
       /\ s.venv # <<>> /\ s.tenv # <<>>
       /\ \A q \in DOMAIN s.venv : DOMAIN s.venv[q] = DOMAIN s.sites[q]
       /\ ~s.crashed => s.inside = <<>>

(***************************************************************************)
(* Whatever the program, and whatever is wrong with it, the analysis gives *)
(* back the environment of variables as it was, the parameters included    *)
(* that functions leave behind in the scope around them. The environment   *)
(* of types has one scope too many for every record that was refused: each *)
(* let behind it closes another let's scope, and types stay visible where  *)
(* they are not declared. The second analysis, of initialisers, does the   *)
(* same to the environment of the translation.                             *)
(***************************************************************************)
ScopesBalance ==
  \A s \in {sem, ir} :
    ~s.crashed =>
      /\ Len(s.venv) = 1
      /\ Len(s.tenv) = 1 + s.refused
      /\ s.refused = 0 => s.tenv = Fresh(BaseVariables, NULL).tenv
      /\ s = sem => s.venv = BaseVariables

\* Where the second pass knows more than the first: a variable in its own initialiser,
\* a function in its own body, the variable of a loop, in the loop or behind it.
Early(use) == use.site.k = "for" \/ use.site \in Range(use.inside)

\* Where the first pass knows more: a parameter behind its function.
Late(use) ==
  use.site.k = "parameter" /\ [use.site EXCEPT !.k = "function"] \notin Range(use.inside)

(***************************************************************************)
(* In an accepted program a name is the same thing to both passes, but for *)
(* the four cases in which one of them enters it earlier or keeps it       *)
(* longer. The passes walk the tree in the same order; the declaration     *)
(* that is meant decides about the address in the code.                    *)
(***************************************************************************)
SameDeclarations ==
  Accepted /\ pc = "translated" =>
    /\ Len(sem.uses) = Len(ir.uses)
    /\ \A q \in DOMAIN sem.uses :
         sem.uses[q].site = ir.uses[q].site \/ Early(ir.uses[q]) \/ Late(sem.uses[q])

(***************************************************************************)
(* The analysis follows a null pointer only after a message, or in a       *)
(* program with a loop, whose type is NULL without one, or with a value    *)
(* that was never returned.                                                *)
(***************************************************************************)
CrashAnnounced ==
  sem.crashed => sem.message \/ sem.undetermined \/ "for" \in Kinds(program)

\* Every name of a parameter is used in its function only.
ParametersApart ==
  \A use \in Range(sem.uses) : ~Late(use)

\* No call with arguments in an initialiser.
PlainInitialisers ==
  \A d \in Nodes(program) :
    d.k = "var" /\ d.subs # <<>> => \A c \in Nodes(d.subs[1]) : c.k = "call" => c.subs = <<>>

(***************************************************************************)
(* What has passed the analysis can be translated: the translation, which  *)
(* checks nothing, follows no null pointer, if the analysis has seen all   *)
(* of the program (no loop, no record), every parameter is used in its     *)
(* function, and no initialiser has a call with arguments: the list of the *)
(* formals of every function is empty in the second analysis.              *)
(***************************************************************************)
AcceptedTranslates ==
  Accepted /\ ir.crashed =>
    {"for", "record"} \cap Kinds(program) # {} \/ ~ParametersApart \/ ~PlainInitialisers
=============================================================================
