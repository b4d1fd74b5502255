------------------------------ MODULE Backend ------------------------------
(***************************************************************************)
(* The road of tiger_prog.s to MIPS_ASM_Prog.s: the liveness tool (flow    *)
(* graph, Liveness, Interference) and then the register allocator          *)
(* (RegAlloc, Rewrite), each working on what the one before it left.       *)
(***************************************************************************)
EXTENDS Machine

CONSTANTS
  NumCommands,     \* commands of every program
  NumTemporaries,  \* temporaries that are analysed
  NumRegs,
  Programs         \* the programs in tiger_prog.s

\* The allocator has registers $t0 .. $t7; no instruction is outside the grammar.
ASSUME BackendAssumption ==
  /\ NumCommands \in Nat \ {0}
  /\ NumTemporaries \in Nat \ {0}
  /\ NumRegs \in 1 .. 8
  /\ Programs \subseteq [0 .. NumCommands - 1 -> Instructions]

VARIABLES
  stage,     \* the tool that is running
  prog,                                                        \* tiger_prog.s
  flow, pc, temp, n, in, out, in_tag, out_tag, low, high,      \* Liveness
  range, i, j, graph, closed,                                  \* Interference
  file, alloc, line, max_alloc_num, vertex_handled,            \* RegAlloc, whose
    adj, reg_assigned, vertex,                                 \*   pc is alloc
  source, cells, cell0, rewrite, temp_txt, final               \* Rewrite, whose
                                                               \*   pc is rewrite

\* Whatever steps [2] to [4] leave of a program.
FlowGraphs == UNION {FlowGraphsOf(p) : p \in Programs}

L == INSTANCE Liveness

I == INSTANCE Interference WITH Ranges <- {}

R == INSTANCE RegAlloc WITH
       MaxVertex <- NumTemporaries - 1, Files <- {}, pc <- alloc, i <- vertex

W == INSTANCE Rewrite WITH Sources <- {}, Cells <- {}, graph <- cells, pc <- rewrite

livenessVars     == <<flow, pc, temp, n, in, out, in_tag, out_tag, low, high>>
interferenceVars == <<range, i, j, graph, closed>>
allocVars        == <<file, alloc, line, max_alloc_num, vertex_handled, adj, reg_assigned, vertex>>
rewriteVars      == <<source, cells, cell0, rewrite, temp_txt, final>>

vars == <<prog, stage, livenessVars, interferenceVars, allocVars, rewriteVars>>

\* The lines of tiger_prog.s: the operands of a command in the order of the text.
Operand(t) == IF IsTemp(t) THEN W!Temp(t) ELSE W!Other
SourceLines ==
  [l \in 1 .. NumCommands |->
     [p \in DOMAIN prog[l - 1].args |-> Operand(prog[l - 1].args[p])]]

-----------------------------------------------------------------------------
\* The tools behind the first one are where they start from, but for their input.
Idle ==
  /\ I!Start(<<>>)
  /\ R!Start(<<>>)
  /\ W!Start(<<>>, <<>>)

Init ==
  /\ stage = "liveness"
  /\ prog \in Programs
  /\ \E g \in FlowGraphsOf(prog) : L!Start(g)
  /\ cell0 = W!Junk
  /\ Idle

Liveness ==
  /\ stage = "liveness"
  /\ L!Next
  /\ UNCHANGED <<prog, stage, interferenceVars, allocVars, rewriteVars>>

StartInterference ==
  /\ stage = "liveness"
  /\ pc = "done"
  /\ stage' = "interference"
  /\ range' = [low |-> low, high |-> high]
  /\ UNCHANGED <<prog, livenessVars, i, j, graph, closed, allocVars, rewriteVars>>

Interference ==
  /\ stage = "interference"
  /\ I!Next
  /\ UNCHANGED <<prog, stage, livenessVars, allocVars, rewriteVars>>

\* The second program opens the finished InterferenceGraph.txt.
StartAllocation ==
  /\ stage = "interference"
  /\ closed
  /\ stage' = "allocation"
  /\ file' = graph
  /\ UNCHANGED <<prog, livenessVars, interferenceVars, rewriteVars,
                 alloc, line, max_alloc_num, vertex_handled, adj, reg_assigned, vertex>>

Allocation ==
  /\ stage = "allocation"
  /\ R!Next
  /\ UNCHANGED <<prog, stage, livenessVars, interferenceVars, rewriteVars>>

\* allocate_reg_to_temp(graph)
StartRewriting ==
  /\ stage = "allocation"
  /\ alloc = "allocated"
  /\ stage' = "rewriting"
  /\ source' = SourceLines
  /\ cells' = reg_assigned
  /\ UNCHANGED <<prog, livenessVars, interferenceVars, allocVars,
                 cell0, rewrite, temp_txt, final>>

Rewriting ==
  /\ stage = "rewriting"
  /\ W!Next
  /\ UNCHANGED <<prog, stage, livenessVars, interferenceVars, allocVars>>

Next ==
  \/ Liveness \/ StartInterference \/ Interference
  \/ StartAllocation \/ Allocation \/ StartRewriting \/ Rewriting

Spec == Init /\ [][Next]_vars

-----------------------------------------------------------------------------
\* The flow graph has every road and every read of command c.
FlowComplete(c) ==
  /\ RunsOnTo(prog, c) \subseteq Range(flow.out_edges[c])
  /\ Read(prog[c]) \subseteq Range(flow.use[c])

\* Every temporary is one of those that are analysed and coloured.
Analysed(c) == {t \in Range(prog[c].args) : IsTemp(t)} \subseteq 1 .. NumTemporaries - 1

Finished == stage = "rewriting" /\ rewrite = "written"

(***************************************************************************)
(* The flow graph may lack roads, but no need: wherever a run still reads  *)
(* a temporary, a drawn road leads to a use of it, whatever the passes     *)
(* over the graph make of that.                                            *)
(***************************************************************************)
NeedsDrawn == \A t \in Temporaries(prog) : LiveBefore(prog, t) \subseteq L!LiveIn(t)

(***************************************************************************)
(* Whatever bytes the pointers have, the flow graph has everything of a    *)
(* program without calls in which no label that is jumped to stands twice, *)
(* branches go to the next command, and none compares a register with a    *)
(* temporary to its right, but for Temp_0 (see DrawnExactly).              *)
(***************************************************************************)
LabelsNamed(p) == \A c \in DOMAIN p : p[c].op \in {"branch", "jump"} => p[c].label # ""

Drawable(p) ==
  \A c \in DOMAIN p :
    /\ p[c].op # "jal"
    /\ p[c].op = "jump" => \A a, b \in TargetOf(p, c) : a = b
    /\ p[c].op = "branch" =>
         /\ TargetOf(p, c) \subseteq {c + 1}
         /\ IsTemp(p[c].args[1]) \/ ~IsTemp(p[c].args[2]) \/ p[c].args[2] = 0

(***************************************************************************)
(* The programs that the tools are answerable for. Nothing is written in   *)
(* vain in them, and a need that is not drawn is no excuse for a program   *)
(* of which everything has to be in the flow graph.                        *)
(***************************************************************************)
Handled ==
  /\ EveryWriteRead(prog)
  /\ \A c \in DOMAIN prog : Analysed(c)
  /\ (LabelsNamed(prog) /\ Drawable(prog)) \/ NeedsDrawn

NamesOf(t) ==
  UNION {{final[c + 1][p] : p \in {q \in DOMAIN prog[c].args : prog[c].args[q] = t}} : c \in DOMAIN prog}

\* No command writes the register of a temporary that is live behind it.
NothingOverwritten ==
  \A t \in Temporaries(prog) : \A c \in LiveBehind(prog, t) :
    Written(prog[c]) \notin {{}, {t}} => final[c + 1][1] \notin NamesOf(t)

\* A temporary goes by the name of one register.
OneName ==
  \A t \in Temporaries(prog) : \A a, b \in NamesOf(t) : a = b /\ ~W!IsTempOperand(a)

(***************************************************************************)
(* What one tool leaves for the next has its type, and the promises of the *)
(* file between the two programs and of the two textual passes hold of     *)
(* what really comes down the road: see Interference and Rewrite.          *)
(***************************************************************************)
TypeOK == (stage # "liveness" => I!TypeOK) /\ W!TypeOK
FileOrdered == I!FileOrdered
FileComplete == I!FileComplete
SubstitutesEach == W!SubstitutesEach
SingleLonelyReplaced == W!SingleLonelyReplaced

(***************************************************************************)
(* All tools together keep the meaning of a program whose flow graph has   *)
(* all its needs, or ought to have them: uses and edges taken from a union *)
(* of commands, the ranges from the forward passes, the edges from the     *)
(* overlaps, the registers from the search two edges wide and the two      *)
(* textual passes leave no temporary overwritten while it is needed.       *)
(***************************************************************************)
AllocationSound == Finished => (NothingOverwritten /\ OneName) \/ ~Handled

(***************************************************************************)
(* The code generator's comment says of a call that it remembers where to  *)
(* return to: so the commands behind it are run, and a temporary written   *)
(* before it and read behind it is needed in between.                      *)
(***************************************************************************)
CallsComeBack ==
  Finished /\ EveryWriteRead(prog)
    /\ (\A c \in DOMAIN prog : (FlowComplete(c) \/ prog[c].op = "jal") /\ Analysed(c))
    => NothingOverwritten
=============================================================================
