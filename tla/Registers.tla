------------------------------ MODULE Registers ------------------------------
(***************************************************************************)
(* From the commands of tiger_prog.s to those of MIPS_ASM_Prog.s: what the *)
(* liveness tool and the allocator come to, told as functions. That their  *)
(* loops come to it is the matter of Liveness, Interference, RegAlloc and  *)
(* Rewrite.                                                                *)
(***************************************************************************)
EXTENDS MIPSAsm

F == INSTANCE FlowGraph

AnalysedTemporaries == 122     \* numTemporaries
AllocatedRegisters  == 8       \* cells of free_status_array

\* $t0 to $t7 and $t9, behind the registers with a name and before the temporaries.
T(r) == 10 + r
T9   == T(9)

-----------------------------------------------------------------------------
(***************************************************************************)
(* The grammar of the liveness tool (tiger.y) wants a temporary at some    *)
(* places, and its scanner takes div, and, or for labels.                  *)
(***************************************************************************)
Unknown == {"div", "and", "or"}

\* Mutant: a difference takes any register, as a sum does.
TemporaryAtButSub ==
  [mul |-> {1, 2, 3}, bgt |-> {1, 2}, bge |-> {1, 2}, blt |-> {1, 2}, ble |-> {1, 2}]

TemporaryAt ==
  [sub |-> {3}, mul |-> {1, 2, 3}, bgt |-> {1, 2}, bge |-> {1, 2}, blt |-> {1, 2}, ble |-> {1, 2}]

Parses(c) ==
  /\ c.op \notin Unknown
  /\ c.op \in DOMAIN TemporaryAt => \A q \in TemporaryAt[c.op] : c.args[q] \notin Named

-----------------------------------------------------------------------------
Number(r) == IF r \in Named THEN F!Register ELSE r - firstTemp

\* A command as the parser of the tool builds it; what has no temporaries is all one.
Parsed(c) ==
  LET q    == [p \in DOMAIN c.args |-> Number(c.args[p])]
      text == ToString(c.label)
  IN  CASE c.op \in {"add", "sub", "mul"} -> F!Arith(q[1], q[2], q[3])
        [] c.op = "lw"    -> F!Load(q[1], q[2])
        [] c.op = "sw"    -> F!Store(q[1], q[2])
        [] c.op = "addi"  -> F!AddImmediate(q[1], q[2])
        [] c.op = "j"     -> F!Jump(text)
        [] c.op = "jal"   -> F!JumpAndLink(text)
        [] c.op = "jr"    -> F!JumpRegister
        [] c.op = "label" -> F!Label(text)
        [] c.op = "li"    -> F!LoadImmediate(q[1])
        [] Len(q) = 2     -> F!Branch(q[1], q[2], text)
        [] OTHER          -> F!LoadImmediate(F!Register)

\* Of the routines in front, the first label and the end.
Header == <<F!Label("PrintInt"), F!JumpRegister>>

FlowOf(code) ==
  LET text == Header \o [q \in DOMAIN code |-> Parsed(code[q])]
      prog == [c \in 0 .. Len(text) - 1 |-> text[c + 1]] @@ <<>>
  IN  F!FlowGraphOf(prog, [c \in DOMAIN prog |-> "pointer bytes"])

\* The commands from which one of S follows; prior is that of single commands.
Prior(flow) ==
  [d \in DOMAIN flow.def |-> {c \in DOMAIN flow.def : d \in {flow.out_edges[c][1], flow.out_edges[c][2]}}] @@ <<>>
Leading(prior, S) == UNION {prior[d] : d \in S}

\* "in" of temporary t: the fixed point above its uses.
\* Mutant: one pass only.
LiveFromOnce(flow, prior, t, in) == in

RECURSIVE LiveFrom(_, _, _, _)
LiveFrom(flow, prior, t, in) ==
  LET more == in \cup {c \in Leading(prior, in) : flow.def[c] # t}
  IN  IF more = in THEN in ELSE LiveFrom(flow, prior, t, more)

LiveIn(flow, prior, t) ==
  LiveFrom(flow, prior, t, {c \in DOMAIN flow.def : t \in {flow.use[c][1], flow.use[c][2]}})

\* The commands at which t is live, before or behind.
MarkedBy(flow, prior, t) == LET in == LiveIn(flow, prior, t) IN in \cup Leading(prior, in)

\* low and high of the temporaries that are live anywhere.
Ranges(code) ==
  Once(FlowOf(code), LAMBDA flow :
    Once(Prior(flow), LAMBDA prior :
      Once([t \in 1 .. AnalysedTemporaries - 1 |-> MarkedBy(flow, prior, t)], LAMBDA marked :
        [t \in {u \in DOMAIN marked : marked[u] # {}} |-> <<Min(marked[t]), Max(marked[t])>>])))

\* Pairs of temporaries whose ranges have a command in common.
InterferenceGraph(code) ==
  Once(Ranges(code), LAMBDA range :
    {<<i, j>> \in (DOMAIN range) \X (DOMAIN range) :
       i < j /\ range[i][1] <= range[j][2] /\ range[j][1] <= range[i][2]})

-----------------------------------------------------------------------------
GivesUp == <<-1>>

\* Mutant: a vertex without edges is given no register, as if it had no cell.
AssignedToJoined(graph) ==
  LET Near(v) == {e[2] : e \in {f \in graph : f[1] = v}} \cup {e[1] : e \in {f \in graph : f[2] = v}}
      Free(regs, v) == 0 .. AllocatedRegisters - 1 \ {regs[w] : w \in Near(v) \cap DOMAIN regs}
      Give(regs, v) == IF Near(v) = {} THEN regs ELSE v :> Min(Free(regs, v)) @@ regs
  IN  Thread(Give, <<>>, [v \in 1 .. Max({e[2] : e \in graph} \cup {0}) |-> v])

\* graph[v].reg_assigned from v = 1 on: the first register that is free two edges far, or GivesUp.
Assigned(graph) ==
  LET vertices == {e[1] : e \in graph} \cup {e[2] : e \in graph}
      last     == IF vertices = {} THEN 0 ELSE Max(vertices)
      near     == [v \in 1 .. last |-> {e[2] : e \in {f \in graph : f[1] = v}}
                                  \cup {e[1] : e \in {f \in graph : f[2] = v}}] @@ <<>>
      Met(v)   == near[v] \cup UNION {near[w] : w \in near[v]}
      Next1(regs, v) ==
        LET free == 0 .. AllocatedRegisters - 1 \ {regs[w] : w \in Met(v) \cap DOMAIN regs}
        IN  IF regs = GivesUp \/ free = {} THEN GivesUp ELSE Append(regs, Min(free))
  IN  Thread(Next1, <<>>, [v \in 1 .. last |-> v])

\* Mutant: the second pass over the text is left out.
RewrittenOnce(c, regs) ==
  [c EXCEPT !.args = [q \in DOMAIN c.args |->
     IF c.args[q] - firstTemp \in DOMAIN regs THEN T(regs[c.args[q] - firstTemp]) ELSE c.args[q]]]

\* Of two temporaries of a line that have no cell, the second one stays.
Rewritten(c, regs) ==
  LET HasCell(r)  == r - firstTemp \in DOMAIN regs
      lonely      == SelectSeq(c.args, LAMBDA r : r >= firstTemp /\ ~HasCell(r))
      RegisterOf(r) == CASE r < firstTemp -> r
                         [] HasCell(r)    -> T(regs[r - firstTemp])
                         [] r = lonely[1] -> T9
                         [] OTHER         -> r
  IN  [c EXCEPT !.args = [q \in DOMAIN c.args |-> RegisterOf(c.args[q])]]

\* What is in MIPS_ASM_Prog.s behind the routines; nothing when the allocator gives up.
MIPS_ASM_Prog(code) ==
  Once(InterferenceGraph(code), LAMBDA graph :
    Once(Assigned(graph), LAMBDA regs :
      IF regs = GivesUp THEN <<>> ELSE [q \in DOMAIN code |-> Rewritten(code[q], regs)] @@ <<>>))
=============================================================================
