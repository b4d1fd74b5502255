------------------------------ MODULE Liveness ------------------------------
(***************************************************************************)
(* Step [5] of the liveness tool (VerifyCodeGen/main.c): the iterative     *)
(* dataflow analysis, run for one temporary after the other, and the range *)
(* low .. high of commands it leaves for each of them.                     *)
(*                                                                         *)
(* An array cell that holds 1 is TRUE here, one that holds -1 is FALSE.    *)
(* The arrays in and out have MAX_NUM_ASM_COMMANDS cells; all behind       *)
(* NumCommands keep their -1, and cell NumCommands stands for them.        *)
(* out_edges holds -1 for "no successor", and the code reads in[-1], the   *)
(* word in front of the array: its value is whatever the build put there,  *)
(* an unknown that the analysis never writes.                              *)
(***************************************************************************)
EXTENDS Integers, FiniteSetsExt

CONSTANTS
  NumCommands,     \* commands in tiger_prog.s, fewer than MAX_NUM_ASM_COMMANDS
  NumTemporaries,  \* temporaries analysed
  FlowGraphs       \* the flow graphs to analyse: records of use, def, out_edges

Command   == 0 .. NumCommands - 1
Cell      == -1 .. NumCommands
Temporary == 0 .. NumTemporaries - 1

ASSUME LivenessAssumption ==
  /\ NumCommands \in Nat \ {0}
  /\ NumTemporaries \in Nat \ {0}
  /\ FlowGraphs \subseteq [use       : [Command -> Int \X Int],
                           def       : [Command -> Int],
                           out_edges : [Command -> Cell \X Cell]]

VARIABLES
  flow,            \* use, def and out_edges, built before the analysis starts
  pc,              \* where main is
  temp,            \* the temporary under analysis
  n,               \* the command the scan is at
  in, out,         \* live before, live behind the command
  in_tag, out_tag, \* in and out as the scan found them
  low, high        \* first and last command at which each temporary is live

vars == <<flow, pc, temp, n, in, out, in_tag, out_tag, low, high>>

\* A mutant of Defines: a definition does not end the life of the temporary.
DefinesNothing(c) == FALSE

Uses(c)       == temp = flow.use[c][1] \/ temp = flow.use[c][2]
Defines(c)    == temp = flow.def[c]
Followers(c) == {flow.out_edges[c][1], flow.out_edges[c][2]}

TypeOK ==
  /\ flow \in FlowGraphs
  /\ pc \in {"next_temp", "scan", "compare", "report", "done"}
  /\ temp \in 0 .. NumTemporaries
  /\ n \in 0 .. NumCommands
  /\ in \in [Cell -> BOOLEAN]
  /\ out \in [Command -> BOOLEAN]
  /\ in_tag \in [Command -> BOOLEAN]
  /\ out_tag \in [Command -> BOOLEAN]
  /\ low \in [Temporary -> -1 .. NumCommands - 1]
  /\ high \in [Temporary -> -1 .. NumCommands - 1]

-----------------------------------------------------------------------------
Start(g) ==
  /\ flow = g
  /\ pc = "next_temp"
  /\ temp = 0
  /\ n = 0
  /\ \E wordBeforeIn \in BOOLEAN : in = [c \in Cell |-> c = -1 /\ wordBeforeIn]
  /\ out = [c \in Command |-> FALSE]
  /\ in_tag = [c \in Command |-> FALSE]
  /\ out_tag = [c \in Command |-> FALSE]
  /\ low = [t \in Temporary |-> -1]
  /\ high = [t \in Temporary |-> -1]

Init == \E g \in FlowGraphs : Start(g)

\* The head of the loop over the temporaries: every cell back to -1.
StartTemp ==
  /\ pc = "next_temp"
  /\ temp < NumTemporaries
  /\ in' = [c \in Cell |-> c = -1 /\ in[-1]]
  /\ out' = [c \in Command |-> FALSE]
  /\ n' = 0
  /\ pc' = "scan"
  /\ UNCHANGED <<flow, temp, in_tag, out_tag, low, high>>

\* One command of a pass: note the old cells, then mark them live.
ScanCommand ==
  /\ pc = "scan"
  /\ n < NumCommands
  /\ in_tag' = [in_tag EXCEPT ![n] = in[n]]
  /\ out_tag' = [out_tag EXCEPT ![n] = out[n]]
  /\ in' = [in EXCEPT ![n] = @ \/ Uses(n) \/ (out[n] /\ ~Defines(n))]
  /\ out' = [out EXCEPT ![n] = @ \/ \E c \in Followers(n) : in'[c]]
  /\ n' = n + 1
  /\ UNCHANGED <<flow, pc, temp, low, high>>

EndPass ==
  /\ pc = "scan"
  /\ n = NumCommands
  /\ pc' = "compare"
  /\ UNCHANGED <<flow, temp, n, in, out, in_tag, out_tag, low, high>>

\* Mutants of EQUAL: the last cell is not compared; the result is the wrong way round.
EqualButLast(a, b)  == \A c \in Command \ {NumCommands - 1} : a[c] = b[c]
EqualInverted(a, b) == \E c \in Command : a[c] # b[c]

EQUAL(a, b) == \A c \in Command : a[c] = b[c]

\* The condition of the do-while loop: another pass unless nothing changed.
Compare ==
  /\ pc = "compare"
  /\ IF EQUAL(in, in_tag) /\ EQUAL(out, out_tag)
       THEN pc' = "report" /\ n' = n
       ELSE pc' = "scan" /\ n' = 0
  /\ UNCHANGED <<flow, temp, in, out, in_tag, out_tag, low, high>>

\* Mutants of Marked: commands counted from 1; live behind is forgotten.
MarkedFromOne == {c + 1 : c \in {d \in Command : in[d] \/ out[d]}}
MarkedBefore  == {c \in Command : in[c]}

\* The commands printed behind "Temp_<n> =" in LivenessAnalysis.txt.
Marked == {c \in Command : in[c] \/ out[c]}

Report ==
  /\ pc = "report"
  /\ low' = [low EXCEPT ![temp] = IF Marked = {} THEN -1 ELSE Min(Marked)]
  /\ high' = [high EXCEPT ![temp] = IF Marked = {} THEN -1 ELSE Max(Marked)]
  /\ temp' = temp + 1
  /\ pc' = "next_temp"
  /\ UNCHANGED <<flow, n, in, out, in_tag, out_tag>>

Finish ==
  /\ pc = "next_temp"
  /\ temp = NumTemporaries
  /\ pc' = "done"
  /\ UNCHANGED <<flow, temp, n, in, out, in_tag, out_tag, low, high>>

Next == StartTemp \/ ScanCommand \/ EndPass \/ Compare \/ Report \/ Finish

Spec == Init /\ [][Next]_vars

\* The tool is one sequential program: nothing keeps it from its next step.
FairSpec == Spec /\ WF_vars(Next)

-----------------------------------------------------------------------------
(***************************************************************************)
(* What the analysis is for.  A set of commands is closed for temporary t  *)
(* when it has every command before which t must be live, given that t is  *)
(* live before the commands of the set; t is live before a command when    *)
(* the command is in every closed set (the least solution of the dataflow  *)
(* equations).                                                             *)
(***************************************************************************)
UsesOf(t, c)    == t = flow.use[c][1] \/ t = flow.use[c][2]
DefinesOf(t, c) == t = flow.def[c]

LiveBehind(c, A) == \E s \in Followers(c) : s \in A \/ (s = -1 /\ in[-1])

Closed(t, A) ==
  \A c \in Command : UsesOf(t, c) \/ (LiveBehind(c, A) /\ ~DefinesOf(t, c)) => c \in A

LiveIn(t)  == {c \in Command : \A A \in SUBSET Command : Closed(t, A) => c \in A}
LiveOut(t) == {c \in Command : LiveBehind(c, LiveIn(t))}
LiveAt(t)  == LiveIn(t) \cup LiveOut(t)

(***************************************************************************)
(* When the loop over passes is left, the arrays hold liveness itself:     *)
(* nothing is missing although a pass goes forward through the program and *)
(* updates in place (an early exit would lose a cell), and nothing is live *)
(* without cause.                                                          *)
(***************************************************************************)
AnalysisExact ==
  pc = "report" =>
    /\ {c \in Command : in[c]} = LiveIn(temp)
    /\ {c \in Command : out[c]} = LiveOut(temp)

\* The ways of k commands along which temporary t keeps its value.
Ways(t, k) ==
  {p \in [0 .. k -> Command] :
     \A m \in 1 .. k : p[m] \in Followers(p[m - 1]) /\ ~DefinesOf(t, p[m - 1])}

\* Command c needs t, or behind it comes the unknown word, which holds a 1.
Needs(t, c) == UsesOf(t, c) \/ (-1 \in Followers(c) /\ in[-1] /\ ~DefinesOf(t, c))

\* No way need be longer: one that is comes to a command a second time.
WayLive(t) ==
  {c \in Command : \E k \in 0 .. NumCommands - 1 : \E p \in Ways(t, k) : p[0] = c /\ Needs(t, p[k])}

(***************************************************************************)
(* The textbook reading of liveness: a temporary is live before a command  *)
(* when a way through the program that no definition of it interrupts      *)
(* leads from there to a use of it.  The passes mark these commands and no *)
(* others.                                                                 *)
(***************************************************************************)
MarksFollowPaths == pc = "report" => {c \in Command : in[c]} = WayLive(temp)

\* l .. h is the smallest range with the whole of a set of commands.
Spans(l, h, commands) ==
  IF commands = {}
    THEN l = -1 /\ h = -1
    ELSE l \in commands /\ h \in commands /\ \A c \in commands : l <= c /\ c <= h

(***************************************************************************)
(* The range left for an analysed temporary is the smallest one that has   *)
(* every command at which it is live, and -1 .. -1 when there is none: the *)
(* interference graph is drawn from nothing but these ranges.              *)
(***************************************************************************)
RangesExact == \A t \in Temporary : t < temp => Spans(low[t], high[t], LiveAt(t))

\* The passes over the commands end for every temporary.
Terminates == <>(pc = "done")
=============================================================================
