------------------------------- MODULE Replay -------------------------------
(***************************************************************************)
(* What the back end is for: the program of tiger_prog.s and the text of   *)
(* MIPS_ASM_Prog.s, each run on a machine of its own, side by side. The    *)
(* one machine has a register for every temporary, the other one those     *)
(* that the text names.                                                    *)
(*                                                                         *)
(* What a command computes, and where a branch goes, is open; it depends   *)
(* on the operands that the command reads, on memory and on the registers  *)
(* that are no temporaries ($fp, $sp, ...). The last two are the same for  *)
(* both machines as long as all commands have read the same, so that only  *)
(* the registers given out are part of the state. The machines are run up  *)
(* to the first command that reads something else.                         *)
(***************************************************************************)
EXTENDS Backend

CONSTANT Value    \* what a register holds

VARIABLES
  at,       \* the command that comes next, -1 before the text is finished
  temps,    \* registers of the machine that runs tiger_prog.s
  regs      \* registers of the machine that runs MIPS_ASM_Prog.s

replayVars == <<at, temps, regs>>

\* The registers that a text names.
Names(text) == (UNION {Range(text[l]) : l \in DOMAIN text}) \ {W!Other}

\* Places of a command's operands that it reads, and whether it writes the first one.
ReadPlaces(c) == DOMAIN prog[c].args \ (IF prog[c].op \in {"store", "branch"} THEN {} ELSE {1})
Writes(c)     == Def(prog[c]) # NoTemp

\* Command c finds the same operands on both machines.
SameOperands(c) ==
  \A p \in ReadPlaces(c) :
    LET t == source[c + 1][p]
        r == final[c + 1][p]
    IN  IF t = W!Other \/ r = W!Other THEN t = r ELSE temps[t] = regs[r]

\* What command c writes, in the text it is read from.
Put(values, text, c, v) ==
  IF Writes(c) /\ text[c + 1][1] # W!Other THEN [values EXCEPT ![text[c + 1][1]] = v] ELSE values

-----------------------------------------------------------------------------
ReplayInit ==
  /\ Init
  /\ at = -1
  /\ temps = <<>>
  /\ regs = <<>>

Tools == Next /\ UNCHANGED replayVars

\* Both programs start with whatever is in the registers.
Start ==
  /\ Finished
  /\ at = -1
  /\ at' = 0
  /\ temps' \in [Names(source) -> Value]
  /\ regs' \in [Names(final) -> Value]
  /\ UNCHANGED vars

Execute ==
  /\ at \in DOMAIN prog
  /\ SameOperands(at)
  /\ \E v \in Value :
       /\ temps' = Put(temps, source, at, v)
       /\ regs' = Put(regs, final, at, v)
  /\ at' \in RunsOnTo(prog, at)
  /\ UNCHANGED vars

ReplayNext == Tools \/ Start \/ Execute

ReplaySpec == ReplayInit /\ [][ReplayNext]_<<vars, replayVars>>

-----------------------------------------------------------------------------
\* And nothing is read before it is written.
Replayable == Handled /\ EveryReadWritten(prog)

(***************************************************************************)
(* The text with registers does what the text with temporaries does: every *)
(* command, however often and on whatever road it is come to, finds the    *)
(* operands that the temporaries had. This takes all tools: a range too    *)
(* short, an edge not drawn, a register given out twice, or an operand     *)
(* replaced in one place and not in another one, and some command reads    *)
(* the value of another temporary.                                         *)
(***************************************************************************)
MeaningKept == at \in DOMAIN prog => SameOperands(at) \/ ~Replayable
=============================================================================
