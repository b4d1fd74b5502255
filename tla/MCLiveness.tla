----------------------------- MODULE MCLiveness -----------------------------
(***************************************************************************)
(* Model checking of Liveness over flow graphs that steps [2] to [4] can   *)
(* build: a command reads at most two temporaries, writes at most one, and *)
(* is followed by the next command, a jump target, both, or nothing.       *)
(***************************************************************************)
EXTENDS Liveness

Operand == -1 .. NumTemporaries - 1

\* Nothing behind it, a jump back to the start, or the next command and a branch.
Exits(c) == {<<-1, -1>>, <<0, -1>>, <<c + 1, -1>>} \cup {<<c + 1, d>> : d \in Command}

Exiting(exits(_)) == {f \in [Command -> Cell \X Cell] : \A c \in Command : f[c] \in exits(c)}

\* Temporary 0 alone, with all of these exits from every command.
OneTemporary ==
  [use : [Command -> {-1} \X {-1, 0}], def : [Command -> {-1, 0}], out_edges : Exiting(Exits)]

\* All temporaries, one after the other, in a row of commands or a loop.
OnlyLastJumps(c) == IF c = NumCommands - 1 THEN Exits(c) ELSE {<<c + 1, -1>>}

AllTemporaries ==
  [use : [Command -> {<<-1, -1>>, <<-1, 1>>, <<0, 1>>}], def : [Command -> Operand],
   out_edges : Exiting(OnlyLastJumps)]

SomeFlowGraphs == OneTemporary \cup AllTemporaries
=============================================================================
