------------------------------ MODULE Machine ------------------------------
(***************************************************************************)
(* What a program means to the machine that runs it, to be held against    *)
(* what the tools make of it: the reference for FlowGraph and Liveness.    *)
(***************************************************************************)
EXTENDS FlowGraph, Functions, FiniteSets

TargetOf(p, c) == {d \in DOMAIN p : p[d].op = "label" /\ p[d].label = p[c].label}

\* A label names the command behind it, a call comes back to the next command.
RunsOnTo(p, c) ==
  CASE p[c].op = "branch" -> {c + 1} \cup TargetOf(p, c)
    [] p[c].op = "jump"   -> TargetOf(p, c)
    [] p[c].op = "jr"     -> {}
    [] OTHER -> {c + 1}

Written(instr) == {t \in {Def(instr)} : IsTemp(t)}

Read(instr) ==
  LET written == IF instr.op \in {"store", "branch"} THEN {} ELSE {1}
  IN  {t \in {instr.args[q] : q \in DOMAIN instr.args \ written} : IsTemp(t)}

(***************************************************************************)
(* t is live before a command when some run from there on reads it before  *)
(* a command writes it: in at most as many steps as there are commands.    *)
(***************************************************************************)
LiveBefore(p, t) ==
  LET readers  == {c \in DOMAIN p : t \in Read(p[c])}
      keepers  == {c \in DOMAIN p : t \notin Written(p[c])}
      within[k \in 0 .. Cardinality(DOMAIN p)] ==
        IF k = 0 THEN readers
        ELSE LET sooner == within[k - 1]
             IN  sooner \cup {c \in keepers : RunsOnTo(p, c) \cap sooner # {}}
  IN  within[Cardinality(DOMAIN p)]

LiveBehind(p, t) ==
  LET before == LiveBefore(p, t) IN {c \in DOMAIN p : RunsOnTo(p, c) \cap before # {}}

Temporaries(p) == {t \in UNION {Range(p[c].args) : c \in DOMAIN p} : IsTemp(t)}

\* What a command writes is read by some run, and no run reads what was never written.
EveryWriteRead(p) ==
  \A t \in Temporaries(p) : {c \in DOMAIN p : t \in Written(p[c])} \subseteq LiveBehind(p, t)
EveryReadWritten(p) == \A t \in Temporaries(p) : 0 \notin LiveBefore(p, t)
=============================================================================
