----------------------------- MODULE MCBackend -----------------------------
(***************************************************************************)
(* Model checking of Backend: every program of NumCommands commands over   *)
(* an alphabet of instructions, in which a label stands at one place,      *)
(* every jump has its label, every write is read and every read was        *)
(* written (the properties say nothing of the other programs).             *)
(***************************************************************************)
EXTENDS Replay

CONSTANT Calls    \* are there calls in the programs

Temps == 1 .. NumTemporaries - 1

Alphabet ==
       {LoadImmediate(t) : t \in Temps}
  \cup {Store(t, Register) : t \in Temps}
  \cup {Arith(t, 1, 2) : t \in Temps}
  \cup {AddImmediate(2, 1), AddImmediate(NumTemporaries - 1, NumTemporaries - 1)}
  \cup {Branch(1, 2, "A"), Branch(Register, 1, "A"), Branch(2, Register, "A"),
        Jump("A"), Label("A")}
  \cup (IF Calls THEN {JumpAndLink("B")} ELSE {})

OneLabel(p) ==
  Cardinality({c \in DOMAIN p : p[c].op = "label"}) =
    IF \E c \in DOMAIN p : p[c].label = "A" THEN 1 ELSE 0

AllPrograms ==
  {p \in [0 .. NumCommands - 1 -> Alphabet] : OneLabel(p) /\ EveryReadWritten(p) /\ EveryWriteRead(p)}
=============================================================================
