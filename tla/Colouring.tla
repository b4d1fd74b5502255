----------------------------- MODULE Colouring -----------------------------
(***************************************************************************)
(* What a register allocator promises: vertices of an interference graph   *)
(* get a register one at a time, a register is never taken back or         *)
(* exchanged, and no two vertices joined by an edge ever hold the same     *)
(* one.  Giving up is allowed, reporting success on a graph that is not    *)
(* fully coloured is not.                                                  *)
(***************************************************************************)
EXTENDS Integers

CONSTANTS
  Vertex,     \* the vertices there may be
  NumRegs     \* registers 0 .. NumRegs - 1

VARIABLES
  edges,      \* the interference graph: a set of pairs of vertices
  colour,     \* the register of a vertex, -1 when it has none
  outcome     \* "colouring", "coloured" or "gave up"

Joined(v, w) == <<v, w>> \in edges \/ <<w, v>> \in edges

Uncoloured == [v \in Vertex |-> -1]

Init == colour = Uncoloured /\ outcome = "colouring"

Assign(v, r) ==
  /\ outcome = "colouring"
  /\ colour[v] = -1
  /\ \A w \in Vertex : Joined(v, w) => colour[w] # r
  /\ colour' = [colour EXCEPT ![v] = r]
  /\ UNCHANGED <<edges, outcome>>

Succeed ==
  /\ outcome = "colouring"
  /\ \A e \in edges : colour[e[1]] # -1 /\ colour[e[2]] # -1
  /\ outcome' = "coloured"
  /\ UNCHANGED <<edges, colour>>

GiveUp ==
  /\ outcome = "colouring"
  /\ outcome' = "gave up"
  /\ UNCHANGED <<edges, colour>>

Next == Succeed \/ GiveUp \/ \E v \in Vertex, r \in 0 .. NumRegs - 1 : Assign(v, r)

Spec == Init /\ [][Next]_<<edges, colour, outcome>>
=============================================================================
