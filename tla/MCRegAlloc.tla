----------------------------- MODULE MCRegAlloc -----------------------------
(***************************************************************************)
(* Model checking of RegAlloc: every file over a few vertices, and chosen  *)
(* graphs with the eight registers of the code.                            *)
(***************************************************************************)
EXTENDS RegAlloc, SequencesExt

\* The pairs of vertices, and the lines of a set of edges, in the order in which
\* the liveness tool writes them.
Pairs == FlattenSeq([a \in 1 .. MaxVertex |-> [b \in 1 .. MaxVertex - a |-> <<a, a + b>>]])

LinesOf(edges) == SelectSeq(Pairs, LAMBDA e : e \in edges)

AllFiles == {LinesOf(edges) : edges \in SUBSET Range(Pairs)}

(***************************************************************************)
(* One temporary that is live throughout and MaxVertex - 1 short-lived     *)
(* ones one after the other: the first vertex has every other one as its   *)
(* neighbour, every other one has a single neighbour.                      *)
(***************************************************************************)
Star == {LinesOf({<<1, b>> : b \in 2 .. m}) : m \in 2 .. MaxVertex}
=============================================================================
