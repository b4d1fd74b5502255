---------------------------- MODULE Interference ----------------------------
(***************************************************************************)
(* Step [6] of the liveness tool (VerifyCodeGen/main.c): the two loops     *)
(* that compare the live ranges of all pairs of temporaries and write      *)
(* InterferenceGraph.txt, one line <<i, j>> for each pair that meets.      *)
(* The line "-1" behind them is the end of the sequence.                   *)
(***************************************************************************)
EXTENDS Integers, Sequences

CONSTANTS
  NumTemporaries,
  Ranges           \* the pairs of arrays [low, high] that step [5] may leave

Temporary == 0 .. NumTemporaries - 1

VARIABLES
  range,     \* low and high, read only
  i, j,      \* the pair of temporaries the loops are at
  graph,     \* the edge lines of InterferenceGraph.txt
  closed     \* the file is complete

vars == <<range, i, j, graph, closed>>

TypeOK ==
  /\ range \in [low : [Temporary -> Int], high : [Temporary -> Int]]
  /\ i \in 1 .. NumTemporaries + 1
  /\ j \in 2 .. NumTemporaries + 1
  /\ graph \in Seq(Temporary \X Temporary)
  /\ closed \in BOOLEAN

\* Mutants of Overlap: a shared last command is none; only a range that starts inside.
OverlapStrict(r, a, b) ==
  /\ r.low[a] >= 0 /\ r.low[b] >= 0
  /\ r.low[a] < r.high[b] /\ r.low[b] < r.high[a]

OverlapForward(r, a, b) ==
  /\ r.low[a] >= 0 /\ r.low[b] >= 0
  /\ r.low[a] <= r.low[b] /\ r.low[b] <= r.high[a]

\* Both temporaries are live somewhere, and their ranges have a command in common.
Overlap(r, a, b) ==
  /\ r.low[a] >= 0
  /\ r.low[b] >= 0
  /\ r.low[a] <= r.high[b]
  /\ r.low[b] <= r.high[a]

Start(r) ==
  /\ range = r
  /\ i = 1
  /\ j = 2
  /\ graph = <<>>
  /\ closed = FALSE

Init == \E r \in Ranges : Start(r)

ComparePair ==
  /\ ~closed
  /\ i < NumTemporaries
  /\ j < NumTemporaries
  /\ graph' = IF Overlap(range, i, j) THEN Append(graph, <<i, j>>) ELSE graph
  /\ j' = j + 1
  /\ UNCHANGED <<range, i, closed>>

\* Mutant of NextRow: the next row starts on the diagonal.
NextRowFrom(first) ==
  /\ ~closed
  /\ i < NumTemporaries
  /\ j >= NumTemporaries
  /\ i' = i + 1
  /\ j' = first
  /\ UNCHANGED <<range, graph, closed>>

NextRowFromDiagonal == NextRowFrom(i + 1)

NextRow ==
  /\ ~closed
  /\ i < NumTemporaries
  /\ j >= NumTemporaries
  /\ i' = i + 1
  /\ j' = i + 2
  /\ UNCHANGED <<range, graph, closed>>

CloseFile ==
  /\ ~closed
  /\ i >= NumTemporaries
  /\ closed' = TRUE
  /\ UNCHANGED <<range, i, j, graph>>

Next == ComparePair \/ NextRow \/ CloseFile

Spec == Init /\ [][Next]_vars

-----------------------------------------------------------------------------
(***************************************************************************)
(* The allocator relies on three facts about the file: every line names    *)
(* the smaller temporary first, the lines come in the order of their first *)
(* temporary (it keeps a running maximum of that column, so a line out of  *)
(* order would be filed under another temporary), and no pair comes twice. *)
(***************************************************************************)
Before(e, f) == e[1] < f[1] \/ (e[1] = f[1] /\ e[2] < f[2])

FileOrdered ==
  /\ \A k \in 1 .. Len(graph) : 1 <= graph[k][1] /\ graph[k][1] < graph[k][2]
  /\ \A k, l \in 1 .. Len(graph) : k < l => Before(graph[k], graph[l])

(***************************************************************************)
(* The finished file has exactly the pairs of numbered temporaries (number *)
(* 0 is left out) that are in the middle of their ranges at one command.   *)
(***************************************************************************)
InRange(t, c) == range.low[t] <= c /\ c <= range.high[t] /\ range.low[t] >= 0

Lines == {graph[k] : k \in 1 .. Len(graph)}

FileComplete ==
  closed => Lines = {e \in (Temporary \ {0}) \X (Temporary \ {0}) :
                       /\ e[1] < e[2]
                       /\ \E c \in 0 .. range.high[e[1]] : InRange(e[1], c) /\ InRange(e[2], c)}
=============================================================================
