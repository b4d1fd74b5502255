------------------------------ MODULE RegAlloc ------------------------------
(***************************************************************************)
(* The register allocator (Allocate_Registers/main.c): it reads the edge   *)
(* lines of InterferenceGraph.txt twice, first to size the array graph[],  *)
(* then to fill its adjacency lists, and gives every vertex the lowest     *)
(* register that neither a neighbour nor a neighbour's neighbour holds.    *)
(*                                                                         *)
(* The code has eight registers, $t0 .. $t7; here they are NumRegs.  The   *)
(* adjacency list of a vertex is the sequence of indices behind its cell;  *)
(* the "-1" line that ends the file is the end of the sequence of lines.   *)
(***************************************************************************)
EXTENDS Integers, Sequences, FiniteSetsExt, Functions

CONSTANTS
  NumRegs,
  MaxVertex,   \* the largest temporary the writer of the file puts in a line
  Files        \* the sequences of lines <<num1, num2>> that may be in the file

\* What the writer of the file sees to: Interference!FileOrdered.
Ordered(f) ==
  /\ \A k \in DOMAIN f : f[k][1] < f[k][2]
  /\ \A k, l \in DOMAIN f : k < l => f[k][1] <= f[l][1]

ASSUME RegAllocAssumption ==
  /\ NumRegs \in Nat \ {0}
  /\ MaxVertex \in Nat
  /\ \A f \in Files : f \in Seq((1 .. MaxVertex) \X (1 .. MaxVertex)) /\ Ordered(f)

VARIABLES
  file,            \* the lines of InterferenceGraph.txt
  pc,
  line,            \* the line that is read next
  max_alloc_num,   \* largest vertex so far; later the number of cells of graph[]
  vertex_handled,  \* largest first column seen in the second reading
  adj,             \* graph[v].next: the indices of v's list
  reg_assigned,    \* graph[v].reg_assigned
  i                \* the vertex the loop is at

vars == <<file, pc, line, max_alloc_num, vertex_handled, adj, reg_assigned, i>>

Vertices == 1 .. max_alloc_num - 1      \* the cells in use; cell 0 never is
Registers == 0 .. NumRegs - 1

Start(f) ==
  /\ file = f
  /\ pc = "measure"
  /\ line = 1
  /\ max_alloc_num = -1
  /\ vertex_handled = 0
  /\ adj = <<>>
  /\ reg_assigned = <<>>
  /\ i = 1

Init == \E f \in Files : Start(f)

(***************************************************************************)
(* First reading.  The first line, be it the "-1" of a file without edges, *)
(* initialises max_alloc_num.                                              *)
(***************************************************************************)
MeasureLine ==
  /\ pc = "measure"
  /\ line <= Len(file)
  /\ LET num1 == file[line][1]
         num2 == file[line][2]
         sofar == IF line = 1 THEN num1 ELSE max_alloc_num
     IN  max_alloc_num' = CASE num1 > num2 /\ num1 > sofar -> num1
                            [] num2 > num1 /\ num2 > sofar -> num2
                            [] OTHER -> sofar
  /\ line' = line + 1
  /\ UNCHANGED <<file, pc, vertex_handled, adj, reg_assigned, i>>

\* A mutant of AllocateGraph: max_alloc_num is not incremented.
AllocateTooFew ==
  /\ pc = "measure"
  /\ line > Len(file)
  /\ adj' = [v \in 1 .. max_alloc_num - 1 |-> <<>>]
  /\ line' = 1
  /\ pc' = "adjacency"
  /\ UNCHANGED <<file, max_alloc_num, vertex_handled, reg_assigned, i>>

\* malloc of max_alloc_num + 1 cells, their lists empty, and back to the file's start.
AllocateGraph ==
  /\ pc = "measure"
  /\ line > Len(file)
  /\ max_alloc_num' = max_alloc_num + 1
  /\ adj' = [v \in 1 .. max_alloc_num |-> <<>>]
  /\ line' = 1
  /\ pc' = "adjacency"
  /\ UNCHANGED <<file, vertex_handled, reg_assigned, i>>

(***************************************************************************)
(* Second reading: line num1 num2 is filed under the largest num1 so far.  *)
(***************************************************************************)
makeadj(lists, v, w) == [lists EXCEPT ![v] = Append(@, w)]

\* A mutant of Handled: the first line decides.
HandledOnce == IF vertex_handled = 0 THEN file[line][1] ELSE vertex_handled

Handled == IF vertex_handled < file[line][1] THEN file[line][1] ELSE vertex_handled

AddLine ==
  /\ pc = "adjacency"
  /\ line <= Len(file)
  /\ vertex_handled' = Handled
  /\ adj' = makeadj(makeadj(adj, Handled, file[line][2]), file[line][2], Handled)
  /\ line' = line + 1
  /\ UNCHANGED <<file, pc, max_alloc_num, reg_assigned, i>>

ClearRegisters ==
  /\ pc = "adjacency"
  /\ line > Len(file)
  /\ reg_assigned' = [v \in Vertices |-> -1]
  /\ pc' = "assign"
  /\ UNCHANGED <<file, line, max_alloc_num, vertex_handled, adj, i>>

(***************************************************************************)
(* findFreeReg marks the registers of every vertex met on the way from v   *)
(* to the end of the list of each of its neighbours; allocate_free_reg     *)
(* takes the lowest that is not marked.                                    *)
(***************************************************************************)
Neighbours(v) == Range(adj[v])

\* A mutant of Met: the walk starts behind the neighbour instead of at it.
MetBehind(v) == UNION {Neighbours(w) : w \in Neighbours(v)}

Met(v) == Neighbours(v) \cup UNION {Neighbours(w) : w \in Neighbours(v)}

\* Mutants of Free: the loop over the registers goes one too far, or not far enough.
FreeOneMore(v) == (0 .. NumRegs) \ {reg_assigned[w] : w \in Met(v)}
FreeOneLess(v) == (0 .. NumRegs - 2) \ {reg_assigned[w] : w \in Met(v)}

Free(v) == Registers \ {reg_assigned[w] : w \in Met(v)}

\* A mutant of findFreeReg: the loop stays where it is.
findFreeRegAgain ==
  /\ pc = "assign"
  /\ i < max_alloc_num
  /\ Free(i) # {}
  /\ reg_assigned' = [reg_assigned EXCEPT ![i] = Min(Free(i))]
  /\ UNCHANGED <<file, pc, line, max_alloc_num, vertex_handled, adj, i>>

findFreeReg ==
  /\ pc = "assign"
  /\ i < max_alloc_num
  /\ Free(i) # {}
  /\ reg_assigned' = [reg_assigned EXCEPT ![i] = Min(Free(i))]
  /\ i' = i + 1
  /\ UNCHANGED <<file, pc, line, max_alloc_num, vertex_handled, adj>>

\* "not enoguh registers to meet the demands, Quitting"
Quit ==
  /\ pc = "assign"
  /\ i < max_alloc_num
  /\ Free(i) = {}
  /\ pc' = "quit"
  /\ UNCHANGED <<file, line, max_alloc_num, vertex_handled, adj, reg_assigned, i>>

\* A mutant of PlaceLonely: the test of the list is the wrong way round.
PlaceOthers ==
  /\ pc = "assign"
  /\ i >= max_alloc_num
  /\ reg_assigned' = [v \in Vertices |-> IF adj[v] # <<>> THEN 0 ELSE reg_assigned[v]]
  /\ pc' = "allocated"
  /\ UNCHANGED <<file, line, max_alloc_num, vertex_handled, adj, i>>

\* A vertex with an empty list gets register 0; the program text is rewritten next.
PlaceLonely ==
  /\ pc = "assign"
  /\ i >= max_alloc_num
  /\ reg_assigned' = [v \in Vertices |-> IF adj[v] = <<>> THEN 0 ELSE reg_assigned[v]]
  /\ pc' = "allocated"
  /\ UNCHANGED <<file, line, max_alloc_num, vertex_handled, adj, i>>

Next ==
  \/ MeasureLine \/ AllocateGraph \/ AddLine \/ ClearRegisters
  \/ findFreeReg \/ Quit \/ PlaceLonely

Spec == Init /\ [][Next]_vars

\* One sequential program: nothing keeps it from its next step.
FairSpec == Spec /\ WF_vars(Next)

-----------------------------------------------------------------------------
Edges == {<<file[k][1], file[k][2]>> : k \in DOMAIN file}

Joined(v, w) == <<v, w>> \in Edges \/ <<w, v>> \in Edges

TypeOK ==
  /\ file \in Seq((1 .. MaxVertex) \X (1 .. MaxVertex))
  /\ pc \in {"measure", "adjacency", "assign", "quit", "allocated"}
  /\ line \in 1 .. Len(file) + 1
  /\ max_alloc_num \in -1 .. MaxVertex + 1
  /\ vertex_handled \in 0 .. MaxVertex
  /\ i \in 1 .. MaxVertex + 1
  /\ pc = "measure" => adj = <<>>
  /\ pc # "measure" => adj \in [Vertices -> Seq(1 .. MaxVertex)]
  /\ pc \in {"measure", "adjacency"} => reg_assigned = <<>>
  /\ pc \notin {"measure", "adjacency"} => reg_assigned \in [Vertices -> -1 .. NumRegs - 1]

(***************************************************************************)
(* Every cell of graph[] that the second reading or the search for a       *)
(* register touches was allocated by the first reading.                    *)
(***************************************************************************)
IndexInBounds ==
  /\ pc = "adjacency" /\ line <= Len(file) => {Handled, file[line][2]} \subseteq Vertices
  /\ pc \in {"adjacency", "assign"} => \A v \in Vertices : Neighbours(v) \subseteq Vertices

(***************************************************************************)
(* The lists hold the graph of the file, each edge from both of its ends:  *)
(* filing a line under the running maximum of the first column instead of  *)
(* its own first column loses nothing.                                     *)
(***************************************************************************)
ListsHoldGraph ==
  pc \in {"assign", "allocated"} =>
    \A v \in Vertices : Neighbours(v) = {w \in Vertices : Joined(v, w)}

(***************************************************************************)
(* The point of the program: two temporaries that interfere never share a  *)
(* register, and after the last vertex every vertex has one.               *)
(***************************************************************************)
ProperColouring ==
  /\ pc \in {"assign", "quit", "allocated"} =>
       \A v, w \in Vertices :
         Joined(v, w) /\ reg_assigned[v] # -1 => reg_assigned[v] # reg_assigned[w]
  /\ pc = "allocated" => \A v \in Vertices : reg_assigned[v] \in Registers

(***************************************************************************)
(* The allocator gives up on a vertex only when at least NumRegs other     *)
(* vertices are within two edges of it.                                    *)
(***************************************************************************)
QuitOnlyWhenCrowded ==
  pc = "quit" =>
    LET near == {w \in Vertices : \/ Joined(i, w)
                                  \/ \E x \in Vertices : Joined(i, x) /\ Joined(x, w)}
    IN  Cardinality(near \ {i}) >= NumRegs

(***************************************************************************)
(* The comment in allocate_free_reg: when it fails, the neighbours of the  *)
(* vertex occupy all the registers.                                        *)
(***************************************************************************)
NeighboursOccupyAll ==
  pc = "quit" => Registers \subseteq {reg_assigned[w] : w \in Neighbours(i)}

\* The allocator is an implementation of Colouring.
Colour == [v \in 1 .. MaxVertex |-> IF v \in DOMAIN reg_assigned THEN reg_assigned[v] ELSE -1]

Outcome == CASE pc = "quit" -> "gave up"
             [] pc = "allocated" -> "coloured"
             [] OTHER -> "colouring"

Abstract ==
  INSTANCE Colouring WITH
    Vertex <- 1 .. MaxVertex, edges <- Edges, colour <- Colour, outcome <- Outcome

(***************************************************************************)
(* Both readings of the file, the assignment and the placing of the lonely *)
(* vertices together only ever colour one more vertex, or end.             *)
(***************************************************************************)
ImplementsColouring == Abstract!Spec

\* The allocator comes to an end, in success or in failure.
Terminates == <>(pc \in {"quit", "allocated"})
=============================================================================
