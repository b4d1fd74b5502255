----------------------------- MODULE Toolchain -----------------------------
(***************************************************************************)
(* The three programs, run by hand, and the files between them:            *)
(*                                                                         *)
(*   source -> compiler -> tiger_prog.s -> liveness -> InterferenceGraph   *)
(*   tiger_prog.s, InterferenceGraph -> allocator -> MIPS_ASM_Prog.s       *)
(*                                                                         *)
(* No tool knows which run of another one wrote its input: a file that is  *)
(* stale or cut off is used like any other. The user edits the source,     *)
(* runs the tools in any order, and may break one off at any point.        *)
(***************************************************************************)
EXTENDS Naturals

(***************************************************************************)
(* What matters of a source:                                               *)
(*   parses     it is there, and is a Tiger program                        *)
(*   compiles   "silently", "with messages", or with a crash of the        *)
(*              compiler "before" or "after" it opens its file             *)
(*   readable   the grammar of the liveness tool has a command for all of  *)
(*              its program (Execution!Readable)                           *)
(*   fits       the program has no more commands than the arrays of the    *)
(*              liveness tool have cells                                   *)
(*   colourable the allocator does not give up on its graph                *)
(***************************************************************************)
CONSTANT Sources

ASSUME ToolchainAssumption ==
  \A s \in Sources : s.compiles \in {"silently", "with messages", "crash before", "crash after"}

VARIABLES
  source,
  running, \* the tool that is running, or "nobody"
  opened,  \* it has opened, and so emptied, its output
  prog,    \* tiger_prog.s
  graph,   \* InterferenceGraph.txt
  final,   \* MIPS_ASM_Prog.s
  ran      \* history: the tools, in their order, that were run since the edit and had nothing to say

vars == <<source, running, opened, prog, graph, final, ran>>

Tools    == {"compiler", "liveness", "allocator"}
Stage(t) == CASE t = "compiler" -> 1 [] t = "liveness" -> 2 [] t = "allocator" -> 3

\* A file holds none, some or all of what is made from "of"; or the graph of something else.
Nothing        == [name |-> "nothing"]
Mixture        == [name |-> "a mixture"]
File(part, of) == [part |-> part, of |-> of]
Missing        == File("missing", Nothing)
All(of)        == File("all", of)
CutOff(of)     == {File("none", of), File("some", of)}
Strange(of)    == File("strange", of)
Graph(of)      == {All(of), Strange(of)} \cup CutOff(of)

Programs == {Missing} \cup {All(s) : s \in Sources} \cup UNION {CutOff(s) : s \in Sources}

Init ==
  /\ source \in Sources
  /\ running = "nobody"
  /\ opened = FALSE
  /\ prog = Missing /\ graph = Missing /\ final = Missing
  /\ ran = 0

-----------------------------------------------------------------------------
Edit ==
  /\ running = "nobody"
  /\ source' \in Sources \ {source}
  /\ ran' = 0
  /\ UNCHANGED <<running, opened, prog, graph, final>>

\* What has been made of the old output of the tool is no longer of the new one.
Run(tool) ==
  /\ running = "nobody"
  /\ running' = tool
  /\ ran' = IF ran < Stage(tool) THEN ran ELSE Stage(tool) - 1
  /\ UNCHANGED <<source, opened, prog, graph, final>>

Working(tool, file) == running = tool /\ opened = file

\* The run is over: with a message, a crash or an interruption, or with nothing said.
Loudly   == running' = "nobody" /\ opened' = FALSE /\ UNCHANGED ran
Silently ==
  /\ running' = "nobody"
  /\ opened' = FALSE
  /\ ran' = IF ran = Stage(running) - 1 THEN Stage(running) ELSE ran

OpensFile == opened' = TRUE /\ UNCHANGED <<running, ran>>

\* The buffers of a tool that ends in a crash or is broken off are not all written.
Cut(file) == file' \in CutOff(file.of)

-----------------------------------------------------------------------------
CompilerRefuses ==
  /\ Working("compiler", FALSE)
  /\ ~source.parses
  /\ Loudly
  /\ UNCHANGED <<source, prog, graph, final>>

CompilerCrashes ==
  /\ Working("compiler", FALSE)
  /\ source.parses /\ source.compiles = "crash before"
  /\ Loudly
  /\ UNCHANGED <<source, prog, graph, final>>

\* Messages of the analysis keep nobody from going on.
CompilerOpens ==
  /\ Working("compiler", FALSE)
  /\ source.parses /\ source.compiles # "crash before"
  /\ prog' = File("none", source)
  /\ OpensFile
  /\ UNCHANGED <<source, graph, final>>

CompilerWrites ==
  /\ Working("compiler", TRUE)
  /\ CASE source.compiles = "silently"      -> prog' = All(source) /\ Silently
       [] source.compiles = "with messages" -> prog' = All(source) /\ Loudly
       [] source.compiles = "crash after"   -> Cut(prog) /\ Loudly
  /\ UNCHANGED <<source, graph, final>>

-----------------------------------------------------------------------------
\* A text that is cut off may end behind a command.
MayParse(file)     == file.part = "some" \/ (file.part = "all" /\ file.of.readable)
MayBeRefused(file) == file.part = "all" => ~file.of.readable

\* Mutant: nothing is said of a program that does not parse.
LivenessRefusesSilently ==
  /\ Working("liveness", FALSE)
  /\ MayBeRefused(prog)
  /\ Silently
  /\ UNCHANGED <<source, prog, graph, final>>

\* Returns before it opens its output: the graph of the program before stays.
LivenessRefuses ==
  /\ Working("liveness", FALSE)
  /\ MayBeRefused(prog)
  /\ Loudly
  /\ UNCHANGED <<source, prog, graph, final>>

\* The arrays are filled before the file is opened.
LivenessCrashes ==
  /\ Working("liveness", FALSE)
  /\ MayParse(prog) /\ ~prog.of.fits
  /\ Loudly
  /\ UNCHANGED <<source, prog, graph, final>>

\* Mutant: a tree that is not there is analysed.
LivenessOpensAnyway ==
  /\ Working("liveness", FALSE)
  /\ graph' = File("none", prog)
  /\ OpensFile
  /\ UNCHANGED <<source, prog, final>>

LivenessOpens ==
  /\ Working("liveness", FALSE)
  /\ MayParse(prog)
  /\ graph' = File("none", prog)
  /\ OpensFile
  /\ UNCHANGED <<source, prog, final>>

LivenessWrites ==
  /\ Working("liveness", TRUE)
  /\ graph' \in {All(prog)} \cup {g \in {Strange(prog)} : ~prog.of.fits}
  /\ Silently
  /\ UNCHANGED <<source, prog, final>>

-----------------------------------------------------------------------------
\* Of a graph that is cut off, or not the program's, any colouring may come out.
WholeGraph(file) == file.part = "all" /\ file.of.part = "all"
Colours(file)    == WholeGraph(file) => file.of.of.colourable
MayGiveUp(file)  == WholeGraph(file) => ~file.of.of.colourable

\* The source of the program and of the registers it is given, if there is one such.
Made == IF graph = All(prog) /\ prog.part = "all" THEN prog.of ELSE Mixture

AllocatorFindsNoGraph ==
  /\ Working("allocator", FALSE)
  /\ graph = Missing
  /\ Loudly
  /\ UNCHANGED <<source, prog, graph, final>>

\* Before its output is opened: the registers of the program before stay.
AllocatorGivesUp ==
  /\ Working("allocator", FALSE)
  /\ graph # Missing /\ MayGiveUp(graph)
  /\ Loudly
  /\ UNCHANGED <<source, prog, graph, final>>

AllocatorOpens ==
  /\ Working("allocator", FALSE)
  /\ graph # Missing /\ Colours(graph)
  /\ final' = File("none", Made)
  /\ OpensFile
  /\ UNCHANGED <<source, prog, graph>>

\* Whatever program is there is rewritten with whatever registers the graph has given. There is
\* one, since a graph was made from one and nobody removes files.
AllocatorWrites ==
  /\ Working("allocator", TRUE)
  /\ final' = All(Made)
  /\ Silently
  /\ UNCHANGED <<source, prog, graph>>

-----------------------------------------------------------------------------
BreakOff ==
  /\ running # "nobody"
  /\ IF opened
     THEN CASE running = "compiler"  -> Cut(prog) /\ UNCHANGED <<graph, final>>
            [] running = "liveness"  -> Cut(graph) /\ UNCHANGED <<prog, final>>
            [] running = "allocator" -> Cut(final) /\ UNCHANGED <<prog, graph>>
     ELSE UNCHANGED <<prog, graph, final>>
  /\ Loudly
  /\ UNCHANGED source

Compiler  == CompilerRefuses \/ CompilerCrashes \/ CompilerOpens \/ CompilerWrites
Liveness  == LivenessRefuses \/ LivenessCrashes \/ LivenessOpens \/ LivenessWrites
Allocator ==
  \/ AllocatorFindsNoGraph \/ AllocatorGivesUp \/ AllocatorOpens \/ AllocatorWrites
User      == Edit \/ (\E tool \in Tools : Run(tool)) \/ BreakOff

Next == Compiler \/ Liveness \/ Allocator \/ User

Spec == Init /\ [][Next]_vars

-----------------------------------------------------------------------------
TypeOK ==
  /\ source \in Sources
  /\ running \in Tools \cup {"nobody"}
  /\ opened => running # "nobody"
  /\ prog \in Programs
  /\ graph # Missing => graph.of \in Programs \ {Missing} /\ graph \in Graph(graph.of)
  /\ final # Missing => final.of \in Sources \cup {Mixture} /\ final \in {All(final.of)} \cup CutOff(final.of)
  /\ ran \in 0 .. 3

(***************************************************************************)
(* Whatever lies about, stale, cut off or made from something else: when   *)
(* the three tools have been run in their order since the last edit, and   *)
(* none of them has had anything to say, the result is the whole program   *)
(* of this source with the registers of the whole graph of that program.   *)
(* A silent tool has not been broken off, has not crashed and has not      *)
(* refused its input. Only a program too long for the arrays of the        *)
(* liveness tool may get a strange graph without a word.                   *)
(***************************************************************************)
OrderlyRunIsSound ==
  /\ ran >= 1 => prog = All(source)
  /\ ran >= 2 /\ source.fits => graph = All(prog)
  /\ ran = 3 /\ source.fits => final = All(source)
=============================================================================
