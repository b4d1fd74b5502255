--------------------------- MODULE Backend_proofs ---------------------------
(***************************************************************************)
(* Proofs about Backend, for every number of commands, temporaries and     *)
(* registers and every program of the grammar: the tools together, each    *)
(* working on what the one before it has proved to leave.                  *)
(***************************************************************************)
EXTENDS Replay, Extrema, FiniteSetTheorems, SequenceTheorems, TLAPS

\* The proofs about the single tools, read in the state of the whole road.
LP == INSTANCE Liveness_proofs

IP == INSTANCE Interference_proofs WITH Ranges <- {}

RP == INSTANCE RegAlloc_proofs WITH
        MaxVertex <- NumTemporaries - 1, Files <- {}, pc <- alloc, i <- vertex

WP == INSTANCE Rewrite_proofs WITH
        Sources <- {}, Cells <- {}, graph <- cells, pc <- rewrite

-----------------------------------------------------------------------------
\* Steps and starts of the tools are those that the proofs are about.
LEMMA LivenessSteps == L!Next => LP!Next
  BY DEF L!Next, L!StartTemp, L!ScanCommand, L!EndPass, L!EQUAL, L!Compare, L!Report, L!Finish,
         L!Uses, L!Defines, L!Followers, L!Marked, L!Command, L!Cell, L!Temporary, L!Min, L!Max,
         LP!Next, LP!StartTemp, LP!ScanCommand, LP!EndPass, LP!EQUAL, LP!Compare, LP!Report, LP!Finish,
         LP!Uses, LP!Defines, LP!Followers, LP!Marked, LP!Command, LP!Cell, LP!Temporary, LP!Min, LP!Max

LEMMA InterferenceSteps == I!Next => IP!Next
  BY DEF I!Next, I!ComparePair, I!NextRow, I!CloseFile, I!Overlap,
         IP!Next, IP!ComparePair, IP!NextRow, IP!CloseFile, IP!Overlap

LEMMA AllocationSteps == R!Next => RP!Next
  BY DEF R!Next, R!MeasureLine, R!AllocateGraph, R!AddLine, R!ClearRegisters, R!findFreeReg, R!Quit,
         R!PlaceLonely, R!Handled, R!makeadj, R!Vertices, R!Registers, R!Neighbours, R!Range, R!Met,
         R!Free, R!Min,
         RP!Next, RP!MeasureLine, RP!AllocateGraph, RP!AddLine, RP!ClearRegisters, RP!findFreeReg, RP!Quit,
         RP!PlaceLonely, RP!Handled, RP!makeadj, RP!Vertices, RP!Registers, RP!Neighbours, RP!Range, RP!Met,
         RP!Free, RP!Min

LEMMA RewritingSteps == W!Next => WP!Next
  BY DEF W!Next, W!WriteRegisters, W!Rewind, W!WriteLonely, W!Close, W!ReplaceEach, W!ReplaceFirst,
         W!get_tmp_info, W!TempPlaces, W!replaceAllString, W!Allocated, W!Cell, W!max_alloc_num,
         W!IsTempOperand, W!Reg, W!Min,
         WP!Next, WP!WriteRegisters, WP!Rewind, WP!WriteLonely, WP!Close, WP!ReplaceEach, WP!ReplaceFirst,
         WP!get_tmp_info, WP!TempPlaces, WP!replaceAllString, WP!Allocated, WP!Cell, WP!max_alloc_num,
         WP!IsTempOperand, WP!Reg, WP!Min

-----------------------------------------------------------------------------
(***************************************************************************)
(* The flow graph of a program of the grammar has the tables that the      *)
(* analysis works on: every successor is a command, the one behind the     *)
(* last, or none.                                                          *)
(***************************************************************************)
LEMMA InstructionFacts ==
  ASSUME NEW instr \in Instructions
  PROVE  /\ Use(instr) \in Int \X Int
         /\ Def(instr) \in Int
         /\ instr.args \in Seq(Nat \cup {Register})
         /\ Def(instr) # NoTemp => 1 \in DOMAIN instr.args /\ Def(instr) = instr.args[1]
         /\ \A q \in DOMAIN instr.args :
              IsTemp(instr.args[q]) => instr.args[q] \in Read(instr) \cup Written(instr)
<1>1. Register \in Int /\ NoTemp \in Int /\ Operands \subseteq Int /\ <<NoTemp, NoTemp>> \in Int \X Int
  BY DEF Register, NoTemp, Operands
<1>2. CASE instr \in [op : {"arith"}, args : Operands \X Operands \X Operands, label : {""}]
  <2>1. instr.op = "arith" /\ instr.args \in Operands \X Operands \X Operands
    BY <1>2
  <2>2. PICK a \in Operands, b \in Operands, c \in Operands : instr.args = <<a, b, c>>
    BY <2>1
  <2>3. Use(instr) = <<b, c>> /\ Def(instr) = a
    BY <2>1, <2>2 DEF Use, Def
  <2>4. \A q \in DOMAIN instr.args : q = 1 \/ q \in DOMAIN instr.args \ {1}
    OBVIOUS
  <2>5. \A q \in DOMAIN instr.args :
          IsTemp(instr.args[q]) => instr.args[q] \in Read(instr) \cup Written(instr)
    BY <2>1, <2>2, <2>3, <2>4 DEF Read, Written
  <2> QED
    BY <1>1, <2>2, <2>3, <2>5 DEF Operands
<1>3. CASE instr \in [op : {"load", "store", "move", "addi"}, args : Pair, label : {""}]
  <2>1. instr.op \in {"load", "store", "move", "addi"} /\ instr.args \in Operands \X Operands
    BY <1>3 DEF Pair
  <2>2. PICK a \in Operands, b \in Operands : instr.args = <<a, b>>
    BY <2>1
  <2>3. CASE instr.op = "store"
    <3>1. Use(instr) = <<a, b>> /\ Def(instr) = NoTemp
      BY <2>2, <2>3 DEF Use, Def
    <3>2. \A q \in DOMAIN instr.args :
            IsTemp(instr.args[q]) => instr.args[q] \in Read(instr) \cup Written(instr)
      BY <2>2, <2>3 DEF Read
    <3> QED
      BY <1>1, <2>2, <3>1, <3>2 DEF Operands
  <2>4. CASE instr.op # "store"
    <3>1. Use(instr) = <<b, NoTemp>> /\ Def(instr) = a
      BY <2>1, <2>2, <2>4 DEF Use, Def
    <3>2. \A q \in DOMAIN instr.args : q = 1 \/ q \in DOMAIN instr.args \ {1}
      OBVIOUS
    <3>3. instr.op \notin {"store", "branch"}
      BY <2>1, <2>4
    <3>4. \A q \in DOMAIN instr.args :
            IsTemp(instr.args[q]) => instr.args[q] \in Read(instr) \cup Written(instr)
      BY <2>2, <3>1, <3>2, <3>3 DEF Read, Written
    <3> QED
      BY <1>1, <2>2, <3>1, <3>4 DEF Operands
  <2> QED
    BY <2>3, <2>4
<1>4. CASE instr \in [op : {"li"}, args : [{1} -> Operands], label : {""}]
  <2>1. instr.op = "li" /\ instr.args \in [{1} -> Operands]
    BY <1>4
  <2>2. Use(instr) = <<NoTemp, NoTemp>> /\ Def(instr) = instr.args[1]
    BY <2>1 DEF Use, Def
  <2>3. instr.args \in [1 .. 1 -> Operands]
    BY <2>1
  <2>4. instr.args \in Seq(Operands)
    BY <2>3, SeqDef
  <2>5. \A q \in DOMAIN instr.args :
          IsTemp(instr.args[q]) => instr.args[q] \in Read(instr) \cup Written(instr)
    BY <2>1, <2>2 DEF Written
  <2> QED
    BY <1>1, <2>1, <2>2, <2>4, <2>5 DEF Operands
<1>5. CASE instr \in [op : {"branch"}, args : Pair, label : STRING]
  <2>1. instr.op = "branch" /\ instr.args \in Operands \X Operands
    BY <1>5 DEF Pair
  <2>2. PICK a \in Operands, b \in Operands : instr.args = <<a, b>>
    BY <2>1
  <2>3. Use(instr) \in {<<a, b>>, <<0, 0>>} /\ Def(instr) = NoTemp
    BY <2>1, <2>2 DEF Use, Def
  <2>4. \A q \in DOMAIN instr.args :
          IsTemp(instr.args[q]) => instr.args[q] \in Read(instr) \cup Written(instr)
    BY <2>1, <2>2 DEF Read
  <2> QED
    BY <1>1, <2>2, <2>3, <2>4 DEF Operands
<1>6. CASE instr \in [op : {"jump", "label", "jal"}, args : {<<>>}, label : STRING]
                  \cup [op : {"jr"}, args : {<<>>}, label : {""}]
  <2>1. instr.op \in {"jump", "label", "jal", "jr"} /\ instr.args = <<>>
    BY <1>6
  <2>2. Use(instr) = <<NoTemp, NoTemp>> /\ Def(instr) = NoTemp
    BY <2>1 DEF Use, Def
  <2>3. instr.args \in Seq(Nat \cup {Register}) /\ DOMAIN instr.args = {}
    BY <2>1, EmptySeq
  <2> QED
    BY <1>1, <2>2, <2>3
<1> QED
  BY <1>2, <1>3, <1>4, <1>5, <1>6 DEF Instructions

\* The first command that carries a text is one of the program, and the text of a command that
\* is no label is found behind the last one at the latest.
LEMMA LabelFound ==
  ASSUME NEW n0 \in Nat \ {0}, NEW p, DOMAIN p = 0 .. n0 - 1, NEW text
  PROVE  FindInstructionNumberOfLabel(p, text) \in 0 .. n0
<1> DEFINE carriers == {c \in DOMAIN p : InstructionToLabel(p)[c] = text}
           past == CHOOSE c \in {d + 1 : d \in DOMAIN p} : c \notin DOMAIN p
<1>1. carriers # {} => (CHOOSE c \in carriers : \A d \in carriers : c <= d) \in 0 .. n0
  <2>1. carriers \subseteq 0 .. n0 /\ carriers \subseteq Nat
    OBVIOUS
  <2> HIDE DEF carriers
  <2> QED
    BY <2>1, MinIn DEF Min
<1>2. past \in 0 .. n0
  <2>1. (n0 - 1) + 1 \in {d + 1 : d \in DOMAIN p} /\ (n0 - 1) + 1 \notin DOMAIN p
    <3>1. n0 - 1 \in DOMAIN p
      OBVIOUS
    <3>2. (n0 - 1) + 1 = n0 /\ n0 \notin 0 .. n0 - 1
      OBVIOUS
    <3> QED
      BY <3>1, <3>2
  <2>2. \A c \in {d + 1 : d \in DOMAIN p} : c \in 0 .. n0
    OBVIOUS
  <2> QED
    BY <2>1, <2>2
<1>3. 0 \in 0 .. n0
  OBVIOUS
<1> QED
  <2> HIDE DEF past
  <2>1. CASE carriers # {}
    BY <1>1, <2>1 DEF FindInstructionNumberOfLabel
  <2>2. CASE carriers = {} /\ text = ""
    BY <1>2, <2>2 DEF FindInstructionNumberOfLabel, past
  <2>3. CASE carriers = {} /\ text # ""
    BY <1>3, <2>3 DEF FindInstructionNumberOfLabel
  <2> QED
    BY <2>1, <2>2, <2>3

Graphs(commands, targets) ==
  [use : [commands -> Int \X Int], def : [commands -> Int], out_edges : [commands -> targets \X targets]]

LEMMA FlowGraphTyped ==
  ASSUME NEW p \in Programs, NEW g \in FlowGraphsOf(p)
  PROVE  g \in Graphs(0 .. NumCommands - 1, -1 .. NumCommands)
<1>1. /\ NumCommands \in Nat \ {0} /\ DOMAIN p = 0 .. NumCommands - 1
      /\ \A c \in 0 .. NumCommands - 1 : p[c] \in Instructions
  BY BackendAssumption
<1>2. PICK overlay \in [DOMAIN p -> BranchOverlay] : g = FlowGraphOf(p, overlay)
  BY DEF FlowGraphsOf
<1>3. \A c \in 0 .. NumCommands - 1 : Use(p[c]) \in Int \X Int /\ Def(p[c]) \in Int
  BY <1>1, InstructionFacts
<1>4. ASSUME NEW c \in 0 .. NumCommands - 1
      PROVE  OutEdges(p, c, overlay[c]) \in (-1 .. NumCommands) \X (-1 .. NumCommands)
  <2>1. c + 1 \in -1 .. NumCommands /\ NoEdge \in -1 .. NumCommands
    BY <1>1 DEF NoEdge
  <2>2. \A text : FindInstructionNumberOfLabel(p, text) \in -1 .. NumCommands
    <3>1. \A text : FindInstructionNumberOfLabel(p, text) \in 0 .. NumCommands
      BY <1>1, LabelFound
    <3> QED
      BY <1>1, <3>1
  <2>3. CASE p[c].op = "branch"
    BY <2>1, <2>2, <2>3 DEF OutEdges
  <2>4. CASE p[c].op = "jump"
    BY <2>1, <2>2, <2>4 DEF OutEdges
  <2>5. CASE p[c].op \in {"jal", "jr"}
    BY <2>1, <2>5 DEF OutEdges
  <2>6. CASE p[c].op \notin {"branch", "jump", "jal", "jr"}
    BY <2>1, <2>6 DEF OutEdges
  <2> QED
    BY <2>3, <2>4, <2>5, <2>6
<1>5. /\ g.use \in [0 .. NumCommands - 1 -> Int \X Int]
      /\ g.def \in [0 .. NumCommands - 1 -> Int]
      /\ g.out_edges \in [0 .. NumCommands - 1 -> (-1 .. NumCommands) \X (-1 .. NumCommands)]
      /\ g = [use |-> g.use, def |-> g.def, out_edges |-> g.out_edges]
  BY <1>1, <1>2, <1>3, <1>4 DEF FlowGraphOf
<1> QED
  BY <1>5 DEF Graphs

-----------------------------------------------------------------------------
(***************************************************************************)
(* The inductive invariant: every tool's own invariant from where it is    *)
(* started, what it is started on, and that a tool is left only when it    *)
(* has come to its end.                                                    *)
(***************************************************************************)
AnalysisInv ==
  /\ LP!LInv
  /\ LP!RangesExact
  /\ pc = "done" => temp = NumTemporaries
  /\ stage # "liveness" => pc = "done"

DrawingInv ==
  /\ stage = "liveness" => I!Start(<<>>)
  /\ stage # "liveness" => IP!FInv /\ range = [low |-> low, high |-> high]
  /\ stage \in {"allocation", "rewriting"} => closed

ColouringInv ==
  /\ RP!IInv
  /\ stage \in {"liveness", "interference"} => R!Start(<<>>)
  /\ stage \in {"allocation", "rewriting"} => file = graph
  /\ stage = "rewriting" => alloc = "allocated"

TextInv ==
  /\ WP!RInv
  /\ stage # "rewriting" => W!Start(<<>>, <<>>)
  /\ stage = "rewriting" => source = SourceLines /\ cells = reg_assigned

BInv ==
  /\ prog \in Programs
  /\ flow \in FlowGraphsOf(prog)
  /\ stage \in {"liveness", "interference", "allocation", "rewriting"}
  /\ AnalysisInv
  /\ DrawingInv
  /\ ColouringInv
  /\ TextInv

-----------------------------------------------------------------------------
\* What the proofs about the single tools assume of the constants.
LEMMA FlowGraphsTyped ==
  FlowGraphs \subseteq [use       : [LP!Command -> Int \X Int],
                        def       : [LP!Command -> Int],
                        out_edges : [LP!Command -> LP!Cell \X LP!Cell]]
BY FlowGraphTyped DEF FlowGraphs, Graphs, LP!Command, LP!Cell

LEMMA InitBInv == Init => BInv
<1> SUFFICES ASSUME Init
             PROVE  BInv
  OBVIOUS
<1>1. NumCommands \in Nat \ {0} /\ NumTemporaries \in Nat \ {0} /\ NumRegs \in Nat \ {0}
      /\ NumTemporaries - 1 \in Nat
  BY BackendAssumption
<1>2. PICK g \in FlowGraphsOf(prog) : L!Start(g)
  BY DEF Init
<1>3. prog \in Programs /\ flow = g /\ g \in FlowGraphs /\ stage = "liveness" /\ pc = "next_temp"
  BY <1>2 DEF Init, FlowGraphs, L!Start
<1>4. LP!Init
  BY <1>2, <1>3 DEF LP!Init, LP!Start, L!Start, L!Cell, L!Command, L!Temporary,
                    LP!Cell, LP!Command, LP!Temporary
<1>5. AnalysisInv
  BY <1>1, <1>3, <1>4, FlowGraphsTyped, LP!InitLInv, LP!InitRanges DEF AnalysisInv
<1>6. DrawingInv
  BY <1>3 DEF Init, Idle, DrawingInv
<1>7. ColouringInv
  <2>1. <<>> \in Seq((1 .. NumTemporaries - 1) \X (1 .. NumTemporaries - 1)) /\ RP!Ordered(<<>>)
    BY EmptySeq DEF RP!Ordered
  <2>2. RP!Start(<<>>)
    BY DEF Init, Idle, R!Start, RP!Start
  <2>3. RP!IInv
    BY <1>1, <2>1, <2>2, RP!StartInv
  <2> QED
    BY <1>3, <2>3 DEF Init, Idle, ColouringInv
<1>8. TextInv
  <2>1. <<>> \in Seq(Seq(WP!Operands)) /\ <<>> \in Seq(0 .. 7) /\ cell0 \in WP!Garbage
    BY EmptySeq DEF Init, W!Junk, WP!Junk, WP!Garbage
  <2>2. WP!Start(<<>>, <<>>)
    BY DEF Init, Idle, W!Start, WP!Start
  <2>3. WP!RInv
    BY <2>1, <2>2, WP!StartRInv
  <2> QED
    BY <1>3, <2>3 DEF Init, Idle, TextInv
<1> QED
  BY <1>2, <1>3, <1>5, <1>6, <1>7, <1>8 DEF BInv

-----------------------------------------------------------------------------
\* A step of one tool, or of none, keeps its invariant.
LEMMA ToolSteps ==
  ASSUME BInv
  PROVE  /\ [L!Next]_livenessVars => LP!LInv' /\ LP!RangesExact'
         /\ [I!Next]_interferenceVars /\ stage # "liveness" => IP!FInv'
         /\ [R!Next]_allocVars => RP!IInv'
         /\ [W!Next]_rewriteVars => WP!RInv'
<1>1. NumCommands \in Nat \ {0} /\ NumTemporaries \in Nat \ {0} /\ NumRegs \in Nat \ {0}
      /\ NumTemporaries - 1 \in Nat
  BY BackendAssumption
<1>2. ASSUME [L!Next]_livenessVars
      PROVE  LP!LInv' /\ LP!RangesExact'
  <2>1. [LP!Next]_(LP!vars)
    BY <1>2, LivenessSteps DEF livenessVars, LP!vars
  <2> QED
    BY <1>1, <2>1, FlowGraphsTyped, LP!NextLInv, LP!RangesStep DEF BInv, AnalysisInv
<1>3. ASSUME [I!Next]_interferenceVars, stage # "liveness"
      PROVE  IP!FInv'
  <2>1. [IP!Next]_(IP!vars)
    BY <1>3, InterferenceSteps DEF interferenceVars, IP!vars
  <2> QED
    BY <1>3, <2>1, IP!NextFInv DEF BInv, DrawingInv
<1>4. ASSUME [R!Next]_allocVars
      PROVE  RP!IInv'
  <2>1. [RP!Next]_(RP!vars)
    BY <1>4, AllocationSteps DEF allocVars, RP!vars
  <2> QED
    BY <1>1, <2>1, RP!NextInv DEF BInv, ColouringInv
<1>5. ASSUME [W!Next]_rewriteVars
      PROVE  WP!RInv'
  <2>1. [WP!Next]_(WP!vars)
    BY <1>5, RewritingSteps DEF rewriteVars, WP!vars
  <2> QED
    BY <2>1, WP!NextRInv DEF BInv, TextInv
<1> QED
  BY <1>2, <1>3, <1>4, <1>5

\* The tools that have not been started are where they start from.
LEMMA WaitingStays ==
  /\ UNCHANGED interferenceVars => (I!Start(<<>>) => I!Start(<<>>)')
  /\ UNCHANGED allocVars => (R!Start(<<>>) => R!Start(<<>>)')
  /\ UNCHANGED rewriteVars => (W!Start(<<>>, <<>>) => W!Start(<<>>, <<>>)')
BY DEF interferenceVars, allocVars, rewriteVars, I!Start, R!Start, W!Start

LEMMA LivenessStep == BInv /\ Liveness => BInv'
<1> SUFFICES ASSUME BInv, Liveness
             PROVE  BInv'
  OBVIOUS
<1>1. /\ stage = "liveness" /\ L!Next
      /\ UNCHANGED <<prog, stage>> /\ UNCHANGED interferenceVars
      /\ UNCHANGED allocVars /\ UNCHANGED rewriteVars
  BY DEF Liveness
<1>2. flow' = flow /\ (pc' = "done" => temp' = NumTemporaries)
  BY <1>1 DEF L!Next, L!StartTemp, L!ScanCommand, L!EndPass, L!Compare, L!Report, L!Finish
<1>3. LP!LInv' /\ LP!RangesExact' /\ RP!IInv' /\ WP!RInv'
  BY <1>1, ToolSteps
<1>4. I!Start(<<>>)' /\ R!Start(<<>>)' /\ W!Start(<<>>, <<>>)'
  BY <1>1, WaitingStays DEF BInv, DrawingInv, ColouringInv, TextInv
<1>5. prog' \in Programs /\ flow' \in FlowGraphsOf(prog')
  BY <1>1, <1>2 DEF BInv
<1> QED
  BY <1>1, <1>2, <1>3, <1>4, <1>5 DEF BInv, AnalysisInv, DrawingInv, ColouringInv, TextInv

\* The ranges that the finished analysis leaves are those that the drawing of the graph expects.
LEMMA RangesLeft ==
  ASSUME BInv, pc = "done"
  PROVE  [low |-> low, high |-> high] \in IP!Arrays
<1>1. /\ low \in [LP!Temporary -> -1 .. NumCommands - 1]
      /\ high \in [LP!Temporary -> -1 .. NumCommands - 1]
      /\ LP!RangesExact /\ temp = NumTemporaries
      /\ NumCommands \in Nat \ {0} /\ NumTemporaries \in Nat \ {0}
  BY BackendAssumption DEF BInv, AnalysisInv, LP!LInv, LP!TypeOK
<1>2. ASSUME NEW t \in LP!Temporary
      PROVE  low[t] \in Int /\ high[t] \in Int /\ low[t] <= high[t]
  <2>1. LP!Spans(low[t], high[t], LP!LiveAt(t))
    BY <1>1 DEF LP!RangesExact, LP!Temporary
  <2>2. low[t] \in Int /\ high[t] \in Int
    BY <1>1
  <2> QED
    BY <2>1, <2>2 DEF LP!Spans
<1>3. low \in [IP!Temporary -> Int] /\ high \in [IP!Temporary -> Int]
  BY <1>1, <1>2 DEF LP!Temporary, IP!Temporary
<1>4. \A t \in IP!Temporary : low[t] <= high[t]
  BY <1>2 DEF LP!Temporary, IP!Temporary
<1> QED
  BY <1>3, <1>4 DEF IP!Arrays

LEMMA DrawingStarts == \A r \in IP!Arrays : IP!Start(r) => IP!FInv
BY BackendAssumption, IP!StartFInv

LEMMA StartInterferenceStep == BInv /\ StartInterference => BInv'
<1> SUFFICES ASSUME BInv, StartInterference
             PROVE  BInv'
  OBVIOUS
<1>1. /\ stage = "liveness" /\ pc = "done" /\ stage' = "interference"
      /\ range' = [low |-> low, high |-> high] /\ UNCHANGED <<i, j, graph, closed>>
      /\ UNCHANGED prog /\ UNCHANGED livenessVars /\ UNCHANGED allocVars /\ UNCHANGED rewriteVars
  BY DEF StartInterference
<1>2. UNCHANGED <<flow, pc, temp, low, high>>
  BY <1>1 DEF livenessVars
<1>3. LP!LInv' /\ LP!RangesExact' /\ RP!IInv' /\ WP!RInv'
  BY <1>1, ToolSteps
<1>4. R!Start(<<>>)' /\ W!Start(<<>>, <<>>)'
  BY <1>1, WaitingStays DEF BInv, ColouringInv, TextInv
<1>5. IP!FInv'
  <2>1. range' \in IP!Arrays
    BY <1>1, RangesLeft
  <2>2. (\A r \in IP!Arrays : IP!Start(r) => IP!FInv)'
    BY DrawingStarts, PTL
  <2>3. I!Start(<<>>)
    BY <1>1 DEF BInv, DrawingInv
  <2>4. range' = range' /\ i' = 1 /\ j' = 2 /\ graph' = <<>> /\ closed' = FALSE
    BY <1>1, <2>3 DEF I!Start
  <2> QED
    BY <2>1, <2>2, <2>4 DEF IP!Start, IP!Arrays, IP!Temporary
<1>6. prog' \in Programs /\ flow' \in FlowGraphsOf(prog')
  BY <1>1, <1>2 DEF BInv
<1> QED
  BY <1>1, <1>2, <1>3, <1>4, <1>5, <1>6 DEF BInv, AnalysisInv, DrawingInv, ColouringInv, TextInv

LEMMA InterferenceStep == BInv /\ Interference => BInv'
<1> SUFFICES ASSUME BInv, Interference
             PROVE  BInv'
  OBVIOUS
<1>1. /\ stage = "interference" /\ I!Next
      /\ UNCHANGED <<prog, stage>> /\ UNCHANGED livenessVars
      /\ UNCHANGED allocVars /\ UNCHANGED rewriteVars
  BY DEF Interference
<1>2. UNCHANGED <<flow, pc, temp, low, high>>
  BY <1>1 DEF livenessVars
<1>3. LP!LInv' /\ LP!RangesExact' /\ IP!FInv' /\ RP!IInv' /\ WP!RInv'
  BY <1>1, ToolSteps
<1>4. range' = range
  BY <1>1 DEF I!Next, I!ComparePair, I!NextRow, I!CloseFile
<1>5. R!Start(<<>>)' /\ W!Start(<<>>, <<>>)'
  BY <1>1, WaitingStays DEF BInv, ColouringInv, TextInv
<1>6. prog' \in Programs /\ flow' \in FlowGraphsOf(prog')
  BY <1>1, <1>2 DEF BInv
<1> QED
  BY <1>1, <1>2, <1>3, <1>4, <1>5, <1>6 DEF BInv, AnalysisInv, DrawingInv, ColouringInv, TextInv

\* The finished file is one that the allocator expects.
LEMMA FileLeft ==
  ASSUME BInv, stage # "liveness"
  PROVE  graph \in Seq((1 .. NumTemporaries - 1) \X (1 .. NumTemporaries - 1)) /\ RP!Ordered(graph)
<1> DEFINE Numbered == 1 .. NumTemporaries - 1
<1>1. IP!FInv /\ graph \in Seq(IP!Temporary \X IP!Temporary) /\ NumTemporaries \in Nat \ {0}
  BY DEF BInv, DrawingInv, IP!FInv, IP!TypeOK
<1>2. Len(graph) \in Nat /\ DOMAIN graph = 1 .. Len(graph) /\ graph \in [1 .. Len(graph) -> IP!Temporary \X IP!Temporary]
  BY <1>1, LenProperties
<1>3. ASSUME NEW k \in 1 .. Len(graph)
      PROVE  graph[k] \in Numbered \X Numbered /\ graph[k][1] < graph[k][2]
  <2>1. IP!Passed(graph[k][1], graph[k][2])
    BY <1>1 DEF IP!FInv, IP!Written
  <2>2. graph[k] \in IP!Temporary \X IP!Temporary
    BY <1>2
  <2>3. PICK a \in IP!Temporary, b \in IP!Temporary : graph[k] = <<a, b>>
    BY <2>2
  <2>4. a \in Numbered /\ b \in Numbered /\ a < b
    BY <2>1, <2>3, <1>1 DEF IP!Passed, IP!Temporary
  <2> QED
    BY <2>3, <2>4
<1>4. graph \in Seq(Numbered \X Numbered)
  <2> HIDE DEF Numbered
  <2>1. graph \in [1 .. Len(graph) -> Numbered \X Numbered]
    BY <1>2, <1>3
  <2> QED
    BY <1>2, <2>1, SeqDef
<1>5. ASSUME NEW k \in DOMAIN graph, NEW l \in DOMAIN graph, k < l
      PROVE  graph[k][1] <= graph[l][1]
  <2>1. IP!Before(graph[k], graph[l])
    BY <1>1, <1>2, <1>5 DEF IP!FInv, IP!Written
  <2>2. graph[k] \in Numbered \X Numbered /\ graph[l] \in Numbered \X Numbered
    BY <1>2, <1>3
  <2>3. graph[k][1] \in Nat /\ graph[l][1] \in Nat
    BY <2>2
  <2> QED
    BY <2>1, <2>3 DEF IP!Before
<1> QED
  BY <1>2, <1>3, <1>4, <1>5 DEF RP!Ordered

LEMMA AllocationStarts ==
  \A f \in Seq((1 .. NumTemporaries - 1) \X (1 .. NumTemporaries - 1)) :
    RP!Ordered(f) /\ RP!Start(f) => RP!IInv
<1>1. NumRegs \in Nat \ {0} /\ NumTemporaries - 1 \in Nat
  BY BackendAssumption
<1> QED
  BY <1>1, RP!StartInv

LEMMA StartAllocationStep == BInv /\ StartAllocation => BInv'
<1> SUFFICES ASSUME BInv, StartAllocation
             PROVE  BInv'
  OBVIOUS
<1>1. /\ stage = "interference" /\ closed /\ stage' = "allocation" /\ file' = graph
      /\ UNCHANGED <<alloc, line, max_alloc_num, vertex_handled, adj, reg_assigned, vertex>>
      /\ UNCHANGED prog /\ UNCHANGED livenessVars /\ UNCHANGED interferenceVars /\ UNCHANGED rewriteVars
  BY DEF StartAllocation
<1>2. UNCHANGED <<flow, pc, temp, low, high, range, graph, closed>>
  BY <1>1 DEF livenessVars, interferenceVars
<1>3. LP!LInv' /\ LP!RangesExact' /\ IP!FInv' /\ WP!RInv'
  BY <1>1, ToolSteps
<1>4. W!Start(<<>>, <<>>)'
  BY <1>1, WaitingStays DEF BInv, TextInv
<1>5. RP!IInv'
  <2>1. graph \in Seq((1 .. NumTemporaries - 1) \X (1 .. NumTemporaries - 1)) /\ RP!Ordered(graph)
    BY <1>1, FileLeft
  <2>2. (\A f \in Seq((1 .. NumTemporaries - 1) \X (1 .. NumTemporaries - 1)) :
           RP!Ordered(f) /\ RP!Start(f) => RP!IInv)'
    BY AllocationStarts, PTL
  <2>3. R!Start(<<>>)
    BY <1>1 DEF BInv, ColouringInv
  <2>4. /\ file' = graph /\ alloc' = "measure" /\ line' = 1 /\ max_alloc_num' = -1
        /\ vertex_handled' = 0 /\ adj' = <<>> /\ reg_assigned' = <<>> /\ vertex' = 1
    BY <1>1, <2>3 DEF R!Start
  <2> QED
    BY <2>1, <2>2, <2>4 DEF RP!Start, RP!Ordered
<1>6. prog' \in Programs /\ flow' \in FlowGraphsOf(prog')
  BY <1>1, <1>2 DEF BInv
<1> QED
  BY <1>1, <1>2, <1>3, <1>4, <1>5, <1>6 DEF BInv, AnalysisInv, DrawingInv, ColouringInv, TextInv

LEMMA AllocationStep == BInv /\ Allocation => BInv'
<1> SUFFICES ASSUME BInv, Allocation
             PROVE  BInv'
  OBVIOUS
<1>1. /\ stage = "allocation" /\ R!Next
      /\ UNCHANGED <<prog, stage>> /\ UNCHANGED livenessVars
      /\ UNCHANGED interferenceVars /\ UNCHANGED rewriteVars
  BY DEF Allocation
<1>2. UNCHANGED <<flow, pc, temp, low, high, range, graph, closed>>
  BY <1>1 DEF livenessVars, interferenceVars
<1>3. LP!LInv' /\ LP!RangesExact' /\ IP!FInv' /\ RP!IInv' /\ WP!RInv'
  BY <1>1, ToolSteps
<1>4. file' = file
  BY <1>1 DEF R!Next, R!MeasureLine, R!AllocateGraph, R!AddLine, R!ClearRegisters, R!findFreeReg,
              R!Quit, R!PlaceLonely
<1>5. W!Start(<<>>, <<>>)'
  BY <1>1, WaitingStays DEF BInv, TextInv
<1>6. prog' \in Programs /\ flow' \in FlowGraphsOf(prog')
  BY <1>1, <1>2 DEF BInv
<1> QED
  BY <1>1, <1>2, <1>3, <1>4, <1>5, <1>6 DEF BInv, AnalysisInv, DrawingInv, ColouringInv, TextInv

-----------------------------------------------------------------------------
\* The lines of tiger_prog.s, and the registers for their temporaries, are what the passes expect.
LEMMA LinesTyped ==
  ASSUME prog \in Programs
  PROVE  /\ SourceLines \in Seq(Seq(WP!Operands))
         /\ \A l \in 1 .. NumCommands :
              /\ prog[l - 1].args \in Seq(Nat \cup {Register})
              /\ DOMAIN SourceLines[l] = DOMAIN prog[l - 1].args
              /\ \A p \in DOMAIN prog[l - 1].args : SourceLines[l][p] = Operand(prog[l - 1].args[p])
<1>1. NumCommands \in Nat /\ \A c \in 0 .. NumCommands - 1 : prog[c] \in Instructions
  BY BackendAssumption
<1>2. \A t \in Nat \cup {Register} : Operand(t) \in WP!Operands
  BY DEF Operand, IsTemp, Register, W!Temp, W!Other, WP!Operands
<1>3. ASSUME NEW l \in 1 .. NumCommands
      PROVE  /\ prog[l - 1].args \in Seq(Nat \cup {Register})
             /\ [p \in DOMAIN prog[l - 1].args |-> Operand(prog[l - 1].args[p])] \in Seq(WP!Operands)
  <2>1. l - 1 \in 0 .. NumCommands - 1
    BY <1>1
  <2>2. prog[l - 1].args \in Seq(Nat \cup {Register})
    BY <1>1, <2>1, InstructionFacts
  <2>3. PICK m \in Nat : prog[l - 1].args \in [1 .. m -> Nat \cup {Register}]
    BY <2>2, SeqDef
  <2>4. [p \in DOMAIN prog[l - 1].args |-> Operand(prog[l - 1].args[p])] \in [1 .. m -> WP!Operands]
    BY <1>2, <2>3
  <2> QED
    BY <2>2, <2>4, SeqDef
<1>4. SourceLines \in [1 .. NumCommands -> Seq(WP!Operands)]
  BY <1>3 DEF SourceLines
<1>5. SourceLines \in Seq(Seq(WP!Operands))
  BY <1>1, <1>4, SeqDef
<1>6. ASSUME NEW l \in 1 .. NumCommands
      PROVE  SourceLines[l] = [p \in DOMAIN prog[l - 1].args |-> Operand(prog[l - 1].args[p])]
  BY DEF SourceLines
<1> QED
  BY <1>3, <1>5, <1>6

LEMMA RegistersLeft ==
  ASSUME BInv, alloc = "allocated"
  PROVE  /\ reg_assigned \in Seq(0 .. 7)
         /\ reg_assigned \in [RP!Vertices -> 0 .. 7]
         /\ max_alloc_num \in Nat /\ DOMAIN reg_assigned = 1 .. max_alloc_num - 1
<1>1. /\ RP!TypeOK /\ RP!Sizes /\ RP!ProperColouring
      /\ NumRegs \in 1 .. 8 /\ NumTemporaries \in Nat \ {0}
  BY BackendAssumption DEF BInv, ColouringInv, RP!IInv, RP!Colours
<1>2. max_alloc_num \in Nat
  BY <1>1 DEF RP!TypeOK, RP!Sizes
<1>3. reg_assigned \in [RP!Vertices -> 0 .. 7]
  <2>1. reg_assigned \in [RP!Vertices -> -1 .. NumRegs - 1]
    BY <1>1 DEF RP!TypeOK
  <2>2. \A v \in RP!Vertices : reg_assigned[v] \in 0 .. NumRegs - 1
    BY <1>1 DEF RP!ProperColouring, RP!Registers
  <2>3. 0 .. NumRegs - 1 \subseteq 0 .. 7
    BY <1>1
  <2> QED
    BY <2>1, <2>2, <2>3
<1>4. PICK m \in Nat : RP!Vertices = 1 .. m
  <2>1. CASE max_alloc_num = 0
    <3>1. 1 .. max_alloc_num - 1 = 1 .. 0
      BY <2>1
    <3> QED
      BY <3>1 DEF RP!Vertices
  <2>2. CASE max_alloc_num # 0
    <3>1. max_alloc_num - 1 \in Nat
      BY <1>2, <2>2
    <3> QED
      BY <3>1 DEF RP!Vertices
  <2> QED
    BY <2>1, <2>2
<1>5. reg_assigned \in Seq(0 .. 7)
  <2>1. reg_assigned \in [1 .. m -> 0 .. 7]
    BY <1>3, <1>4
  <2> QED
    BY <2>1, SeqDef
<1> QED
  BY <1>2, <1>3, <1>5 DEF RP!Vertices

LEMMA RewritingStarts ==
  \A src \in Seq(Seq(WP!Operands)) : \A filled \in Seq(0 .. 7) :
    cell0 \in WP!Garbage /\ WP!Start(src, filled) => WP!RInv
BY WP!StartRInv

LEMMA StartRewritingStep == BInv /\ StartRewriting => BInv'
<1> SUFFICES ASSUME BInv, StartRewriting
             PROVE  BInv'
  OBVIOUS
<1>1. /\ stage = "allocation" /\ alloc = "allocated" /\ stage' = "rewriting"
      /\ source' = SourceLines /\ cells' = reg_assigned
      /\ UNCHANGED <<cell0, rewrite, temp_txt, final>>
      /\ UNCHANGED prog /\ UNCHANGED livenessVars /\ UNCHANGED interferenceVars /\ UNCHANGED allocVars
  BY DEF StartRewriting
<1>2. UNCHANGED <<flow, pc, temp, low, high, range, graph, closed, file, alloc, reg_assigned>>
  BY <1>1 DEF livenessVars, interferenceVars, allocVars
<1>3. LP!LInv' /\ LP!RangesExact' /\ IP!FInv' /\ RP!IInv'
  BY <1>1, ToolSteps
<1>4. SourceLines' = SourceLines
  BY <1>1 DEF SourceLines
<1>5. WP!RInv'
  <2>1. SourceLines \in Seq(Seq(WP!Operands)) /\ reg_assigned \in Seq(0 .. 7)
    BY <1>1, LinesTyped, RegistersLeft DEF BInv
  <2>2. (\A src \in Seq(Seq(WP!Operands)) : \A filled \in Seq(0 .. 7) :
           cell0 \in WP!Garbage /\ WP!Start(src, filled) => WP!RInv)'
    BY RewritingStarts, PTL
  <2>3. W!Start(<<>>, <<>>) /\ cell0 \in WP!Garbage
    BY <1>1 DEF BInv, TextInv, WP!RInv, WP!TypeOK
  <2>4. /\ source' = SourceLines /\ cells' = reg_assigned /\ rewrite' = "registers"
        /\ temp_txt' = <<>> /\ final' = <<>> /\ cell0' \in WP!Garbage
    BY <1>1, <2>3 DEF W!Start
  <2>5. WP!Start(SourceLines, reg_assigned)'
    BY <1>2, <1>4, <2>4 DEF WP!Start
  <2>6. SourceLines' \in Seq(Seq(WP!Operands)) /\ reg_assigned' \in Seq(0 .. 7)
    BY <1>2, <1>4, <2>1
  <2> QED
    BY <2>2, <2>4, <2>5, <2>6 DEF WP!Start
<1>6. prog' \in Programs /\ flow' \in FlowGraphsOf(prog')
  BY <1>1, <1>2 DEF BInv
<1> QED
  BY <1>1, <1>2, <1>3, <1>4, <1>5, <1>6 DEF BInv, AnalysisInv, DrawingInv, ColouringInv, TextInv

LEMMA RewritingStep == BInv /\ Rewriting => BInv'
<1> SUFFICES ASSUME BInv, Rewriting
             PROVE  BInv'
  OBVIOUS
<1>1. /\ stage = "rewriting" /\ W!Next
      /\ UNCHANGED <<prog, stage>> /\ UNCHANGED livenessVars
      /\ UNCHANGED interferenceVars /\ UNCHANGED allocVars
  BY DEF Rewriting
<1>2. UNCHANGED <<flow, pc, temp, low, high, range, graph, closed, file, alloc, reg_assigned>>
  BY <1>1 DEF livenessVars, interferenceVars, allocVars
<1>3. LP!LInv' /\ LP!RangesExact' /\ IP!FInv' /\ RP!IInv' /\ WP!RInv'
  BY <1>1, ToolSteps
<1>4. UNCHANGED <<source, cells>> /\ SourceLines' = SourceLines
  BY <1>1 DEF SourceLines, W!Next, W!WriteRegisters, W!Rewind, W!WriteLonely, W!Close
<1>5. prog' \in Programs /\ flow' \in FlowGraphsOf(prog')
  BY <1>1, <1>2 DEF BInv
<1> QED
  BY <1>1, <1>2, <1>3, <1>4, <1>5 DEF BInv, AnalysisInv, DrawingInv, ColouringInv, TextInv

LEMMA StutteringStep == BInv /\ UNCHANGED vars => BInv'
<1> SUFFICES ASSUME BInv, UNCHANGED vars
             PROVE  BInv'
  OBVIOUS
<1>1. /\ UNCHANGED prog /\ UNCHANGED stage /\ UNCHANGED livenessVars /\ UNCHANGED interferenceVars
      /\ UNCHANGED allocVars /\ UNCHANGED rewriteVars
  BY DEF vars
<1>2. UNCHANGED <<flow, pc, temp, low, high, range, graph, closed, file, alloc, reg_assigned, source, cells>>
  BY <1>1 DEF livenessVars, interferenceVars, allocVars, rewriteVars
<1>3. /\ LP!LInv' /\ LP!RangesExact' /\ RP!IInv' /\ WP!RInv'
      /\ stage # "liveness" => IP!FInv'
  BY <1>1, ToolSteps
<1>4. SourceLines' = SourceLines
  BY <1>1 DEF SourceLines
<1>5. /\ stage = "liveness" => I!Start(<<>>)'
      /\ stage \in {"liveness", "interference"} => R!Start(<<>>)'
      /\ stage # "rewriting" => W!Start(<<>>, <<>>)'
  BY <1>1, WaitingStays DEF BInv, DrawingInv, ColouringInv, TextInv
<1>6. prog' \in Programs /\ flow' \in FlowGraphsOf(prog')
  BY <1>1, <1>2 DEF BInv
<1> QED
  BY <1>1, <1>2, <1>3, <1>4, <1>5, <1>6 DEF BInv, AnalysisInv, DrawingInv, ColouringInv, TextInv

(***************************************************************************)
(* Each tool leaves the next one what it expects: the invariant holds all  *)
(* the way from tiger_prog.s to MIPS_ASM_Prog.s.                           *)
(***************************************************************************)
THEOREM BackendInvariance == Spec => []BInv
<1>1. BInv /\ [Next]_vars => BInv'
  BY LivenessStep, StartInterferenceStep, InterferenceStep, StartAllocationStep, AllocationStep,
     StartRewritingStep, RewritingStep, StutteringStep DEF Next
<1> QED
  BY <1>1, InitBInv, PTL DEF Spec

\* What one tool leaves for the next has its type.
THEOREM BackendTypeCorrect == Spec => []TypeOK
<1>1. BInv => TypeOK
  <2>1. WP!TypeOK <=> W!TypeOK
    BY DEF WP!TypeOK, W!TypeOK, WP!Operands, W!Operands, WP!Garbage, W!Garbage, WP!Junk, W!Junk
  <2>2. IP!TypeOK <=> I!TypeOK
    BY DEF IP!TypeOK, I!TypeOK, IP!Temporary, I!Temporary
  <2> QED
    BY <2>1, <2>2 DEF BInv, DrawingInv, TextInv, IP!FInv, WP!RInv, TypeOK
<1> QED
  BY <1>1, BackendInvariance, PTL

\* The lines of the file between the two programs come in the order that the allocator relies on.
THEOREM BackendFileOrdered == Spec => []FileOrdered
<1>1. BInv => FileOrdered
  <2>1. I!Start(<<>>) => FileOrdered
    BY DEF I!Start, FileOrdered, I!FileOrdered
  <2>2. IP!FileOrdered <=> FileOrdered
    BY DEF IP!FileOrdered, FileOrdered, I!FileOrdered, IP!Before, I!Before
  <2> QED
    BY <2>1, <2>2, IP!OrderFromFInv DEF BInv, DrawingInv
<1> QED
  BY <1>1, BackendInvariance, PTL

\* The finished file has exactly the pairs of temporaries whose ranges meet.
THEOREM BackendFileComplete == Spec => []FileComplete
<1>1. BInv => FileComplete
  <2>1. I!Start(<<>>) => FileComplete
    BY DEF I!Start, FileComplete, I!FileComplete
  <2>2. IP!FileComplete <=> FileComplete
    BY DEF IP!FileComplete, FileComplete, I!FileComplete, IP!Lines, I!Lines, IP!InRange, I!InRange,
           IP!Temporary, I!Temporary
  <2> QED
    BY <2>1, <2>2, IP!CompleteFromFInv DEF BInv, DrawingInv
<1> QED
  BY <1>1, BackendInvariance, PTL

\* Each operand of a program that is written is the register of the temporary that stood there.
THEOREM BackendSubstitutes == Spec => []SubstitutesEach
<1>1. BInv => SubstitutesEach
  <2>1. WP!SubstitutesEach <=> SubstitutesEach
    BY DEF WP!SubstitutesEach, SubstitutesEach, W!SubstitutesEach, WP!IsTempOperand, W!IsTempOperand,
           WP!max_alloc_num, W!max_alloc_num, WP!Reg, W!Reg
  <2> QED
    BY <2>1, WP!SubstitutesFromRInv DEF BInv, TextInv
<1> QED
  BY <1>1, BackendInvariance, PTL

\* A temporary without a cell that is the only such on its line does not stay in the final text.
THEOREM BackendSingleLonely == Spec => []SingleLonelyReplaced
<1>1. BInv => SingleLonelyReplaced
  <2>1. WP!SingleLonelyReplaced <=> SingleLonelyReplaced
    <3>1. \A text : WP!get_tmp_info(text) = W!get_tmp_info(text)
      BY DEF WP!get_tmp_info, W!get_tmp_info, WP!TempPlaces, W!TempPlaces,
             WP!IsTempOperand, W!IsTempOperand
    <3>2. \A text : WP!LonelyOf(text) = W!LonelyOf(text)
      BY DEF WP!LonelyOf, W!LonelyOf, WP!IsTempOperand, W!IsTempOperand,
             WP!max_alloc_num, W!max_alloc_num, WP!Range, W!Range
    <3>3. \A S : WP!Cardinality(S) = W!Cardinality(S)
      BY DEF WP!Cardinality, W!Cardinality
    <3> QED
      BY <3>1, <3>2, <3>3 DEF WP!SingleLonelyReplaced, SingleLonelyReplaced, W!SingleLonelyReplaced
  <2> QED
    BY <2>1, WP!SingleFromRInv DEF BInv, TextInv
<1> QED
  BY <1>1, BackendInvariance, PTL

-----------------------------------------------------------------------------
(***************************************************************************)
(* LiveBefore, round by round: first the commands that read t, then with   *)
(* every round those that do not write t and run on to one of the set.     *)
(***************************************************************************)
Readers(p, t) == {c \in DOMAIN p : t \in Read(p[c])}
Sooner(p, t, x) ==
  x \cup {c \in {d \in DOMAIN p : t \notin Written(p[d])} : RunsOnTo(p, c) \cap x # {}}

Rounds(p, t, g) ==
  /\ g[0] = Readers(p, t)
  /\ \A k \in 1 .. Cardinality(DOMAIN p) : g[k] = Sooner(p, t, g[k - 1])
  /\ LiveBefore(p, t) = g[Cardinality(DOMAIN p)]

LEMMA LiveBeforeRounds ==
  ASSUME NEW p, IsFiniteSet(DOMAIN p), NEW t
  PROVE  \E g : Rounds(p, t, g)
<1> DEFINE N == Cardinality(DOMAIN p)
           T == SUBSET DOMAIN p
           readers == Readers(p, t)
           round(x) == Sooner(p, t, x)
           F == [k \in 1 .. N |-> [x \in T |-> round(x)]]
           Step(g) == [k \in 0 .. N |-> IF k = 0 THEN readers ELSE round(g[k - 1])]
<1>1. N \in Nat
  BY FS_CardinalityType
<1>2. readers \in T /\ \A x \in T : round(x) \in T
  BY DEF Readers, Sooner
<1>3. PICK f \in [0 .. N -> T] : f[0] = readers /\ \A k \in 1 .. N : f[k] = F[k][f[k - 1]]
  <2>1. F \in [1 .. N -> [T -> T]]
    <3> HIDE DEF round, T, N
    <3> QED
      BY <1>2
  <2> HIDE DEF F, T, N, readers
  <2>2. LoopValues(N, T, readers, F) # {}
    BY <1>1, <1>2, <2>1, LoopHasValues
  <2> QED
    BY <2>2 DEF LoopValues
<1>4. f = Step(f)
  <2> HIDE DEF round, T, N, readers
  <2>1. \A k \in 0 .. N : k # 0 => k \in 1 .. N /\ f[k - 1] \in T
    BY <1>1
  <2>2. \A k \in 1 .. N : k \in 0 .. N /\ k # 0
    BY <1>1
  <2>3. ASSUME NEW k \in 1 .. N
        PROVE  f[k] = round(f[k - 1])
    <3>1. F[k] = [x \in T |-> round(x)] /\ f[k - 1] \in T
      BY <2>1, <2>2
    <3> QED
      BY <1>3, <3>1
  <2> QED
    BY <1>3, <2>1, <2>3
<1>5. PICK g : g = Step(g) /\ LiveBefore(p, t) = g[N]
  <2>1. LiveBefore(p, t) = (CHOOSE g : g = Step(g))[N]
    BY DEF LiveBefore, Readers, Sooner
  <2> HIDE DEF Step
  <2> QED
    BY <1>4, <2>1
<1>6. g[0] = readers /\ \A k \in 1 .. N : g[k] = round(g[k - 1])
  <2> HIDE DEF round, readers, N
  <2>1. \A k \in 0 .. N : g[k] = IF k = 0 THEN readers ELSE round(g[k - 1])
    BY <1>5
  <2>2. 0 \in 0 .. N /\ \A k \in 1 .. N : k \in 0 .. N /\ k # 0
    BY <1>1
  <2> HIDE DEF Step
  <2> QED
    BY <2>1, <2>2
<1> QED
  BY <1>5, <1>6 DEF Rounds

(***************************************************************************)
(* The meaning of a program against the analysis.  A set of commands that  *)
(* has the readers of t, and every command that does not write t and runs  *)
(* on to one of the set, has all the commands before which t is live.      *)
(***************************************************************************)
LEMMA LiveBeforeLeast ==
  ASSUME NEW p, IsFiniteSet(DOMAIN p), NEW t, NEW S,
         \A c \in DOMAIN p : t \in Read(p[c]) => c \in S,
         \A c \in DOMAIN p : t \notin Written(p[c]) /\ RunsOnTo(p, c) \cap S # {} => c \in S
  PROVE  LiveBefore(p, t) \subseteq S
<1> DEFINE N == Cardinality(DOMAIN p)
<1>1. N \in Nat
  BY FS_CardinalityType
<1>2. PICK g : Rounds(p, t, g)
  BY LiveBeforeRounds
<1> DEFINE Good == {k \in Nat : k <= N => g[k] \subseteq S}
<1>3. 0 \in Good
  BY <1>2 DEF Rounds, Readers
<1>4. ASSUME NEW k \in Nat, k \in Good
      PROVE  k + 1 \in Good
  <2> SUFFICES ASSUME k + 1 <= N
               PROVE  g[k + 1] \subseteq S
    OBVIOUS
  <2>1. k <= N /\ k + 1 \in 1 .. N /\ (k + 1) - 1 = k
    <3> HIDE DEF N
    <3> QED
      BY <1>1
  <2>2. g[k + 1] = Sooner(p, t, g[(k + 1) - 1]) /\ g[k] \subseteq S
    BY <1>2, <1>4, <2>1 DEF Rounds
  <2> QED
    BY <2>1, <2>2 DEF Sooner
<1>5. Nat \subseteq Good
  <2> HIDE DEF Good
  <2> QED
    BY <1>3, <1>4, Induction
<1>6. N \in Good
  <2> HIDE DEF Good
  <2> QED
    BY <1>1, <1>5
<1> QED
  BY <1>1, <1>2, <1>6 DEF Rounds

(***************************************************************************)
(* And it is such a set itself: as many rounds as there are commands are   *)
(* enough, because a round that adds no command is followed by others that *)
(* add none, and a set cannot grow more often than that.                   *)
(***************************************************************************)
LEMMA LiveBeforeClosed ==
  ASSUME NEW p, IsFiniteSet(DOMAIN p), NEW t
  PROVE  /\ LiveBefore(p, t) \subseteq DOMAIN p
         /\ \A c \in DOMAIN p : t \in Read(p[c]) => c \in LiveBefore(p, t)
         /\ \A c \in LiveBehind(p, t) : t \notin Written(p[c]) => c \in LiveBefore(p, t)
<1> DEFINE N == Cardinality(DOMAIN p)
           D == DOMAIN p
<1>1. N \in Nat /\ \A x \in SUBSET D : IsFiniteSet(x) /\ Cardinality(x) \in Nat
  BY FS_CardinalityType, FS_Subset
<1>2. PICK g : Rounds(p, t, g)
  BY LiveBeforeRounds
<1> DEFINE Grown(x, k) == /\ x \in SUBSET D
                          /\ Readers(p, t) \subseteq x
                          /\ Sooner(p, t, x) = x \/ Cardinality(x) >= k
           Good == {k \in Nat : k <= N => Grown(g[k], k)}
<1>3. 0 \in Good
  <2>1. Readers(p, t) \in SUBSET D
    BY DEF Readers
  <2>2. Cardinality(Readers(p, t)) >= 0
    BY <1>1, <2>1
  <2> QED
    BY <1>2, <2>1, <2>2 DEF Rounds
<1>4. ASSUME NEW k \in Nat, k \in Good
      PROVE  k + 1 \in Good
  <2> SUFFICES ASSUME k + 1 <= N
               PROVE  Grown(g[k + 1], k + 1)
    OBVIOUS
  <2>1. k <= N /\ k + 1 \in 1 .. N /\ (k + 1) - 1 = k
    <3> HIDE DEF N
    <3> QED
      BY <1>1
  <2>2. PICK x, y : x = g[k] /\ y = g[k + 1] /\ y = Sooner(p, t, x) /\ Grown(x, k)
    <3> HIDE DEF Grown
    <3>1. g[k + 1] = Sooner(p, t, g[(k + 1) - 1])
      BY <1>2, <2>1 DEF Rounds
    <3>2. Grown(g[k], k)
      BY <1>4, <2>1
    <3> QED
      BY <2>1, <3>1, <3>2
  <2>3. x \subseteq y /\ y \in SUBSET D /\ Readers(p, t) \subseteq y
    BY <2>2 DEF Sooner
  <2>4. Sooner(p, t, y) = y \/ Cardinality(y) >= k + 1
    <3>1. CASE y = x
      BY <2>2, <3>1
    <3>2. CASE y # x
      <4>1. Cardinality(x) >= k
        BY <2>2, <3>2
      <4>2. Cardinality(x) <= Cardinality(y) /\ Cardinality(x) # Cardinality(y)
        BY <1>1, <2>3, <3>2, FS_Subset
      <4>3. Cardinality(x) \in Nat /\ Cardinality(y) \in Nat
        BY <1>1, <2>2, <2>3
      <4> QED
        BY <4>1, <4>2, <4>3
    <3> QED
      BY <3>1, <3>2
  <2> QED
    BY <2>2, <2>3, <2>4
<1>5. Nat \subseteq Good
  <2> HIDE DEF Good
  <2> QED
    BY <1>3, <1>4, Induction
<1>6. Grown(LiveBefore(p, t), N)
  <2>1. LiveBefore(p, t) = g[N]
    BY <1>2 DEF Rounds
  <2>2. N \in Good
    <3> HIDE DEF Good
    <3> QED
      BY <1>1, <1>5
  <2> HIDE DEF N, Grown
  <2> QED
    BY <1>1, <2>1, <2>2
<1>7. Sooner(p, t, LiveBefore(p, t)) = LiveBefore(p, t)
  <2>1. CASE Cardinality(LiveBefore(p, t)) >= N
    <3>1. Cardinality(LiveBefore(p, t)) = N
      <4>1. Cardinality(LiveBefore(p, t)) <= N /\ Cardinality(LiveBefore(p, t)) \in Nat
        BY <1>1, <1>6, FS_Subset
      <4> HIDE DEF N
      <4> QED
        BY <1>1, <2>1, <4>1
    <3>2. LiveBefore(p, t) = D
      BY <1>6, <3>1, FS_Subset
    <3> QED
      BY <3>2 DEF Sooner
  <2> QED
    BY <1>6, <2>1
<1> QED
  BY <1>6, <1>7 DEF Readers, Sooner, LiveBehind

\* The tables of the flow graph, command by command.
LEMMA TablesOfProgram ==
  ASSUME BInv
  PROVE  /\ DOMAIN prog = LP!Command /\ LP!Command = 0 .. NumCommands - 1 /\ NumCommands \in Nat \ {0}
         /\ \A c \in LP!Command :
              /\ prog[c] \in Instructions
              /\ flow.def[c] = Def(prog[c])
              /\ Range(flow.use[c]) = {flow.use[c][1], flow.use[c][2]}
              /\ Range(flow.out_edges[c]) = LP!Followers(c)
<1>1. /\ NumCommands \in Nat \ {0} /\ DOMAIN prog = 0 .. NumCommands - 1
      /\ \A c \in 0 .. NumCommands - 1 : prog[c] \in Instructions
  BY BackendAssumption DEF BInv
<1>2. flow \in Graphs(0 .. NumCommands - 1, -1 .. NumCommands)
  BY FlowGraphTyped DEF BInv
<1>3. \A c \in DOMAIN prog : flow.def[c] = Def(prog[c])
  BY DEF BInv, FlowGraphsOf, FlowGraphOf
<1>4. \A A, B : \A e \in A \X B : Range(e) = {e[1], e[2]}
  <2> SUFFICES ASSUME NEW A, NEW B, NEW a \in A, NEW b \in B
               PROVE  Range(<<a, b>>) = {a, b}
    OBVIOUS
  <2>1. DOMAIN <<a, b>> = {1, 2}
    OBVIOUS
  <2> QED
    BY <2>1 DEF Range
<1>5. ASSUME NEW c \in 0 .. NumCommands - 1
      PROVE  /\ Range(flow.use[c]) = {flow.use[c][1], flow.use[c][2]}
             /\ Range(flow.out_edges[c]) = {flow.out_edges[c][1], flow.out_edges[c][2]}
  <2>1. flow.use[c] \in Int \X Int /\ flow.out_edges[c] \in (-1 .. NumCommands) \X (-1 .. NumCommands)
    BY <1>2 DEF Graphs
  <2> QED
    BY <1>4, <2>1
<1> QED
  BY <1>1, <1>3, <1>5 DEF LP!Command, LP!Followers

\* The least solution, as Backend and as the proofs about the analysis know it.
LEMMA SameLiveIn == \A t : L!LiveIn(t) = LP!LiveIn(t)
BY DEF L!LiveIn, LP!LiveIn, L!Closed, LP!Closed, L!Command, LP!Command, L!UsesOf, LP!UsesOf,
       L!DefinesOf, LP!DefinesOf, L!LiveBehind, LP!LiveBehind, L!Followers, LP!Followers

\* The least solution is a solution.
LEMMA LiveInClosed ==
  ASSUME NEW t
  PROVE  LP!Closed(t, LP!LiveIn(t))
<1> SUFFICES ASSUME NEW c \in LP!Command,
                    LP!UsesOf(t, c) \/ (LP!LiveBehind(c, LP!LiveIn(t)) /\ ~LP!DefinesOf(t, c)),
                    NEW A \in SUBSET LP!Command, LP!Closed(t, A)
             PROVE  c \in A
  BY DEF LP!Closed, LP!LiveIn
<1>1. LP!LiveIn(t) \subseteq A
  BY DEF LP!LiveIn
<1>2. LP!LiveBehind(c, LP!LiveIn(t)) => LP!LiveBehind(c, A)
  BY <1>1 DEF LP!LiveBehind
<1> QED
  BY <1>2 DEF LP!Closed

(***************************************************************************)
(* When the flow graph has every road and every read, it has every need:   *)
(* a temporary that the program needs before a command is live there in    *)
(* the analysis.                                                           *)
(***************************************************************************)
LEMMA LivenessCovers ==
  ASSUME BInv, \A c \in DOMAIN prog : FlowComplete(c), NEW t \in Nat
  PROVE  LiveBefore(prog, t) \subseteq LP!LiveIn(t)
<1> DEFINE S == LP!LiveIn(t)
<1>1. /\ DOMAIN prog = LP!Command /\ IsFiniteSet(DOMAIN prog)
      /\ \A c \in LP!Command : /\ flow.def[c] = Def(prog[c])
                               /\ Range(flow.use[c]) = {flow.use[c][1], flow.use[c][2]}
                               /\ Range(flow.out_edges[c]) = LP!Followers(c)
  <2>1. 0 \in Int /\ NumCommands - 1 \in Int /\ DOMAIN prog = 0 .. NumCommands - 1
    BY TablesOfProgram
  <2>2. IsFiniteSet(0 .. NumCommands - 1)
    BY <2>1, FS_Interval
  <2> QED
    BY <2>1, <2>2, TablesOfProgram
<1>2. LP!Closed(t, S)
  BY LiveInClosed
<1>3. ASSUME NEW c \in DOMAIN prog, t \in Read(prog[c])
      PROVE  c \in S
  <2>1. LP!UsesOf(t, c)
    BY <1>1, <1>3 DEF FlowComplete, LP!UsesOf
  <2> QED
    BY <1>1, <1>2, <2>1 DEF LP!Closed
<1>4. ASSUME NEW c \in DOMAIN prog, RunsOnTo(prog, c) \cap S # {}
      PROVE  LP!LiveBehind(c, S)
  <2>1. PICK s \in RunsOnTo(prog, c) : s \in S
    BY <1>4
  <2>2. s \in LP!Followers(c)
    BY <1>1, <2>1 DEF FlowComplete
  <2> QED
    BY <2>1, <2>2 DEF LP!LiveBehind
<1>5. ASSUME NEW c \in DOMAIN prog, t \notin Written(prog[c]), RunsOnTo(prog, c) \cap S # {}
      PROVE  c \in S
  <2>1. ~LP!DefinesOf(t, c)
    <3>1. flow.def[c] = Def(prog[c])
      BY <1>1
    <3>2. t = Def(prog[c]) => t \in Written(prog[c])
      BY DEF Written, IsTemp
    <3> QED
      BY <1>5, <3>1, <3>2 DEF LP!DefinesOf
  <2> QED
    BY <1>1, <1>2, <1>4, <1>5, <2>1 DEF LP!Closed
<1>6. LiveBefore(prog, t) \subseteq S
  <2> HIDE DEF S
  <2> QED
    BY <1>1, <1>3, <1>5, LiveBeforeLeast
<1> QED
  BY <1>6

-----------------------------------------------------------------------------
\* A command that writes a temporary goes on to the next one, and the flow graph has this road.
LEMMA WritersGoOn ==
  ASSUME BInv, NEW c \in DOMAIN prog, Written(prog[c]) # {}
  PROVE  RunsOnTo(prog, c) = {c + 1} /\ c + 1 \in LP!Followers(c)
<1>1. prog[c].op \in {"arith", "load", "move", "addi", "li"}
  BY DEF Written, Def, NoTemp, IsTemp
<1>2. PICK overlay \in [DOMAIN prog -> BranchOverlay] : flow = FlowGraphOf(prog, overlay)
  BY DEF BInv, FlowGraphsOf
<1>3. flow.out_edges[c] = <<c + 1, NoEdge>>
  BY <1>1, <1>2 DEF FlowGraphOf, OutEdges
<1> QED
  BY <1>1, <1>3 DEF RunsOnTo, LP!Followers

-----------------------------------------------------------------------------
(***************************************************************************)
(* The flow graph has everything of a program.                             *)
(***************************************************************************)
Complete(p, g) ==
  \A c \in DOMAIN p : RunsOnTo(p, c) \subseteq Range(g.out_edges[c]) /\ Read(p[c]) \subseteq Range(g.use[c])

LEMMA PairRange == \A a, b : Range(<<a, b>>) = {a, b}
<1> SUFFICES ASSUME NEW a, NEW b
             PROVE  Range(<<a, b>>) = {a, b}
  OBVIOUS
<1>1. DOMAIN <<a, b>> = {1, 2}
  OBVIOUS
<1> QED
  BY <1>1 DEF Range

\* Of what a command reads only the second operand of a branch can be missing from its uses.
LEMMA ReadsDrawn ==
  ASSUME NEW instr \in Instructions
  PROVE  Read(instr) \subseteq Range(Use(instr))
           <=> (instr.op = "branch" =>
                  IsTemp(instr.args[1]) \/ ~IsTemp(instr.args[2]) \/ instr.args[2] = 0)
<1>1. CASE instr \in [op : {"arith"}, args : Operands \X Operands \X Operands, label : {""}]
  <2>1. instr.op = "arith" /\ instr.args \in Operands \X Operands \X Operands
    BY <1>1
  <2>2. PICK a \in Operands, b \in Operands, c \in Operands : instr.args = <<a, b, c>>
    BY <2>1
  <2>3. Range(Use(instr)) = {b, c}
    BY <2>1, <2>2, PairRange DEF Use
  <2>4. Read(instr) \subseteq {b, c}
    BY <2>1, <2>2 DEF Read
  <2> QED
    BY <2>1, <2>3, <2>4
<1>2. CASE instr \in [op : {"load", "store", "move", "addi"}, args : Pair, label : {""}]
  <2>1. instr.op \in {"load", "store", "move", "addi"} /\ instr.args \in Operands \X Operands
    BY <1>2 DEF Pair
  <2>2. PICK a \in Operands, b \in Operands : instr.args = <<a, b>>
    BY <2>1
  <2>3. CASE instr.op = "store"
    <3>1. Range(Use(instr)) = {a, b} /\ Read(instr) \subseteq {a, b}
      BY <2>2, <2>3, PairRange DEF Use, Read
    <3> QED
      BY <2>3, <3>1
  <2>4. CASE instr.op # "store"
    <3>1. Range(Use(instr)) = {b, NoTemp}
      BY <2>1, <2>2, <2>4, PairRange DEF Use
    <3>2. Read(instr) \subseteq {b}
      BY <2>1, <2>2, <2>4 DEF Read
    <3> QED
      BY <2>1, <3>1, <3>2
  <2> QED
    BY <2>3, <2>4
<1>3. CASE instr \in [op : {"li"}, args : [{1} -> Operands], label : {""}]
  <2>1. instr.op = "li" /\ Read(instr) = {}
    BY <1>3 DEF Read
  <2> QED
    BY <2>1
<1>4. CASE instr \in [op : {"branch"}, args : Pair, label : STRING]
  <2>1. instr.op = "branch" /\ instr.args \in Operands \X Operands
    BY <1>4 DEF Pair
  <2>2. PICK a \in Operands, b \in Operands : instr.args = <<a, b>>
    BY <2>1
  <2>3. Read(instr) = {t \in {a, b} : IsTemp(t)}
    BY <2>1, <2>2 DEF Read
  <2>4. CASE IsTemp(a)
    <3>1. Range(Use(instr)) = {a, b}
      BY <2>1, <2>2, <2>4, PairRange DEF Use
    <3> QED
      BY <2>1, <2>2, <2>3, <2>4, <3>1
  <2>5. CASE ~IsTemp(a)
    <3>1. Range(Use(instr)) = {0}
      BY <2>1, <2>2, <2>5, PairRange DEF Use
    <3>2. Read(instr) = {t \in {b} : IsTemp(t)}
      BY <2>3, <2>5
    <3> QED
      BY <2>1, <2>2, <2>5, <3>1, <3>2
  <2> QED
    BY <2>4, <2>5
<1>5. CASE instr \in [op : {"jump", "label", "jal"}, args : {<<>>}, label : STRING]
                  \cup [op : {"jr"}, args : {<<>>}, label : {""}]
  <2>1. instr.op \in {"jump", "label", "jal", "jr"} /\ instr.args = <<>>
    BY <1>5
  <2>2. DOMAIN <<>> = {}
    OBVIOUS
  <2>3. Read(instr) = {}
    BY <2>1, <2>2, Zenon DEF Read
  <2> QED
    BY <2>1, <2>3
<1> QED
  BY <1>1, <1>2, <1>3, <1>4, <1>5 DEF Instructions

\* A label that is named is found, and the empty text is found at none that is named.
LEMMA Looked ==
  ASSUME NEW p \in Programs, NEW c \in DOMAIN p, p[c].label # ""
  PROVE  /\ (\A a, b \in TargetOf(p, c) : a = b)
              => TargetOf(p, c) \subseteq {FindInstructionNumberOfLabel(p, p[c].label)}
         /\ FindInstructionNumberOfLabel(p, "") \notin TargetOf(p, c)
<1>1. /\ NumCommands \in Nat \ {0} /\ DOMAIN p = 0 .. NumCommands - 1
  BY BackendAssumption
<1> DEFINE Carriers(text) == {d \in DOMAIN p : InstructionToLabel(p)[d] = text}
           Least(text) == CHOOSE d \in Carriers(text) : \A e \in Carriers(text) : d <= e
<1>2. \A d \in DOMAIN p : InstructionToLabel(p)[d] = IF p[d].op = "label" THEN p[d].label ELSE ""
  BY DEF InstructionToLabel
<1>3. TargetOf(p, c) = Carriers(p[c].label)
  BY <1>2 DEF TargetOf
<1>4. \A text : Carriers(text) \subseteq Nat
  <2>1. \A text : Carriers(text) \subseteq DOMAIN p
    OBVIOUS
  <2>2. DOMAIN p \subseteq Nat
    <3> HIDE DEF Carriers
    <3> QED
      BY ONLY <1>1
  <2> QED
    BY <2>1, <2>2, Zenon
<1>5. \A text : Carriers(text) # {} => Least(text) \in Carriers(text)
  <2> SUFFICES ASSUME NEW text, Carriers(text) # {}
               PROVE  Least(text) \in Carriers(text)
    OBVIOUS
  <2> DEFINE S == Carriers(text)
  <2>1. S \subseteq Nat /\ S # {}
    BY <1>4
  <2>2. (CHOOSE d \in S : \A e \in S : d <= e) \in S
    <3> HIDE DEF S
    <3> QED
      BY <2>1, MinIn DEF Min
  <2> QED
    BY <2>2
<1>6. \A text : Carriers(text) # {} => FindInstructionNumberOfLabel(p, text) = Least(text)
  BY DEF FindInstructionNumberOfLabel
<1> HIDE DEF Least
<1>7. ASSUME \A a, b \in TargetOf(p, c) : a = b
      PROVE  TargetOf(p, c) \subseteq {FindInstructionNumberOfLabel(p, p[c].label)}
  <2> HIDE DEF Carriers
  <2> SUFFICES ASSUME NEW d \in TargetOf(p, c)
               PROVE  d = FindInstructionNumberOfLabel(p, p[c].label)
    OBVIOUS
  <2>1. Carriers(p[c].label) # {}
    BY <1>3
  <2>2. FindInstructionNumberOfLabel(p, p[c].label) \in TargetOf(p, c)
    BY <1>3, <1>5, <1>6, <2>1
  <2> QED
    BY <1>7, <2>2
<1>8. FindInstructionNumberOfLabel(p, "") \notin TargetOf(p, c)
  <2>1. CASE Carriers("") # {}
    <3>1. FindInstructionNumberOfLabel(p, "") \in Carriers("")
      BY <1>5, <1>6, <2>1
    <3>2. InstructionToLabel(p)[FindInstructionNumberOfLabel(p, "")] = ""
      BY <3>1
    <3>3. \A d \in TargetOf(p, c) : InstructionToLabel(p)[d] = p[c].label
      BY <1>3
    <3> QED
      BY <3>2, <3>3
  <2>2. CASE Carriers("") = {}
    <3>1. FindInstructionNumberOfLabel(p, "") = CHOOSE d \in {e + 1 : e \in DOMAIN p} : d \notin DOMAIN p
      BY <2>2 DEF FindInstructionNumberOfLabel
    <3>2. \E past \in {e + 1 : e \in DOMAIN p} : past \notin DOMAIN p
      <4>1. NumCommands - 1 \in DOMAIN p /\ (NumCommands - 1) + 1 \notin DOMAIN p
        BY ONLY <1>1
      <4> QED
        BY ONLY <4>1
    <3>3. FindInstructionNumberOfLabel(p, "") \notin DOMAIN p
      BY <3>1, <3>2
    <3> QED
      BY <3>3 DEF TargetOf
  <2> QED
    BY <2>1, <2>2
<1> QED
  BY <1>7, <1>8

(***************************************************************************)
(* What the flow graph can be relied on for: exactly the programs without  *)
(* calls in which no label that is jumped to stands twice, every branch    *)
(* goes to the command behind it, and no branch compares a register with a *)
(* temporary to its right, but for Temp_0, which is what zeros name. A     *)
(* branch anywhere else is missed for some value of the pointer that its   *)
(* label is looked up by (absyn.h:58).                                     *)
(***************************************************************************)
THEOREM DrawnExactly ==
  ASSUME NEW p \in Programs, LabelsNamed(p)
  PROVE  (\A g \in FlowGraphsOf(p) : Complete(p, g)) <=> Drawable(p)
<1>1. /\ DOMAIN p = 0 .. NumCommands - 1 /\ NumCommands \in Nat \ {0}
      /\ \A c \in DOMAIN p : p[c] \in Instructions
  BY BackendAssumption
<1>2. ASSUME Drawable(p), NEW overlay \in [DOMAIN p -> BranchOverlay], NEW c \in DOMAIN p
      PROVE  /\ RunsOnTo(p, c) \subseteq Range(OutEdges(p, c, overlay[c]))
             /\ Read(p[c]) \subseteq Range(Use(p[c]))
  <2>1. Read(p[c]) \subseteq Range(Use(p[c]))
    BY <1>1, <1>2, ReadsDrawn DEF Drawable
  <2>2. CASE p[c].op = "branch"
    <3>1. RunsOnTo(p, c) \subseteq {c + 1}
      BY <1>2, <2>2 DEF Drawable, RunsOnTo
    <3>2. c + 1 \in Range(OutEdges(p, c, overlay[c]))
      BY <2>2, PairRange DEF OutEdges
    <3> QED
      BY <2>1, <3>1, <3>2
  <2>3. CASE p[c].op = "jump"
    <3>1. TargetOf(p, c) \subseteq {FindInstructionNumberOfLabel(p, p[c].label)}
      BY <1>2, <2>3, Looked DEF Drawable, LabelsNamed
    <3>2. RunsOnTo(p, c) = TargetOf(p, c)
      BY <2>3 DEF RunsOnTo
    <3>3. Range(OutEdges(p, c, overlay[c])) = {FindInstructionNumberOfLabel(p, p[c].label), NoEdge}
      BY <2>3, PairRange DEF OutEdges
    <3> QED
      BY <2>1, <3>1, <3>2, <3>3
  <2>4. CASE p[c].op = "jr"
    BY <2>1, <2>4 DEF RunsOnTo
  <2>5. CASE p[c].op \notin {"branch", "jump", "jr"}
    <3>1. p[c].op # "jal"
      BY <1>2 DEF Drawable
    <3>2. RunsOnTo(p, c) = {c + 1}
      BY <2>5 DEF RunsOnTo
    <3>3. Range(OutEdges(p, c, overlay[c])) = {c + 1, NoEdge}
      BY <2>5, <3>1, PairRange DEF OutEdges
    <3> QED
      BY <2>1, <3>2, <3>3
  <2> QED
    BY <2>2, <2>3, <2>4, <2>5
<1>3. Drawable(p) => \A g \in FlowGraphsOf(p) : Complete(p, g)
  BY <1>2 DEF FlowGraphsOf, FlowGraphOf, Complete
<1> DEFINE g0 == FlowGraphOf(p, [c \in DOMAIN p |-> ""])
<1>4. g0 \in FlowGraphsOf(p)
  BY DEF FlowGraphsOf, BranchOverlay
<1>5. ASSUME Complete(p, g0), NEW c \in DOMAIN p
      PROVE  /\ RunsOnTo(p, c) \subseteq Range(OutEdges(p, c, ""))
             /\ Read(p[c]) \subseteq Range(Use(p[c]))
  BY <1>5 DEF Complete, FlowGraphOf
<1>6. ASSUME Complete(p, g0), NEW c \in DOMAIN p
      PROVE  /\ p[c].op # "jal"
             /\ p[c].op = "jump" => \A a, b \in TargetOf(p, c) : a = b
             /\ p[c].op = "branch" =>
                  /\ TargetOf(p, c) \subseteq {c + 1}
                  /\ IsTemp(p[c].args[1]) \/ ~IsTemp(p[c].args[2]) \/ p[c].args[2] = 0
  <2>1. c + 1 # NoEdge /\ TargetOf(p, c) \subseteq DOMAIN p /\ NoEdge \notin DOMAIN p
    BY <1>1 DEF NoEdge, TargetOf
  <2>2. p[c].op # "jal"
    <3> SUFFICES ASSUME p[c].op = "jal"
                 PROVE  FALSE
      OBVIOUS
    <3>1. RunsOnTo(p, c) = {c + 1}
      BY DEF RunsOnTo
    <3>2. Range(OutEdges(p, c, "")) = {NoEdge}
      BY PairRange DEF OutEdges
    <3> QED
      BY <1>5, <1>6, <2>1, <3>1, <3>2
  <2>3. ASSUME p[c].op = "jump"
        PROVE  \A a, b \in TargetOf(p, c) : a = b
    <3>1. Range(OutEdges(p, c, "")) = {FindInstructionNumberOfLabel(p, p[c].label), NoEdge}
      BY <2>3, PairRange DEF OutEdges
    <3>2. RunsOnTo(p, c) = TargetOf(p, c)
      BY <2>3 DEF RunsOnTo
    <3>3. TargetOf(p, c) \subseteq {FindInstructionNumberOfLabel(p, p[c].label), NoEdge}
      BY <1>5, <1>6, <3>1, <3>2
    <3>4. \A a \in TargetOf(p, c) : a = FindInstructionNumberOfLabel(p, p[c].label)
      BY ONLY <2>1, <3>3
    <3> QED
      BY ONLY <3>4
  <2>4. ASSUME p[c].op = "branch"
        PROVE  TargetOf(p, c) \subseteq {c + 1}
    <3>1. Range(OutEdges(p, c, "")) = {c + 1, FindInstructionNumberOfLabel(p, "")}
      BY <2>4, PairRange DEF OutEdges
    <3>2. TargetOf(p, c) \subseteq RunsOnTo(p, c)
      BY <2>4 DEF RunsOnTo
    <3>3. FindInstructionNumberOfLabel(p, "") \notin TargetOf(p, c)
      BY <2>4, Looked DEF LabelsNamed
    <3> QED
      BY <1>5, <1>6, <3>1, <3>2, <3>3
  <2>5. p[c].op = "branch" =>
          IsTemp(p[c].args[1]) \/ ~IsTemp(p[c].args[2]) \/ p[c].args[2] = 0
    BY <1>1, <1>5, <1>6, ReadsDrawn
  <2> QED
    BY <2>2, <2>3, <2>4, <2>5
<1>7. Complete(p, g0) => Drawable(p)
  BY <1>6 DEF Drawable
<1> QED
  BY <1>3, <1>4, <1>7

(***************************************************************************)
(* Such a program has all its needs in the flow graph, so that every       *)
(* program that the tools are answerable for has them there.               *)
(***************************************************************************)
LEMMA NeedsOfDrawable == BInv => (LabelsNamed(prog) /\ Drawable(prog) => NeedsDrawn)
<1> SUFFICES ASSUME BInv, LabelsNamed(prog), Drawable(prog), NEW t \in Temporaries(prog)
             PROVE  LiveBefore(prog, t) \subseteq LP!LiveIn(t)
  BY SameLiveIn DEF NeedsDrawn
<1>1. prog \in Programs /\ flow \in FlowGraphsOf(prog)
  BY DEF BInv
<1>2. \A c \in DOMAIN prog : FlowComplete(c)
  BY <1>1, DrawnExactly DEF Complete, FlowComplete
<1>3. t \in Nat
  <2>1. PICK c \in DOMAIN prog : t \in Range(prog[c].args) /\ IsTemp(t)
    BY DEF Temporaries
  <2>2. prog[c] \in Instructions
    BY TablesOfProgram
  <2>3. PICK q \in DOMAIN prog[c].args : t = prog[c].args[q]
    BY <2>1 DEF Range
  <2>4. prog[c].args \in Seq(Nat \cup {Register})
    BY <2>2, InstructionFacts
  <2>5. t \in Nat \cup {Register}
    BY <2>3, <2>4
  <2> QED
    BY <2>1, <2>5 DEF IsTemp, Register
<1> QED
  BY <1>2, <1>3, LivenessCovers

LEMMA HandledNeeds ==
  ASSUME BInv, Handled
  PROVE  NeedsDrawn
BY NeedsOfDrawable DEF Handled

-----------------------------------------------------------------------------
(***************************************************************************)
(* Where the flow graph has every need, a temporary is live in the         *)
(* analysis at the commands that read it, and at those in front of a need  *)
(* that write any.                                                         *)
(***************************************************************************)
LEMMA NeedsMet ==
  ASSUME BInv, NeedsDrawn, NEW t \in Temporaries(prog)
  PROVE  /\ \A c \in DOMAIN prog : t \in Read(prog[c]) => c \in LP!LiveIn(t)
         /\ \A c \in LiveBehind(prog, t) : Written(prog[c]) # {} => c \in LP!LiveOut(t)
<1>1. DOMAIN prog = LP!Command /\ IsFiniteSet(DOMAIN prog)
  <2>1. 0 \in Int /\ NumCommands - 1 \in Int /\ DOMAIN prog = 0 .. NumCommands - 1
    BY TablesOfProgram
  <2> QED
    BY <2>1, TablesOfProgram, FS_Interval
<1>2. LiveBefore(prog, t) \subseteq LP!LiveIn(t)
  BY SameLiveIn DEF NeedsDrawn
<1>3. ASSUME NEW c \in LiveBehind(prog, t), Written(prog[c]) # {}
      PROVE  c \in LP!LiveOut(t)
  <2>1. c \in DOMAIN prog /\ RunsOnTo(prog, c) \cap LiveBefore(prog, t) # {}
    BY DEF LiveBehind
  <2>2. c + 1 \in LiveBefore(prog, t) /\ c + 1 \in LP!Followers(c)
    BY <1>3, <2>1, WritersGoOn
  <2>3. LP!LiveBehind(c, LP!LiveIn(t))
    BY <1>2, <2>2 DEF LP!LiveBehind
  <2> QED
    BY <1>1, <2>1, <2>3 DEF LP!LiveOut
<1> QED
  BY <1>1, <1>2, <1>3, LiveBeforeClosed

\* A command's temporaries are analysed, and the analysis has them live at the command.
LEMMA LiveWhereNamed ==
  ASSUME BInv, Handled, NEW c \in DOMAIN prog,
         NEW q \in DOMAIN prog[c].args, IsTemp(prog[c].args[q])
  PROVE  prog[c].args[q] \in 1 .. NumTemporaries - 1 /\ c \in LP!LiveAt(prog[c].args[q])
<1> DEFINE t == prog[c].args[q]
<1>1. t \in Range(prog[c].args) /\ DOMAIN prog = LP!Command /\ prog[c] \in Instructions
  BY TablesOfProgram DEF Range
<1>2. t \in 1 .. NumTemporaries - 1
  BY <1>1 DEF Handled, Analysed
<1>3. t \in Nat /\ t \in Temporaries(prog)
  BY <1>1, <1>2 DEF Temporaries
<1>4. /\ t \in Read(prog[c]) => c \in LP!LiveIn(t)
      /\ c \in LiveBehind(prog, t) /\ Written(prog[c]) # {} => c \in LP!LiveOut(t)
  BY <1>3, NeedsMet, HandledNeeds
<1>5. t \in Written(prog[c]) => c \in LiveBehind(prog, t)
  BY <1>3 DEF Handled, EveryWriteRead
<1>6. t \in Read(prog[c]) \cup Written(prog[c])
  BY <1>1, InstructionFacts
<1> QED
  BY <1>2, <1>4, <1>5, <1>6 DEF LP!LiveAt

(***************************************************************************)
(* Two temporaries that are live at one command have ranges that meet, so  *)
(* a line of the file and different registers.                             *)
(***************************************************************************)
LEMMA Apart ==
  ASSUME BInv, Finished, NEW a \in 1 .. NumTemporaries - 1, NEW b \in 1 .. NumTemporaries - 1, a # b,
         NEW c \in LP!LiveAt(a) \cap LP!LiveAt(b)
  PROVE  /\ a \in DOMAIN cells /\ b \in DOMAIN cells
         /\ cells[a] # cells[b]
<1>1. /\ stage = "rewriting" /\ closed /\ pc = "done" /\ temp = NumTemporaries
      /\ range = [low |-> low, high |-> high] /\ file = graph
      /\ alloc = "allocated" /\ cells = reg_assigned
      /\ IP!FInv /\ RP!IInv /\ LP!LInv /\ LP!RangesExact
      /\ NumTemporaries \in Nat \ {0} /\ NumCommands \in Nat \ {0}
  BY BackendAssumption DEF BInv, Finished, AnalysisInv, DrawingInv, ColouringInv, TextInv
<1>2. ASSUME NEW t \in {a, b}
      PROVE  t \in IP!Temporary \ {0} /\ IP!InRange(t, c) /\ c \in 0 .. range.high[t]
  <2>1. t \in LP!Temporary /\ t < temp /\ t \in IP!Temporary \ {0}
    BY <1>1 DEF LP!Temporary, IP!Temporary
  <2>2. LP!Spans(low[t], high[t], LP!LiveAt(t)) /\ c \in LP!LiveAt(t)
    BY <1>1, <2>1 DEF LP!RangesExact
  <2>3. LP!LiveAt(t) \subseteq 0 .. NumCommands - 1
    BY DEF LP!LiveAt, LP!LiveIn, LP!LiveOut, LP!Command
  <2>4. /\ low[t] \in 0 .. NumCommands - 1 /\ high[t] \in 0 .. NumCommands - 1
        /\ c \in 0 .. NumCommands - 1 /\ low[t] <= c /\ c <= high[t]
    BY <2>2, <2>3 DEF LP!Spans
  <2> QED
    BY <1>1, <2>1, <2>4 DEF IP!InRange
<1>3. ASSUME NEW x \in {a, b}, NEW y \in {a, b}, x < y
      PROVE  RP!Joined(x, y) /\ <<x, y>> \in RP!Edges
  <2>1. <<x, y>> \in IP!Lines
    <3>1. IP!FileComplete
      BY <1>1, IP!CompleteFromFInv
    <3>2. c \in 0 .. range.high[x] /\ IP!InRange(x, c) /\ IP!InRange(y, c)
      BY <1>2
    <3>3. <<x, y>> \in (IP!Temporary \ {0}) \X (IP!Temporary \ {0})
      BY <1>2
    <3> QED
      BY <1>1, <1>3, <3>1, <3>2, <3>3 DEF IP!FileComplete
  <2>2. PICK k \in 1 .. Len(graph) : graph[k] = <<x, y>>
    BY <2>1 DEF IP!Lines
  <2>3. k \in DOMAIN file /\ file[k] = <<x, y>>
    <3>1. DOMAIN graph = 1 .. Len(graph)
      BY <1>1, LenProperties DEF IP!FInv, IP!TypeOK
    <3> QED
      BY <1>1, <2>2, <3>1
  <2>4. <<x, y>> \in RP!Edges
    BY <2>3 DEF RP!Edges
  <2> QED
    BY <2>4 DEF RP!Joined
<1>4. RP!Joined(a, b) /\ a \in RP!Vertices /\ b \in RP!Vertices
  <2>1. NumRegs \in Nat \ {0} /\ NumTemporaries - 1 \in Nat
    BY BackendAssumption
  <2>2. ASSUME NEW e \in RP!Edges
        PROVE  e[1] \in RP!Vertices /\ e[2] \in RP!Vertices
    BY <1>1, <2>1, RP!EndsInBounds
  <2>3. CASE a < b
    BY <1>3, <2>2, <2>3
  <2>4. CASE b < a
    <3>1. RP!Joined(b, a) /\ <<b, a>> \in RP!Edges
      BY <1>3, <2>4
    <3> QED
      BY <2>2, <3>1 DEF RP!Joined
  <2> QED
    BY <2>3, <2>4
<1>5. DOMAIN reg_assigned = RP!Vertices /\ \A v \in RP!Vertices : reg_assigned[v] # -1
  <2>1. reg_assigned \in [RP!Vertices -> 0 .. 7]
    BY <1>1, RegistersLeft
  <2> QED
    BY <2>1
<1>6. reg_assigned[a] # reg_assigned[b]
  BY <1>1, <1>4, <1>5 DEF RP!IInv, RP!Colours, RP!ProperColouring
<1> QED
  BY <1>1, <1>4, <1>5, <1>6

(***************************************************************************)
(* In the final text every temporary goes by the register in its cell, or  *)
(* without a cell by $t9: another temporary on its line would interfere    *)
(* with it, and it would have a cell.                                      *)
(***************************************************************************)
RegisterFor(t) == IF t \in DOMAIN cells THEN W!Reg(cells[t]) ELSE W!Reg(9)

LEMMA FinalOperand ==
  ASSUME BInv, Finished, Handled, NEW c \in DOMAIN prog,
         NEW q \in DOMAIN prog[c].args, IsTemp(prog[c].args[q])
  PROVE  final[c + 1][q] = RegisterFor(prog[c].args[q])
<1> DEFINE t == prog[c].args[q]
           l == c + 1
<1>1. /\ WP!RInv /\ cells \in Seq(0 .. 7) /\ DOMAIN cells = 1 .. Len(cells) /\ Len(cells) \in Nat
      /\ source = SourceLines /\ source \in Seq(Seq(WP!Operands))
      /\ Len(final) = Len(source) /\ NumCommands \in Nat \ {0}
  BY BackendAssumption, LenProperties
  DEF BInv, Finished, TextInv, WP!RInv, WP!TypeOK, WP!Copied
<1>2. Len(source) = NumCommands /\ c \in 0 .. NumCommands - 1
  <2>1. DOMAIN source = 1 .. NumCommands
    BY <1>1 DEF SourceLines
  <2>2. DOMAIN source = 1 .. Len(source) /\ Len(source) \in Nat
    BY <1>1, LenProperties
  <2>3. DOMAIN prog = 0 .. NumCommands - 1
    BY TablesOfProgram
  <2> QED
    BY <1>1, <2>1, <2>2, <2>3
<1>3. /\ l \in 1 .. Len(final) /\ l \in 1 .. NumCommands /\ l - 1 = c
  BY <1>1, <1>2
<1>4. /\ DOMAIN source[l] = DOMAIN prog[c].args
      /\ \A p \in DOMAIN prog[c].args : source[l][p] = Operand(prog[c].args[p])
  BY <1>1, <1>3, LinesTyped DEF BInv
<1>5. source[l][q] = <<"Temp_", t>> /\ WP!IsTempOperand(source[l][q]) /\ source[l][q][2] = t
  <2>1. source[l][q] = Operand(t) /\ IsTemp(t)
    BY <1>4
  <2>2. Operand(t) = <<"Temp_", t>>
    BY <2>1 DEF Operand, W!Temp
  <2> QED
    BY <2>1, <2>2 DEF WP!IsTempOperand
<1>6. t \in 1 .. NumTemporaries - 1 /\ c \in LP!LiveAt(t) /\ t \in Nat /\ t >= 1
  <2>1. t \in 1 .. NumTemporaries - 1 /\ c \in LP!LiveAt(t)
    BY LiveWhereNamed
  <2> QED
    BY <2>1, BackendAssumption
<1>7. CASE t \in DOMAIN cells
  <2>1. t \in 1 .. WP!max_alloc_num - 1
    <3>1. t \in 1 .. Len(cells) /\ cells # <<>>
      BY <1>1, <1>7, EmptySeq
    <3> QED
      BY <1>1, <3>1 DEF WP!max_alloc_num
  <2>2. WP!SubstitutesEach
    BY <1>1, WP!SubstitutesFromRInv
  <2>3. final[l][q] = WP!Reg(cells[t])
    BY <1>3, <1>4, <1>5, <2>1, <2>2 DEF WP!SubstitutesEach
  <2> QED
    BY <1>7, <2>3 DEF RegisterFor, W!Reg, WP!Reg
<1>8. CASE t \notin DOMAIN cells
  <2>1. t >= WP!max_alloc_num
    BY <1>1, <1>6, <1>8 DEF WP!max_alloc_num
  <2>2. ASSUME NEW p \in DOMAIN source[l], WP!IsTempOperand(source[l][p]),
               source[l][p][2] >= WP!max_alloc_num
        PROVE  source[l][p] = source[l][q]
    <3> DEFINE u == prog[c].args[p]
    <3>1. p \in DOMAIN prog[c].args /\ source[l][p] = Operand(u)
      BY <1>4
    <3>2. IsTemp(u) /\ source[l][p] = <<"Temp_", u>>
      BY <2>2, <3>1 DEF Operand, W!Temp, W!Other, WP!IsTempOperand
    <3>3. u \in 1 .. NumTemporaries - 1 /\ c \in LP!LiveAt(u)
      BY <3>1, <3>2, LiveWhereNamed
    <3>4. u = t
      <4> SUFFICES ASSUME u # t
                   PROVE  FALSE
        OBVIOUS
      <4>1. t \in DOMAIN cells
        <5> HIDE DEF t, u
        <5> QED
          BY <1>6, <3>3, Apart
      <4> QED
        BY <1>8, <4>1
    <3> QED
      BY <1>5, <3>2, <3>4
  <2>3. final[l][q] = WP!Reg(9)
    <3> HIDE DEF t, l
    <3>1. q \in DOMAIN source[l]
      BY <1>4
    <3> QED
      BY <1>1, <1>3, <1>5, <2>1, <2>2, <3>1, WP!LonelyWritten
  <2> QED
    BY <1>8, <2>3 DEF RegisterFor, W!Reg, WP!Reg
<1> QED
  BY <1>7, <1>8

\* So a temporary goes by one name only.
LEMMA NamedByRegister ==
  ASSUME BInv, Finished, Handled, NEW t \in Temporaries(prog), NEW a \in NamesOf(t)
  PROVE  a = RegisterFor(t)
<1>1. IsTemp(t)
  BY DEF Temporaries
<1>2. PICK c \in DOMAIN prog : a \in {final[c + 1][p] : p \in {q \in DOMAIN prog[c].args : prog[c].args[q] = t}}
  BY DEF NamesOf
<1>3. PICK q \in DOMAIN prog[c].args : prog[c].args[q] = t /\ a = final[c + 1][q]
  BY <1>2
<1> QED
  BY <1>1, <1>3, FinalOperand

\* The temporary that a command writes does not share its register with one that is live behind.
LEMMA WrittenApart ==
  ASSUME BInv, Finished, Handled, NEW t \in Temporaries(prog), NEW c \in LiveBehind(prog, t),
         Written(prog[c]) \notin {{}, {t}}
  PROVE  /\ 1 \in DOMAIN prog[c].args /\ IsTemp(prog[c].args[1])
         /\ final[c + 1][1] = RegisterFor(prog[c].args[1])
         /\ RegisterFor(prog[c].args[1]) # RegisterFor(t)
<1> DEFINE d == Def(prog[c])
<1>1. c \in DOMAIN prog /\ prog[c] \in Instructions
  BY TablesOfProgram DEF LiveBehind
<1>2. IsTemp(d) /\ d # t /\ Written(prog[c]) = {d}
  BY DEF Written
<1>3. 1 \in DOMAIN prog[c].args /\ prog[c].args[1] = d
  BY <1>1, <1>2, InstructionFacts DEF NoTemp, IsTemp
<1>4. d \in 1 .. NumTemporaries - 1 /\ c \in LP!LiveAt(d) /\ final[c + 1][1] = RegisterFor(d)
  BY <1>1, <1>2, <1>3, LiveWhereNamed, FinalOperand
<1>5. t \in 1 .. NumTemporaries - 1
  <2>1. PICK b \in DOMAIN prog : t \in Range(prog[b].args) /\ IsTemp(t)
    BY DEF Temporaries
  <2> QED
    BY <2>1 DEF Handled, Analysed
<1>6. c \in LP!LiveAt(t)
  <2>1. c \in LP!LiveOut(t)
    BY <1>2, NeedsMet, HandledNeeds
  <2> QED
    BY <2>1 DEF LP!LiveAt
<1>7. d \in DOMAIN cells /\ t \in DOMAIN cells /\ cells[d] # cells[t]
  <2> HIDE DEF d
  <2> QED
    BY <1>2, <1>4, <1>5, <1>6, Apart
<1>8. RegisterFor(d) # RegisterFor(t)
  <2> HIDE DEF d
  <2> QED
    BY <1>7 DEF RegisterFor, W!Reg
<1> QED
  BY <1>2, <1>3, <1>4, <1>8

LEMMA SoundFromBInv == BInv => AllocationSound
<1> SUFFICES ASSUME BInv, Finished, Handled
             PROVE  NothingOverwritten /\ OneName
  BY DEF AllocationSound
<1>1. OneName
  <2> SUFFICES ASSUME NEW t \in Temporaries(prog), NEW a \in NamesOf(t), NEW b \in NamesOf(t)
               PROVE  a = b /\ ~W!IsTempOperand(a)
    BY DEF OneName
  <2>1. a = RegisterFor(t) /\ b = RegisterFor(t)
    BY NamedByRegister
  <2>2. ~W!IsTempOperand(RegisterFor(t))
    BY DEF RegisterFor, W!Reg, W!IsTempOperand
  <2> QED
    BY <2>1, <2>2
<1>2. NothingOverwritten
  <2> SUFFICES ASSUME NEW t \in Temporaries(prog), NEW c \in LiveBehind(prog, t),
                      Written(prog[c]) \notin {{}, {t}}, final[c + 1][1] \in NamesOf(t)
               PROVE  FALSE
    BY DEF NothingOverwritten
  <2>1. /\ final[c + 1][1] = RegisterFor(prog[c].args[1])
        /\ RegisterFor(prog[c].args[1]) # RegisterFor(t)
    BY WrittenApart
  <2>2. final[c + 1][1] = RegisterFor(t)
    BY NamedByRegister
  <2> QED
    BY <2>1, <2>2
<1> QED
  BY <1>1, <1>2

(***************************************************************************)
(* The tools keep the meaning of every program whose flow graph has all    *)
(* its needs, of whatever length and with however many temporaries: no     *)
(* register is written while a temporary that it holds is still needed,    *)
(* and a temporary goes by one register.                                   *)
(***************************************************************************)
THEOREM AllocationCorrect == Spec => []AllocationSound
BY SoundFromBInv, BackendInvariance, PTL
-----------------------------------------------------------------------------
(***************************************************************************)
(* Such a program has all its needs in the flow graph, so that the         *)
(* soundness of the allocation does not depend on where the pointers lie.  *)
(***************************************************************************)
THEOREM DrawableHasNeeds == Spec => [](LabelsNamed(prog) /\ Drawable(prog) => NeedsDrawn)
BY NeedsOfDrawable, BackendInvariance, PTL

-----------------------------------------------------------------------------
(***************************************************************************)
(* How many steps the whole road takes at most.  A line of the file costs  *)
(* the allocator two steps, so that each step of the drawing, which writes *)
(* one line or none, counts for three.                                     *)
(***************************************************************************)
DrawingSteps    == (NumTemporaries - 1) * IP!Row + NumTemporaries
AllocatingSteps == NumTemporaries + 2     \* beside those for the file
TextSteps       == 2 * NumCommands + 2

StepsLeft ==
  CASE stage = "liveness"     -> LP!StepsLeft + 3 * DrawingSteps + AllocatingSteps + TextSteps + 3
    [] stage = "interference" -> 3 * IP!StepsLeft + 2 * Len(graph) + AllocatingSteps + TextSteps + 2
    [] stage = "allocation"   -> RP!StepsLeft + TextSteps + 1
    [] stage = "rewriting"    -> WP!StepsLeft

MostSteps == NumTemporaries * LP!PerTemp + 3 * DrawingSteps + AllocatingSteps + TextSteps + 4

LEMMA NumbersOfSteps ==
  /\ NumCommands \in Nat \ {0} /\ NumTemporaries \in Nat \ {0} /\ NumRegs \in Nat \ {0}
  /\ NumTemporaries - 1 \in Nat
  /\ DrawingSteps \in Nat /\ AllocatingSteps \in Nat /\ TextSteps \in Nat
<1>1. /\ NumCommands \in Nat \ {0} /\ NumTemporaries \in Nat \ {0} /\ NumRegs \in Nat \ {0}
      /\ NumTemporaries - 1 \in Nat
  BY BackendAssumption
<1>2. IP!Row \in Nat
  BY <1>1 DEF IP!Row
<1>3. (NumTemporaries - 1) * IP!Row \in Nat
  BY <1>1, <1>2, TimesInNat
<1> QED
  BY <1>1, <1>3 DEF DrawingSteps, AllocatingSteps, TextSteps

\* The measures of the tools that are running are numbers.
LEMMA ToolsMeasured ==
  ASSUME BInv
  PROVE  /\ LP!StepsLeft \in Nat
         /\ stage # "liveness" => IP!StepsLeft \in Nat /\ Len(graph) \in Nat
         /\ RP!StepsLeft \in Nat
         /\ WP!StepsLeft \in Nat
<1>1. LP!StepsLeft \in Nat
  BY NumbersOfSteps, FlowGraphsTyped, LP!StepsLeftInNat DEF BInv, AnalysisInv
<1>2. ASSUME stage # "liveness"
      PROVE  IP!StepsLeft \in Nat /\ Len(graph) \in Nat
  BY <1>2, IP!RowsLeft, LenProperties DEF BInv, DrawingInv, IP!FInv, IP!TypeOK
<1>3. RP!StepsLeft \in Nat
  BY NumbersOfSteps, RP!BothLeft DEF BInv, ColouringInv
<1>4. WP!StepsLeft \in Nat
  BY WP!Lengths DEF BInv, TextInv
<1> QED
  BY <1>1, <1>2, <1>3, <1>4

LEMMA StepsLeftInNat == BInv => StepsLeft \in Nat
<1> SUFFICES ASSUME BInv
             PROVE  StepsLeft \in Nat
  OBVIOUS
<1>1. PICK d, a, t \in Nat : d = DrawingSteps /\ a = AllocatingSteps /\ t = TextSteps
  BY NumbersOfSteps
<1>2. CASE stage = "liveness"
  <2>1. PICK x \in Nat : x = LP!StepsLeft
    BY ToolsMeasured
  <2>2. StepsLeft = x + 3 * d + a + t + 3
    BY <1>1, <1>2, <2>1 DEF StepsLeft
  <2> QED
    BY <2>2
<1>3. CASE stage = "interference"
  <2>1. PICK x, m \in Nat : x = IP!StepsLeft /\ m = Len(graph)
    BY <1>3, ToolsMeasured
  <2>2. StepsLeft = 3 * x + 2 * m + a + t + 2
    BY <1>1, <1>3, <2>1 DEF StepsLeft
  <2> QED
    BY <2>2
<1>4. CASE stage = "allocation"
  <2>1. PICK x \in Nat : x = RP!StepsLeft
    BY ToolsMeasured
  <2>2. StepsLeft = x + t + 1
    BY <1>1, <1>4, <2>1 DEF StepsLeft
  <2> QED
    BY <2>2
<1>5. CASE stage = "rewriting"
  BY <1>5, ToolsMeasured DEF StepsLeft
<1> QED
  BY <1>2, <1>3, <1>4, <1>5 DEF BInv

\* No pass of the analysis takes back a mark, and the other tools do not touch its arrays.
LEMMA KeptStays == BInv /\ LP!Kept /\ [Next]_vars => LP!Kept'
<1> SUFFICES ASSUME BInv, LP!Kept, [Next]_vars
             PROVE  LP!Kept'
  OBVIOUS
<1>1. [L!Next]_livenessVars
  BY DEF Next, Liveness, StartInterference, Interference, StartAllocation, Allocation,
         StartRewriting, Rewriting, vars
<1>2. [LP!Next]_(LP!vars)
  BY <1>1, LivenessSteps DEF livenessVars, LP!vars
<1> QED
  BY <1>2, NumbersOfSteps, FlowGraphsTyped, LP!NextKept DEF BInv, AnalysisInv

LEMMA EveryStepCounts == BInv /\ LP!Kept /\ Next => StepsLeft' < StepsLeft
<1> SUFFICES ASSUME BInv, LP!Kept, Next
             PROVE  StepsLeft' < StepsLeft
  OBVIOUS
<1>1. BInv'
  BY LivenessStep, StartInterferenceStep, InterferenceStep, StartAllocationStep, AllocationStep,
     StartRewritingStep, RewritingStep DEF Next
<1>2. (BInv => /\ LP!StepsLeft \in Nat
               /\ stage # "liveness" => IP!StepsLeft \in Nat /\ Len(graph) \in Nat
               /\ RP!StepsLeft \in Nat
               /\ WP!StepsLeft \in Nat)'
  BY ToolsMeasured, PTL
<1>3. PICK a, t \in Nat : a = AllocatingSteps /\ t = TextSteps
  BY NumbersOfSteps
<1>4. CASE Liveness
  <2>1. stage = "liveness" /\ stage' = "liveness" /\ L!Next
    BY <1>4 DEF Liveness
  <2>2. LP!StepsLeft' < LP!StepsLeft
    BY <2>1, LivenessSteps, NumbersOfSteps, FlowGraphsTyped, LP!EveryStepCounts DEF BInv, AnalysisInv
  <2>3. PICK x, y \in Nat : x = LP!StepsLeft /\ y = LP!StepsLeft' /\ y < x
    BY <1>1, <1>2, <2>2, ToolsMeasured
  <2>4. PICK d \in Nat : d = 3 * DrawingSteps
    BY NumbersOfSteps
  <2>5. StepsLeft = x + d + a + t + 3 /\ StepsLeft' = y + d + a + t + 3
    BY <1>3, <2>1, <2>3, <2>4 DEF StepsLeft
  <2>6. y < x
    BY ONLY <2>3
  <2> QED
    BY ONLY <2>5, <2>6, x \in Nat, y \in Nat, d \in Nat, a \in Nat, t \in Nat
<1>5. CASE StartInterference
  <2>1. /\ stage = "liveness" /\ stage' = "interference" /\ pc = "done"
        /\ UNCHANGED <<i, j, graph, closed>>
        /\ i = 1 /\ j = 2 /\ graph = <<>> /\ ~closed
    BY <1>5 DEF StartInterference, BInv, DrawingInv, I!Start
  <2>2. LP!StepsLeft = 0
    BY <2>1 DEF LP!StepsLeft
  <2>3. IP!StepsLeft' = DrawingSteps
    <3>1. PICK k \in Nat : k = (NumTemporaries - 1) * IP!Row
      <4>1. IP!Row \in Nat
        BY NumbersOfSteps DEF IP!Row
      <4> QED
        BY <4>1, NumbersOfSteps, TimesInNat
    <3>2. IP!StepsLeft' = k + (NumTemporaries + 1 - 2) + 1
      BY <2>1, <3>1 DEF IP!StepsLeft
    <3> QED
      BY <3>1, <3>2, NumbersOfSteps DEF DrawingSteps
  <2>4. Len(graph') = 0
    BY <2>1
  <2>5. PICK d \in Nat : d = DrawingSteps
    BY NumbersOfSteps
  <2>6. StepsLeft = 3 * d + a + t + 3 /\ StepsLeft' = 3 * d + a + t + 2
    BY <1>3, <2>1, <2>2, <2>3, <2>4, <2>5 DEF StepsLeft
  <2> QED
    BY <2>6
<1>6. CASE Interference
  <2>1. stage = "interference" /\ stage' = "interference" /\ I!Next
    BY <1>6 DEF Interference
  <2>2. IP!StepsLeft' < IP!StepsLeft
    BY <2>1, InterferenceSteps, IP!EveryStepCounts DEF BInv, DrawingInv
  <2>3. PICK x, y \in Nat : x = IP!StepsLeft /\ y = IP!StepsLeft' /\ y < x
    BY <1>1, <1>2, <2>1, <2>2, ToolsMeasured
  <2>4. PICK m, n2 \in Nat : m = Len(graph) /\ n2 = Len(graph') /\ n2 <= m + 1
    <3>1. graph \in Seq(IP!Temporary \X IP!Temporary)
      BY <2>1 DEF BInv, DrawingInv, IP!FInv, IP!TypeOK
    <3>2. graph' = graph \/ \E e : graph' = Append(graph, e)
      BY <2>1 DEF I!Next, I!ComparePair, I!NextRow, I!CloseFile
    <3>3. Len(graph') = Len(graph) \/ Len(graph') = Len(graph) + 1
      BY <3>1, <3>2
    <3>4. Len(graph) \in Nat
      BY <3>1, LenProperties
    <3> QED
      BY <3>3, <3>4
  <2>5. StepsLeft = 3 * x + 2 * m + a + t + 2 /\ StepsLeft' = 3 * y + 2 * n2 + a + t + 2
    BY <1>3, <2>1, <2>3, <2>4 DEF StepsLeft
  <2> QED
    BY <2>3, <2>4, <2>5
<1>7. CASE StartAllocation
  <2>1. /\ stage = "interference" /\ stage' = "allocation" /\ closed
        /\ file' = graph
        /\ alloc' = "measure" /\ line' = 1 /\ vertex' = 1
    BY <1>7 DEF StartAllocation, BInv, ColouringInv, R!Start
  <2>2. PICK m \in Nat : m = Len(graph)
    BY <2>1, ToolsMeasured
  <2>3. IP!StepsLeft = 0
    BY <2>1 DEF IP!StepsLeft
  <2>4. RP!StepsLeft' = 2 * m + a
    BY <1>3, <2>1, <2>2, NumbersOfSteps
    DEF RP!StepsLeft, RP!LinesLeft, RP!VerticesLeft, AllocatingSteps
  <2>5. StepsLeft = 2 * m + a + t + 2 /\ StepsLeft' = 2 * m + a + t + 1
    BY <1>3, <2>1, <2>2, <2>3, <2>4 DEF StepsLeft
  <2> QED
    BY <2>5
<1>8. CASE Allocation
  <2>1. stage = "allocation" /\ stage' = "allocation" /\ R!Next
    BY <1>8 DEF Allocation
  <2>2. RP!StepsLeft' < RP!StepsLeft
    BY <2>1, AllocationSteps, NumbersOfSteps, RP!EveryStepCounts DEF BInv, ColouringInv
  <2>3. PICK x, y \in Nat : x = RP!StepsLeft /\ y = RP!StepsLeft' /\ y < x
    BY <1>1, <1>2, <2>2, ToolsMeasured
  <2>4. StepsLeft = x + t + 1 /\ StepsLeft' = y + t + 1
    BY <1>3, <2>1, <2>3 DEF StepsLeft
  <2>5. y < x
    BY ONLY <2>3
  <2> QED
    BY ONLY <2>4, <2>5, x \in Nat, y \in Nat, t \in Nat
<1>9. CASE StartRewriting
  <2>1. /\ stage = "allocation" /\ stage' = "rewriting" /\ alloc = "allocated"
        /\ source' = SourceLines
        /\ rewrite' = "registers" /\ temp_txt' = <<>>
    BY <1>9 DEF StartRewriting, BInv, TextInv, W!Start
  <2>2. Len(source') = NumCommands
    BY <2>1, NumbersOfSteps DEF SourceLines
  <2>3. WP!StepsLeft' = t
    BY <1>3, <2>1, <2>2, NumbersOfSteps DEF WP!StepsLeft, TextSteps
  <2>4. RP!StepsLeft = 0
    BY <2>1 DEF RP!StepsLeft
  <2>5. StepsLeft = t + 1 /\ StepsLeft' = t
    BY <1>3, <2>1, <2>3, <2>4 DEF StepsLeft
  <2> QED
    BY <2>5
<1>10. CASE Rewriting
  <2>1. stage = "rewriting" /\ stage' = "rewriting" /\ W!Next
    BY <1>10 DEF Rewriting
  <2>2. WP!StepsLeft' < WP!StepsLeft
    BY <2>1, RewritingSteps, WP!EveryStepCounts DEF BInv, TextInv
  <2> QED
    BY <2>1, <2>2 DEF StepsLeft
<1> QED
  BY <1>4, <1>5, <1>6, <1>7, <1>8, <1>9, <1>10 DEF Next

(***************************************************************************)
(* The road comes to an end, in the final text or in the allocator's       *)
(* giving up: the tools together take no more than MostSteps steps, which  *)
(* the numbers of commands and temporaries decide, for every program.      *)
(***************************************************************************)
THEOREM RoadEnds ==
  Spec => /\ StepsLeft = MostSteps
          /\ [](StepsLeft \in Nat)
          /\ [][StepsLeft' < StepsLeft]_vars
<1>1. Init => LP!Kept /\ StepsLeft = MostSteps
  <2> SUFFICES ASSUME Init
               PROVE  LP!Kept /\ StepsLeft = MostSteps
    OBVIOUS
  <2>1. stage = "liveness" /\ pc = "next_temp" /\ temp = 0
    BY DEF Init, L!Start
  <2>2. LP!StepsLeft = NumTemporaries * LP!PerTemp + 1
    <3>1. NumTemporaries - temp = NumTemporaries
      BY <2>1, NumbersOfSteps
    <3> QED
      BY <2>1, <3>1 DEF LP!StepsLeft
  <2>3. PICK k \in Nat : k = NumTemporaries * LP!PerTemp
    BY NumbersOfSteps, FlowGraphsTyped, LP!Products
  <2>4. PICK d, a, t \in Nat : d = 3 * DrawingSteps /\ a = AllocatingSteps /\ t = TextSteps
    BY NumbersOfSteps
  <2>5. StepsLeft = k + 1 + d + a + t + 3 /\ MostSteps = k + d + a + t + 4
    BY <2>1, <2>2, <2>3, <2>4 DEF StepsLeft, MostSteps
  <2>6. LP!Kept
    BY <2>1 DEF LP!Kept
  <2> QED
    BY <2>5, <2>6
<1>2. Spec => []LP!Kept
  BY <1>1, KeptStays, BackendInvariance, PTL DEF Spec
<1> QED
  BY <1>1, <1>2, StepsLeftInNat, EveryStepCounts, BackendInvariance, PTL DEF Spec

-----------------------------------------------------------------------------
(***************************************************************************)
(* The two programs side by side.  The simulation relation: before command *)
(* at, the register that a temporary goes by holds what the temporary      *)
(* holds, for every temporary that is live there; the others may have been *)
(* overwritten.                                                            *)
(***************************************************************************)
Alike(t) == temps[W!Temp(t)] = regs[RegisterFor(t)]

RInv ==
  at # -1 =>
    /\ Finished
    /\ DOMAIN temps = Names(source)
    /\ DOMAIN regs = Names(final)
    /\ Replayable => \A t \in Temporaries(prog) : at \in LiveBefore(prog, t) => Alike(t)

\* The lines of both texts belong to the commands, operand by operand.
LEMMA TextOfCommand ==
  ASSUME BInv, Finished, NEW c \in DOMAIN prog
  PROVE  /\ c + 1 \in DOMAIN source /\ c + 1 \in DOMAIN final
         /\ DOMAIN source[c + 1] = DOMAIN prog[c].args
         /\ \A q \in DOMAIN prog[c].args :
              /\ q \in DOMAIN final[c + 1]
              /\ source[c + 1][q] = Operand(prog[c].args[q])
              /\ ~IsTemp(prog[c].args[q]) => final[c + 1][q] = W!Other
<1>1. /\ WP!RInv /\ source = SourceLines /\ source \in Seq(Seq(WP!Operands))
      /\ final \in Seq(Seq(WP!Operands)) /\ Len(final) = Len(source)
      /\ NumCommands \in Nat \ {0} /\ c \in 0 .. NumCommands - 1
      /\ DOMAIN source = 1 .. Len(source) /\ DOMAIN final = 1 .. Len(final)
  BY BackendAssumption, LenProperties, TablesOfProgram
  DEF BInv, Finished, TextInv, WP!RInv, WP!TypeOK, WP!Copied
<1>2. c + 1 \in DOMAIN source /\ c + 1 \in DOMAIN final /\ c + 1 \in 1 .. NumCommands /\ (c + 1) - 1 = c
  <2>1. DOMAIN source = 1 .. NumCommands
    BY <1>1 DEF SourceLines
  <2> QED
    BY <1>1, <2>1
<1>3. /\ DOMAIN source[c + 1] = DOMAIN prog[c].args
      /\ \A q \in DOMAIN prog[c].args : source[c + 1][q] = Operand(prog[c].args[q])
  BY <1>1, <1>2, LinesTyped DEF BInv
<1>4. ASSUME NEW q \in DOMAIN prog[c].args
      PROVE  q \in DOMAIN final[c + 1]
  BY <1>1, <1>2, <1>3, WP!OperandWritten
<1>5. ASSUME NEW q \in DOMAIN prog[c].args, ~IsTemp(prog[c].args[q])
      PROVE  final[c + 1][q] = W!Other
  <2>1. WP!SubstitutesEach
    BY <1>1, WP!SubstitutesFromRInv
  <2>2. source[c + 1][q] = W!Other /\ ~WP!IsTempOperand(source[c + 1][q])
    BY <1>3, <1>5 DEF Operand, W!Other, WP!IsTempOperand
  <2> QED
    BY <1>1, <1>2, <1>3, <2>1, <2>2 DEF WP!SubstitutesEach
<1> QED
  BY <1>2, <1>3, <1>4, <1>5

\* What the two names of a temporary have to do with the texts.
LEMMA NamesApart ==
  ASSUME NEW t
  PROVE  /\ W!Temp(t) # W!Other /\ RegisterFor(t) # W!Other
         /\ IsTemp(t) => Operand(t) = W!Temp(t)
         /\ ~IsTemp(t) => Operand(t) = W!Other
         /\ \A u : W!Temp(t) = W!Temp(u) => t = u
BY DEF W!Temp, W!Other, W!Reg, RegisterFor, Operand

LEMMA NamedInText ==
  ASSUME NEW text, NEW l \in DOMAIN text, NEW q \in DOMAIN text[l], text[l][q] # W!Other
  PROVE  text[l][q] \in Names(text)
<1>1. text[l][q] \in Range(text[l])
  BY DEF Range
<1>2. text[l][q] \in UNION {Range(text[m]) : m \in DOMAIN text}
  BY <1>1
<1> QED
  BY <1>2 DEF Names

\* A run of the text changes nothing of the program and of what is known of it.
LEMMA StaysReplayable ==
  ASSUME UNCHANGED <<prog, flow, in>>
  PROVE  Replayable' <=> Replayable
<1>1. \A t : L!LiveIn(t)' = L!LiveIn(t)
  BY DEF L!LiveIn, L!Closed, L!Command, L!UsesOf, L!DefinesOf, L!LiveBehind, L!Followers
<1>2. NeedsDrawn' <=> NeedsDrawn
  BY <1>1 DEF NeedsDrawn
<1> QED
  BY <1>2 DEF Replayable, Handled, Analysed, LabelsNamed, Drawable

\* A command finds the same operands, because it reads live temporaries only.
LEMMA SameOperandsFromRInv ==
  ASSUME BInv, RInv, at \in DOMAIN prog, Replayable
  PROVE  SameOperands(at)
<1>1. /\ at # -1 /\ Finished /\ Handled
      /\ \A t \in Temporaries(prog) : at \in LiveBefore(prog, t) => Alike(t)
  <2>1. at # -1
    BY TablesOfProgram
  <2> QED
    BY <2>1 DEF RInv, Replayable
<1>2. IsFiniteSet(DOMAIN prog)
  BY TablesOfProgram, FS_Interval
<1> SUFFICES ASSUME NEW p \in ReadPlaces(at)
             PROVE  IF source[at + 1][p] = W!Other \/ final[at + 1][p] = W!Other
                      THEN source[at + 1][p] = final[at + 1][p]
                      ELSE temps[source[at + 1][p]] = regs[final[at + 1][p]]
  BY DEF SameOperands
<1> DEFINE t == prog[at].args[p]
<1>3. p \in DOMAIN prog[at].args
  BY DEF ReadPlaces
<1>4. source[at + 1][p] = Operand(t) /\ (~IsTemp(t) => final[at + 1][p] = W!Other)
  BY <1>1, <1>3, TextOfCommand
<1>5. CASE IsTemp(t)
  <2>1. t \in Temporaries(prog) /\ t \in Read(prog[at])
    BY <1>3, <1>5 DEF Temporaries, Range, ReadPlaces, Read
  <2>2. at \in LiveBefore(prog, t)
    BY <1>2, <2>1, LiveBeforeClosed
  <2>3. final[at + 1][p] = RegisterFor(t)
    BY <1>1, <1>3, <1>5, FinalOperand
  <2> HIDE DEF t
  <2>4. source[at + 1][p] = W!Temp(t) /\ W!Temp(t) # W!Other /\ RegisterFor(t) # W!Other
    BY <1>4, <1>5, NamesApart
  <2>5. Alike(t)
    BY <1>1, <2>1, <2>2
  <2> QED
    BY <2>3, <2>4, <2>5 DEF Alike
<1>6. CASE ~IsTemp(t)
  <2> HIDE DEF t
  <2> QED
    BY <1>4, <1>6, NamesApart
<1> QED
  BY <1>5, <1>6

-----------------------------------------------------------------------------
\* The second machine's start: no temporary is live, for every one that is read was written before.
LEMMA StartStep ==
  ASSUME BInv, Start
  PROVE  RInv'
<1>1. /\ Finished /\ at' = 0 /\ temps' \in [Names(source) -> Value] /\ regs' \in [Names(final) -> Value]
      /\ UNCHANGED <<stage, rewrite, prog, flow, in, source, final>>
  BY DEF Start, vars, livenessVars, rewriteVars
<1>2. Replayable' => \A t \in Temporaries(prog)' : 0 \notin LiveBefore(prog, t)'
  <2>1. Replayable => \A t \in Temporaries(prog) : 0 \notin LiveBefore(prog, t)
    BY DEF Replayable, EveryReadWritten
  <2> QED
    BY <1>1, <2>1, StaysReplayable
<1>3. Finished' /\ DOMAIN temps' = Names(source)' /\ DOMAIN regs' = Names(final)'
  BY <1>1 DEF Finished, Names
<1> QED
  BY <1>1, <1>2, <1>3 DEF RInv

(***************************************************************************)
(* A command that both machines run keeps the live temporaries alike: it   *)
(* writes the temporary and the register that it goes by, and no register  *)
(* of another temporary that is live behind it.                            *)
(***************************************************************************)
LEMMA KeptAlike ==
  ASSUME BInv, RInv, at \in DOMAIN prog, Replayable, NEW t \in Temporaries(prog),
         at \in LiveBehind(prog, t), NEW v
  PROVE  Put(temps, source, at, v)[W!Temp(t)] = Put(regs, final, at, v)[RegisterFor(t)]
<1> DEFINE c == at
           d == prog[c].args[1]
<1>1. /\ at # -1 /\ Finished /\ Handled /\ prog[c] \in Instructions
      /\ DOMAIN temps = Names(source) /\ DOMAIN regs = Names(final)
      /\ at \in LiveBefore(prog, t) => Alike(t)
  <2>1. at # -1 /\ prog[c] \in Instructions
    BY TablesOfProgram
  <2> QED
    BY <2>1 DEF RInv, Replayable
<1>2. t \notin Written(prog[c]) => Alike(t)
  <2>1. IsFiniteSet(DOMAIN prog)
    BY TablesOfProgram, FS_Interval
  <2> QED
    BY <1>1, <2>1, LiveBeforeClosed
<1>3. CASE ~Writes(c)
  <2>1. Written(prog[c]) = {}
    BY <1>3 DEF Writes, Written, NoTemp, IsTemp
  <2> QED
    BY <1>2, <1>3, <2>1 DEF Put, Alike
<1>4. CASE Writes(c)
  <2>1. 1 \in DOMAIN prog[c].args /\ Def(prog[c]) = d
    BY <1>1, <1>4, InstructionFacts DEF Writes
  <2>2. /\ source[c + 1][1] = Operand(d) /\ (~IsTemp(d) => final[c + 1][1] = W!Other)
        /\ c + 1 \in DOMAIN source /\ 1 \in DOMAIN source[c + 1]
        /\ c + 1 \in DOMAIN final /\ 1 \in DOMAIN final[c + 1]
    BY <1>1, <2>1, TextOfCommand
  <2> HIDE DEF d
  <2>3. CASE ~IsTemp(d)
    <3>1. Written(prog[c]) = {}
      BY <2>1, <2>3 DEF Written
    <3>2. source[c + 1][1] = W!Other /\ final[c + 1][1] = W!Other
      BY <2>2, <2>3, NamesApart
    <3> QED
      BY <1>2, <3>1, <3>2 DEF Put, Alike
  <2>4. CASE IsTemp(d)
    <3>1. Written(prog[c]) = {d}
      BY <2>1, <2>4 DEF Written
    <3>2. /\ source[c + 1][1] = W!Temp(d) /\ final[c + 1][1] = RegisterFor(d)
          /\ W!Temp(d) # W!Other /\ RegisterFor(d) # W!Other
      BY <1>1, <2>1, <2>2, <2>4, NamesApart, FinalOperand DEF d
    <3>3. W!Temp(d) \in DOMAIN temps /\ RegisterFor(d) \in DOMAIN regs
      <4> DEFINE l == c + 1
      <4>1. W!Temp(d) \in Names(source)
        <5>1. source[l][1] \in Names(source)
          <6>1. l \in DOMAIN source /\ 1 \in DOMAIN source[l] /\ source[l][1] # W!Other
            BY <2>2, <3>2
          <6> HIDE DEF l
          <6> QED
            BY <6>1, NamedInText
        <5> QED
          BY <3>2, <5>1
      <4>2. RegisterFor(d) \in Names(final)
        <5>1. final[l][1] \in Names(final)
          <6>1. l \in DOMAIN final /\ 1 \in DOMAIN final[l] /\ final[l][1] # W!Other
            BY <2>2, <3>2
          <6> HIDE DEF l
          <6> QED
            BY <6>1, NamedInText
        <5> QED
          BY <3>2, <5>1
      <4> QED
        BY <1>1, <4>1, <4>2
    <3>4. /\ Put(temps, source, c, v) = [temps EXCEPT ![W!Temp(d)] = v]
          /\ Put(regs, final, c, v) = [regs EXCEPT ![RegisterFor(d)] = v]
      BY <1>4, <3>2 DEF Put
    <3>5. CASE d = t
      BY <3>3, <3>4, <3>5
    <3>6. CASE d # t
      <4>1. Alike(t)
        BY <1>2, <3>1, <3>6
      <4>2. W!Temp(d) # W!Temp(t)
        BY <3>6, NamesApart
      <4>3. RegisterFor(d) # RegisterFor(t)
        BY <1>1, <3>1, <3>6, WrittenApart DEF d
      <4> QED
        BY <3>4, <4>1, <4>2, <4>3 DEF Alike
    <3> QED
      BY <3>5, <3>6
  <2> QED
    BY <2>3, <2>4
<1> QED
  BY <1>3, <1>4

LEMMA ExecuteStep ==
  ASSUME BInv, RInv, Execute
  PROVE  RInv'
<1>1. /\ at \in DOMAIN prog /\ at' \in RunsOnTo(prog, at)
      /\ UNCHANGED <<stage, rewrite, prog, flow, in, source, cells, final>>
  BY DEF Execute, vars, livenessVars, rewriteVars
<1>2. PICK v \in Value : temps' = Put(temps, source, at, v) /\ regs' = Put(regs, final, at, v)
  BY DEF Execute
<1>3. at # -1 /\ Finished /\ DOMAIN temps = Names(source) /\ DOMAIN regs = Names(final)
  <2>1. at # -1
    BY <1>1, TablesOfProgram
  <2> QED
    BY <2>1 DEF RInv
<1>4. Finished' /\ DOMAIN temps' = Names(source)' /\ DOMAIN regs' = Names(final)'
  BY <1>1, <1>2, <1>3 DEF Finished, Names, Put
<1>5. ASSUME Replayable', NEW t \in Temporaries(prog)', at' \in LiveBefore(prog, t)'
      PROVE  Alike(t)'
  <2>1. Replayable /\ t \in Temporaries(prog) /\ at' \in LiveBefore(prog, t)
    BY <1>1, <1>5, StaysReplayable
  <2>2. at \in LiveBehind(prog, t)
    BY <1>1, <2>1 DEF LiveBehind
  <2>3. Put(temps, source, at, v)[W!Temp(t)] = Put(regs, final, at, v)[RegisterFor(t)]
    BY <1>1, <2>1, <2>2, KeptAlike
  <2>4. W!Temp(t)' = W!Temp(t) /\ RegisterFor(t)' = RegisterFor(t)
    BY <1>1 DEF W!Temp, W!Reg, RegisterFor
  <2> QED
    BY <1>2, <2>3, <2>4 DEF Alike
<1> QED
  BY <1>4, <1>5 DEF RInv

\* No tool takes a step once the text is written.
LEMMA ToolsOver == Finished => ~Next
BY DEF Finished, Next, Liveness, StartInterference, Interference, StartAllocation, Allocation,
       StartRewriting, Rewriting, W!Next, W!WriteRegisters, W!Rewind, W!WriteLonely, W!Close

LEMMA RestStep ==
  ASSUME RInv, UNCHANGED <<vars, replayVars>>
  PROVE  RInv'
<1>1. UNCHANGED <<at, temps, regs, stage, rewrite, prog, flow, in, source, cells, final>>
  BY DEF vars, replayVars, livenessVars, rewriteVars
<1> QED
  BY <1>1, StaysReplayable DEF RInv, Finished, Names, Alike, RegisterFor

LEMMA ReplayStep == BInv /\ RInv /\ [ReplayNext]_<<vars, replayVars>> => RInv'
<1> SUFFICES ASSUME BInv, RInv, [ReplayNext]_<<vars, replayVars>>
             PROVE  RInv'
  OBVIOUS
<1>1. CASE Tools
  <2>1. at' = at /\ at = -1
    BY <1>1, ToolsOver DEF Tools, replayVars, RInv
  <2> QED
    BY <2>1 DEF RInv
<1> QED
  BY <1>1, StartStep, ExecuteStep, RestStep DEF ReplayNext

(***************************************************************************)
(* The text with registers does what the text with temporaries does, for   *)
(* every program whose flow graph has all its needs, every value in the    *)
(* registers and every road that a run takes, however long it is.          *)
(***************************************************************************)
THEOREM MeaningCorrect == ReplaySpec => []MeaningKept
<1>1. ReplaySpec => []BInv
  <2>1. BInv /\ [ReplayNext]_<<vars, replayVars>> => BInv'
    <3>1. [ReplayNext]_<<vars, replayVars>> => [Next]_vars
      BY DEF ReplayNext, Tools, Start, Execute
    <3>2. BInv /\ [Next]_vars => BInv'
      BY LivenessStep, StartInterferenceStep, InterferenceStep, StartAllocationStep, AllocationStep,
         StartRewritingStep, RewritingStep, StutteringStep DEF Next
    <3> QED
      BY <3>1, <3>2
  <2> QED
    BY <2>1, InitBInv, PTL DEF ReplaySpec, ReplayInit
<1>2. ReplayInit => RInv
  BY DEF ReplayInit, RInv
<1>3. BInv /\ RInv => MeaningKept
  BY SameOperandsFromRInv DEF MeaningKept
<1> QED
  BY <1>1, <1>2, <1>3, ReplayStep, PTL DEF ReplaySpec

=============================================================================
