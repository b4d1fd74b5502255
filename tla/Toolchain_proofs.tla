--------------------------- MODULE Toolchain_proofs ---------------------------
(***************************************************************************)
(* Proofs about Toolchain, for all sources: whatever the order in which    *)
(* the user edits, runs and breaks off, three silent runs in a row give    *)
(* the program of the source.                                              *)
(***************************************************************************)
EXTENDS Toolchain, TLAPS

(***************************************************************************)
(* The inductive invariant.  AtWork: a tool that runs makes its own step   *)
(* and the later ones worth nothing, and from the moment it opens its      *)
(* output until the run is over the file is empty and its own.             *)
(***************************************************************************)
AtWork ==
  /\ running # "nobody" => ran < Stage(running)
  /\ opened /\ running = "compiler" => prog = File("none", source) /\ source.compiles # "crash before"
  /\ opened /\ running = "liveness" => prog # Missing /\ graph = File("none", prog)
  /\ opened /\ running = "allocator" => final = File("none", Made)

TInv == TypeOK /\ OrderlyRunIsSound /\ AtWork

-----------------------------------------------------------------------------
\* What is written is a file of its kind.
LEMMA FileKinds ==
  /\ \A s \in Sources : All(s) \in Programs /\ CutOff(s) \subseteq Programs /\ File("none", s) \in Programs
  /\ \A s \in Sources : All(s) # Missing
  /\ \A x : /\ All(x).of = x /\ Strange(x).of = x /\ File("none", x).of = x /\ File("some", x).of = x
            /\ All(x) # Missing /\ Strange(x) # Missing /\ Missing \notin CutOff(x)
            /\ All(x).part = "all" /\ File("none", x).part = "none" /\ Strange(x).part = "strange"
            /\ \A f \in CutOff(x) : f.of = x
<1>1. \A x : /\ All(x).of = x /\ Strange(x).of = x /\ File("none", x).of = x /\ File("some", x).of = x
             /\ All(x).part = "all" /\ File("none", x).part = "none" /\ File("some", x).part = "some"
             /\ Strange(x).part = "strange"
  BY DEF All, Strange, File
<1>2. Missing.part = "missing"
  BY DEF Missing, File
<1>3. \A x : /\ All(x) # Missing /\ Strange(x) # Missing /\ Missing \notin CutOff(x)
             /\ \A f \in CutOff(x) : f.of = x
  BY <1>1, <1>2 DEF CutOff
<1>4. \A s \in Sources : All(s) \in Programs /\ CutOff(s) \subseteq Programs /\ File("none", s) \in Programs
  BY DEF Programs, CutOff
<1> QED
  BY <1>1, <1>3, <1>4

\* A program is not there, whole, or cut off, and the last two are made from a source.
LEMMA ProgramKinds ==
  ASSUME prog \in Programs
  PROVE  \/ prog = Missing
         \/ prog.of \in Sources /\ (prog = All(prog.of) \/ prog \in CutOff(prog.of))
<1>1. CASE prog \in {All(s) : s \in Sources}
  BY <1>1, FileKinds
<1>2. CASE prog \in UNION {CutOff(s) : s \in Sources}
  BY <1>2, FileKinds
<1> QED
  BY <1>1, <1>2 DEF Programs

LEMMA MadeType == TypeOK => Made \in Sources \cup {Mixture}
<1> SUFFICES ASSUME TypeOK, graph = All(prog), prog.part = "all"
             PROVE  prog.of \in Sources
  BY DEF Made
<1>1. prog # Missing
  BY DEF Missing, File
<1> QED
  BY <1>1, ProgramKinds DEF TypeOK

LEMMA InitTInv == Init => TInv
<1> SUFFICES ASSUME Init
             PROVE  TInv
  OBVIOUS
<1>1. Missing \in Programs
  BY DEF Programs
<1> QED
  BY <1>1 DEF Init, TInv, TypeOK, OrderlyRunIsSound, AtWork

\* A run that is over leaves its files; one that ends without a word was the next in the order.
LEMMA StageValues ==
  /\ Stage("compiler") = 1 /\ Stage("liveness") = 2 /\ Stage("allocator") = 3
BY DEF Stage

-----------------------------------------------------------------------------
LEMMA UserStep == TInv /\ User => TInv'
<1> SUFFICES ASSUME TInv, User
             PROVE  TInv'
  OBVIOUS
<1>1. CASE Edit
  <2>1. /\ running = "nobody" /\ running' = "nobody" /\ ~opened /\ ~opened' /\ ran' = 0
        /\ source' \in Sources /\ UNCHANGED <<prog, graph, final>>
    BY <1>1 DEF Edit, TInv, TypeOK
  <2> QED
    BY <2>1 DEF TInv, TypeOK, OrderlyRunIsSound, AtWork
<1>2. ASSUME NEW tool \in Tools, Run(tool)
      PROVE  TInv'
  <2>1. /\ running = "nobody" /\ running' = tool /\ ~opened /\ ~opened'
        /\ UNCHANGED <<source, prog, graph, final>>
    BY <1>2 DEF Run, TInv, TypeOK
  <2>2. ran' \in 0 .. 3 /\ ran' <= ran /\ ran' < Stage(tool)
    BY <1>2, StageValues DEF Run, TInv, TypeOK, Tools
  <2>3. TypeOK'
    BY <2>1, <2>2 DEF TInv, TypeOK
  <2>4. OrderlyRunIsSound'
    BY <2>1, <2>2 DEF TInv, TypeOK, OrderlyRunIsSound
  <2>5. AtWork'
    BY <2>1, <2>2 DEF AtWork
  <2> QED
    BY <2>3, <2>4, <2>5 DEF TInv
<1>3. CASE BreakOff
  <2>1. /\ running \in Tools /\ running' = "nobody" /\ ~opened' /\ UNCHANGED <<ran, source>>
        /\ ran \in 0 .. 3 /\ ran < Stage(running) /\ source \in Sources
    BY <1>3 DEF BreakOff, Loudly, TInv, TypeOK, AtWork
  <2>2. CASE ~opened
    <3>1. UNCHANGED <<prog, graph, final>>
      BY <1>3, <2>2 DEF BreakOff
    <3> QED
      BY <2>1, <3>1 DEF TInv, TypeOK, OrderlyRunIsSound, AtWork
  <2>3. CASE opened /\ running = "compiler"
    <3>1. prog = File("none", source) /\ prog.of = source /\ ran < 1
      BY <2>1, <2>3, StageValues, FileKinds DEF TInv, AtWork
    <3>2. prog' \in CutOff(source) /\ UNCHANGED <<graph, final>> /\ ran = 0
      BY <1>3, <2>1, <2>3, <3>1 DEF BreakOff, Cut
    <3>3. prog' \in Programs
      BY <2>1, <3>2, FileKinds
    <3>4. TypeOK'
      BY <2>1, <3>2, <3>3 DEF TInv, TypeOK
    <3>5. OrderlyRunIsSound'
      BY <2>1, <3>2, <3>3 DEF TInv, OrderlyRunIsSound
    <3>6. AtWork'
      BY <2>1 DEF AtWork
    <3> QED
      BY <3>4, <3>5, <3>6 DEF TInv
  <2>4. CASE opened /\ running = "liveness"
    <3>1. /\ graph' \in CutOff(prog) /\ UNCHANGED <<prog, final>> /\ ran <= 1
          /\ prog \in Programs \ {Missing}
      BY <1>3, <2>1, <2>4, StageValues, FileKinds DEF BreakOff, Cut, TInv, AtWork, TypeOK
    <3>2. graph'.of = prog /\ graph' \in Graph(prog)
      BY <3>1, FileKinds DEF Graph
    <3>3. TypeOK'
      BY <2>1, <3>1, <3>2 DEF TInv, TypeOK
    <3>4. OrderlyRunIsSound'
      BY <2>1, <3>1, <3>2 DEF TInv, OrderlyRunIsSound
    <3>5. AtWork'
      BY <2>1 DEF AtWork
    <3> QED
      BY <3>3, <3>4, <3>5 DEF TInv
  <2>5. CASE opened /\ running = "allocator"
    <3>1. final' \in CutOff(Made) /\ UNCHANGED <<prog, graph>> /\ ran <= 2
      BY <1>3, <2>1, <2>5, StageValues, FileKinds DEF BreakOff, Cut, TInv, AtWork
    <3>2. final'.of = Made /\ Made \in Sources \cup {Mixture}
      BY <3>1, FileKinds, MadeType DEF TInv
    <3>3. TypeOK'
      BY <2>1, <3>1, <3>2 DEF TInv, TypeOK
    <3>4. OrderlyRunIsSound'
      BY <2>1, <3>1, <3>2 DEF TInv, OrderlyRunIsSound
    <3>5. AtWork'
      BY <2>1 DEF AtWork
    <3> QED
      BY <3>3, <3>4, <3>5 DEF TInv
  <2> QED
    BY <2>1, <2>2, <2>3, <2>4, <2>5 DEF Tools
<1> QED
  BY <1>1, <1>2, <1>3 DEF User

LEMMA CompilerStep == TInv /\ Compiler => TInv'
<1> SUFFICES ASSUME TInv, Compiler
             PROVE  TInv'
  OBVIOUS
<1>1. /\ running = "compiler" /\ ran = 0 /\ source \in Sources /\ UNCHANGED <<source, graph, final>>
  <2>1. running = "compiler" /\ UNCHANGED <<source, graph, final>>
    BY DEF Compiler, CompilerRefuses, CompilerCrashes, CompilerOpens, CompilerWrites, Working
  <2>2. ran < 1 /\ ran \in 0 .. 3 /\ source \in Sources
    BY <2>1, StageValues DEF TInv, TypeOK, AtWork
  <2> QED
    BY <2>1, <2>2
<1>2. CASE CompilerRefuses \/ CompilerCrashes
  <2>1. running' = "nobody" /\ ~opened' /\ ran' = ran /\ UNCHANGED <<prog>>
    BY <1>2 DEF CompilerRefuses, CompilerCrashes, Loudly
  <2> QED
    BY <1>1, <2>1 DEF TInv, TypeOK, OrderlyRunIsSound, AtWork
<1>3. CASE CompilerOpens
  <2>1. running' = "compiler" /\ ran' = 0
    BY <1>1, <1>3 DEF CompilerOpens, OpensFile
  <2>2. prog' = File("none", source) /\ prog' \in Programs
    BY <1>1, <1>3, FileKinds DEF CompilerOpens
  <2>3. source' = source /\ source.compiles # "crash before" /\ UNCHANGED <<graph, final>>
    BY <1>3 DEF CompilerOpens
  <2>4. TypeOK'
    BY <1>1, <2>1, <2>2, <2>3 DEF TInv, TypeOK, Tools
  <2>5. OrderlyRunIsSound'
    BY <2>1 DEF OrderlyRunIsSound
  <2>6. AtWork'
    <3>1. ran' < Stage(running')
      BY <2>1, StageValues
    <3> QED
      BY <2>1, <2>2, <2>3, <3>1 DEF AtWork
  <2> QED
    BY <2>4, <2>5, <2>6 DEF TInv
<1>4. CASE CompilerWrites
  <2>1. opened /\ prog = File("none", source) /\ source.compiles # "crash before"
    BY <1>1, <1>4 DEF CompilerWrites, Working, TInv, AtWork
  <2>2. source.compiles \in {"silently", "with messages", "crash after"}
    BY <1>1, <2>1, ToolchainAssumption
  <2>3. /\ running' = "nobody" /\ ~opened'
        /\ \/ prog' = All(source) /\ ran' \in {0, 1}
           \/ prog' \in CutOff(source) /\ ran' = 0
    BY <1>1, <1>4, <2>1, <2>2, StageValues, FileKinds DEF CompilerWrites, Silently, Loudly, Cut
  <2>4. prog' \in Programs
    BY <1>1, <2>3, FileKinds
  <2>5. TypeOK'
    BY <1>1, <2>3, <2>4 DEF TInv, TypeOK
  <2>6. OrderlyRunIsSound'
    BY <1>1, <2>3, <2>4 DEF TInv, OrderlyRunIsSound
  <2>7. AtWork'
    BY <2>3 DEF AtWork
  <2> QED
    BY <2>5, <2>6, <2>7 DEF TInv
<1> QED
  BY <1>2, <1>3, <1>4 DEF Compiler

LEMMA LivenessStep == TInv /\ Liveness => TInv'
<1> SUFFICES ASSUME TInv, Liveness
             PROVE  TInv'
  OBVIOUS
<1>1. /\ running = "liveness" /\ ran \in {0, 1} /\ source \in Sources /\ prog \in Programs
      /\ UNCHANGED <<source, prog, final>>
  <2>1. running = "liveness" /\ UNCHANGED <<source, prog, final>>
    BY DEF Liveness, LivenessRefuses, LivenessCrashes, LivenessOpens, LivenessWrites, Working
  <2>2. ran < 2 /\ ran \in 0 .. 3 /\ source \in Sources /\ prog \in Programs
    BY <2>1, StageValues DEF TInv, TypeOK, AtWork
  <2> QED
    BY <2>1, <2>2
<1>2. CASE LivenessRefuses \/ LivenessCrashes
  <2>1. running' = "nobody" /\ ~opened' /\ ran' = ran /\ graph' = graph
    BY <1>2 DEF LivenessRefuses, LivenessCrashes, Loudly
  <2> QED
    BY <1>1, <2>1 DEF TInv, TypeOK, OrderlyRunIsSound, AtWork
<1>3. CASE LivenessOpens
  <2>1. running' = running /\ ran' = ran /\ opened' /\ graph' = File("none", prog) /\ MayParse(prog)
    BY <1>3 DEF LivenessOpens, OpensFile
  <2>2. prog # Missing
    BY <2>1 DEF MayParse, Missing, File
  <2>3. graph'.of = prog /\ graph' \in Graph(prog)
    BY <2>1, FileKinds DEF Graph, CutOff
  <2> QED
    BY <1>1, <2>1, <2>2, <2>3, StageValues DEF TInv, TypeOK, OrderlyRunIsSound, AtWork
<1>4. CASE LivenessWrites
  <2>1. opened /\ prog # Missing
    BY <1>1, <1>4 DEF LivenessWrites, Working, TInv, AtWork
  <2>2. /\ running' = "nobody" /\ ~opened' /\ ran' = (IF ran = 1 THEN 2 ELSE ran)
        /\ graph' = All(prog) \/ (graph' = Strange(prog) /\ ~prog.of.fits)
    BY <1>1, <1>4, StageValues DEF LivenessWrites, Silently
  <2>3. graph'.of = prog /\ graph' \in Graph(prog)
    BY <2>2, FileKinds DEF Graph
  <2>4. ran' = 2 /\ source.fits => graph' = All(prog)
    <3>1. ran' = 2 => prog = All(source)
      BY <1>1, <2>2 DEF TInv, OrderlyRunIsSound
    <3> QED
      BY <2>2, <3>1, FileKinds
  <2> QED
    BY <1>1, <2>1, <2>2, <2>3, <2>4 DEF TInv, TypeOK, OrderlyRunIsSound, AtWork
<1> QED
  BY <1>2, <1>3, <1>4 DEF Liveness

LEMMA AllocatorStep == TInv /\ Allocator => TInv'
<1> SUFFICES ASSUME TInv, Allocator
             PROVE  TInv'
  OBVIOUS
<1>1. /\ running = "allocator" /\ ran \in {0, 1, 2} /\ source \in Sources
      /\ UNCHANGED <<source, prog, graph>> /\ Made' = Made /\ Made \in Sources \cup {Mixture}
  <2>1. running = "allocator" /\ UNCHANGED <<source, prog, graph>>
    BY DEF Allocator, AllocatorFindsNoGraph, AllocatorGivesUp, AllocatorOpens, AllocatorWrites, Working
  <2>2. ran < 3 /\ ran \in 0 .. 3 /\ source \in Sources
    BY <2>1, StageValues DEF TInv, TypeOK, AtWork
  <2> QED
    BY <2>1, <2>2, MadeType DEF Made, TInv
<1>2. CASE AllocatorFindsNoGraph \/ AllocatorGivesUp
  <2>1. running' = "nobody" /\ ~opened' /\ ran' = ran /\ final' = final
    BY <1>2 DEF AllocatorFindsNoGraph, AllocatorGivesUp, Loudly
  <2> QED
    BY <1>1, <2>1 DEF TInv, TypeOK, OrderlyRunIsSound, AtWork
<1>3. CASE AllocatorOpens
  <2>1. running' = running /\ ran' = ran /\ opened' /\ final' = File("none", Made)
    BY <1>3 DEF AllocatorOpens, OpensFile
  <2>2. final'.of = Made /\ final' \in CutOff(Made)
    BY <2>1, FileKinds DEF CutOff
  <2> QED
    BY <1>1, <2>1, <2>2, StageValues DEF TInv, TypeOK, OrderlyRunIsSound, AtWork
<1>4. CASE AllocatorWrites
  <2>1. opened
    BY <1>4 DEF AllocatorWrites, Working
  <2>2. running' = "nobody" /\ ~opened' /\ ran' = (IF ran = 2 THEN 3 ELSE ran) /\ final' = All(Made)
    BY <1>1, <1>4, StageValues DEF AllocatorWrites, Silently
  <2>3. final'.of = Made
    BY <2>2, FileKinds
  <2>4. ran' = 3 /\ source.fits => final' = All(source)
    <3> SUFFICES ASSUME ran' = 3, source.fits
                 PROVE  Made = source
      BY <2>2
    <3>1. prog = All(source) /\ graph = All(prog)
      BY <1>1, <2>2 DEF TInv, OrderlyRunIsSound
    <3> QED
      BY <3>1, FileKinds DEF Made
  <2> QED
    BY <1>1, <2>2, <2>3, <2>4 DEF TInv, TypeOK, OrderlyRunIsSound, AtWork
<1> QED
  BY <1>2, <1>3, <1>4 DEF Allocator

-----------------------------------------------------------------------------
LEMMA StutterStep == TInv /\ UNCHANGED vars => TInv'
<1> SUFFICES ASSUME TInv, UNCHANGED vars
             PROVE  TInv'
  OBVIOUS
<1>1. UNCHANGED <<source, running, opened, prog, graph, final, ran>>
  BY DEF vars
<1>2. TypeOK'
  BY <1>1 DEF TInv, TypeOK
<1>3. OrderlyRunIsSound'
  BY <1>1 DEF TInv, OrderlyRunIsSound
<1>4. AtWork'
  BY <1>1 DEF TInv, AtWork, Made
<1> QED
  BY <1>2, <1>3, <1>4 DEF TInv

(***************************************************************************)
(* Whatever the user edits, runs and breaks off, the invariant holds.      *)
(***************************************************************************)
THEOREM ToolchainInvariance == Spec => []TInv
<1>1. TInv /\ [Next]_vars => TInv'
  BY UserStep, CompilerStep, LivenessStep, AllocatorStep, StutterStep DEF Next
<1> QED
  BY <1>1, InitTInv, PTL DEF Spec

\* Whatever is edited, run and broken off, a file on the disk is one of those that the tools make.
THEOREM ToolchainTypeCorrect == Spec => []TypeOK
BY ToolchainInvariance, PTL DEF TInv

(***************************************************************************)
(* When the three tools have been run in their order since the last edit   *)
(* and none of them has had anything to say, the result is the program of  *)
(* the source, whatever was on the disk before.                            *)
(***************************************************************************)
THEOREM OrderlyRunCorrect == Spec => []OrderlyRunIsSound
BY ToolchainInvariance, PTL DEF TInv
=============================================================================
