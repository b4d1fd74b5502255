# A verification project for the Tiger compiler

The repository holds a compiler from a Tiger-like language to MIPS assembler, written in C as
three programs that run one after the other and talk to each other through text files:

    program.tig --> [compiler front end] --> tiger_prog.s
    tiger_prog.s --> [liveness tool] --> LivenessAnalysis.txt, InterferenceGraph.txt
    tiger_prog.s, InterferenceGraph.txt --> [register allocator] --> temp.txt, MIPS_ASM_Prog.s

Each program is sequential and single-threaded. What makes them hard is not concurrency but long
chains of steps in place: fixed-point passes that update the arrays they read, a hash table that is
changed and undone, lists that are filled in one order and read in another, and contracts between
programs (the order of lines in a file, the layout of a union, who saves which register) that are
written down nowhere.

Paths are abbreviated: *front end* is `src/IR_&_MIPS_Gen/CodeGen/CodeGeneration/` (with
`src/IR_&_MIPS_Gen/COMMON_C_FILES/`), *liveness tool* is
`src/Register_Allocation/Liveness_Analysis/VerifyCodeGen/` (with the grammar in `../Bison/tiger.y`
and the scanner in `../Flex/Input.lex`), *allocator* is
`src/Register_Allocation/Allocate_Registers/Allocate_Registers/main.c`.

## 1. Inventory

| component | state | operations | interacts with | hard | correct when |
|---|---|---|---|---|---|
| Lexer, parser of Tiger (`tiger.y`, `Input.lex`, `parse.c`, `absyn.c`) | the tree | one node per production | driver | - | tree is the program |
| Symbol tables (`symbol.c`, `table.c`) | buckets of binders, `top` | enter, look, begin/end scope, dump | semantic analysis, translation | undo through shared buckets | a stack of scopes |
| Semantic analysis (`semant.c`, `env.c`, `types.c`) | `venv`, `tenv` | one function per kind of node | symbol tables; called again by the translation; its verdict is read by nobody | early returns with an open scope; order of entering; functions that end without a return | scopes balanced, names mean what they mean to the translation, what it accepts can be translated |
| Translation to IR (`IR.c`, `tree.c`) | environment, frame under construction | one function per kind of node | symbol tables, frames, temporaries | evaluation order, double evaluation | the tree computes what the program means |
| Frames (`MIPS_frame.c`) | formals, count of locals | newFrame, allocLocal, F_Exp | translation, code generation | offsets counted from both ends of lists | caller and callee agree on every cell |
| Temporaries, labels (`temp.c`) | two counters | newtemp, newlabel | translation, code generation | counters meet fixed numbers elsewhere | names are fresh |
| Code generation (`MIPS_asm.c`) | output file | one function per kind of tree node | temporaries | what a call saves, where results live | the commands compute what the tree means |
| Driver (`main.c`) | files | four phases in a row | all of the above | errors do not stop it; files of earlier runs | what a silent run leaves is made from this source |
| Liveness tool: parser (`tiger.y`, `Input.lex`, `parse.c`, `absyn.c`) | list of commands | one node per command | flow graph | union members read under another name | commands are the text |
| Liveness tool: flow graph (`main.c`, steps 2-4) | `use`, `def`, `out_edges` | one pass | dataflow | missing successors | every road of a run is an edge |
| Liveness tool: dataflow (`main.c`, step 5) | `in`, `out`, `low`, `high` | passes per temporary | interference | in-place update, end of the loop | least solution; ranges span it |
| Liveness tool: interference (`main.c`, step 6) | the file of edges | double loop | allocator, by file | order of the lines | complete, ordered, no doubles |
| Allocator: colouring (`main.c`) | `graph[]` with lists and registers | two readings, assignment | rewriting | running maximum, search two edges wide | proper colouring, or a reason to quit |
| Allocator: rewriting (`main.c`) | `temp.txt`, `MIPS_ASM_Prog.s` | two textual passes | - | one substitution after the other | a simultaneous substitution |

Error messages, printing of trees, `util.c`, the output of Flex and Bison, the vendored sources of
both generators and `simulation.c` (a compiled program that was turned into C by hand) carry no
logic that another part depends on and are left out (see section 7).

## 2. Modules

Proof modules aside, each module translates the C code that its header names. State that a C
program keeps in locals, globals and files becomes `VARIABLES`; a turn of a loop becomes an action
where other steps or the caller can tell, and a function that only computes becomes an operator.
Names are those of the source wherever TLA+ allows it.

| module | models | state | actions or operators |
|---|---|---|---|
| `SymbolTable` | `table.c`, `symbol.c` | `table` (buckets of binders), `top`, the recursion of a dump (`calls`, `showing`), the loop of `S_endScope` (`closing`), and `saved`, a history of what could be looked up | `S_enter`, `S_beginScope`, `S_endScope`, `TAB_pop` (one turn), `TAB_dump`, `DumpRest`, `NothingLeft`, `PutBack` |
| `ScopedMap` | the promise of an environment | `scopes` | `Enter`, `BeginScope`, `EndScope` |
| `Tiger` | the nodes of `absyn.c`; the meaning of a program, as an evaluator | - | constructors, `Eval`, `Meaning` |
| `Env` | an environment as the passes use it | - (a stack of scopes in the states of `Semant` and `IR`) | `S_enter`, `S_look`, `S_beginScope`, `S_endScope` |
| `Semant` | `semant.c`, `types.c` | - (`s`: environments, messages, crash, values never returned; histories of names looked up and of scopes left open) | one operator per `SEM_trans...` function, `TypeCheck` |
| `Frame` | `MIPS_frame.c`, the counters of `temp.c` | - (a frame is part of the record `s` of `IR`) | `F_newFrame`, `F_allocLocal`, `newtemp`, `newlabel`, `Using` |
| `IR` | `IR.c`, `tree.c` | - (`s`: that of `Semant`, with counters and frame) | one operator per `IR_trans...` function |
| `FrontEnd` | `main.c` of the front end, up to the intermediate representation | `program`, `pc`, `sem`, `ir` (the state each pass ends in) | `Analyse`, `Translate` |
| `MIPSAsm` | `MIPS_asm.c` | - (the counters) | one operator per `MIPS_ASM_CodeGeneration_...` function |
| `Registers` | what the liveness tool and the allocator come to, as functions from a program to its registers; the grammar of the liveness tool | - | `Parses`, `Parsed`, `Ranges`, `InterferenceGraph`, `Assigned`, `Rewritten`, `MIPS_ASM_Prog` |
| `Execution` | the compiled program on its machine, with the run-time routines that `MIPS_asm.c` writes, before and after the registers are given out | `code`, `assembled`, `pc`, `reg`, `mem`, `saved`, `heap`, `out`, `status`, and a history of open calls | one action per class of command, `CallPrintInt`, `CallAllocateRecord`, `CallAllocateArray` |
| `Threaded` | - | - | a fold that hands a state on, each state computed once |
| `FlowGraph` | liveness tool, steps 2 to 4, with the grammar's nodes | - | `Use`, `Def`, `OutEdges`, `FlowGraphOf` |
| `Liveness` | liveness tool, step 5 | `flow`, `temp`, `n`, `in`, `out`, their `_tag` copies, `low`, `high`, `pc` | `StartTemp`, `ScanCommand`, `EndPass`, `Compare`, `Report`, `Finish` |
| `Interference` | liveness tool, step 6 | `range`, `i`, `j`, `graph` (the file), `closed` | `ComparePair`, `NextRow`, `CloseFile` |
| `RegAlloc` | allocator, up to the registers | `file`, `line`, `max_alloc_num`, `vertex_handled`, `adj`, `reg_assigned`, `i`, `pc` | `MeasureLine`, `AllocateGraph`, `AddLine`, `ClearRegisters`, `findFreeReg`, `Quit`, `PlaceLonely` |
| `Colouring` | the promise of an allocator | `edges`, `colour`, `outcome` | `Assign`, `Succeed`, `GiveUp` |
| `Rewrite` | allocator, `allocate_reg_to_temp` | `source`, `graph`, `cell0`, `temp_txt`, `final`, `pc` | `WriteRegisters`, `Rewind`, `WriteLonely`, `Close` |
| `Machine` | what a program of `tiger_prog.s` does when it runs | - | `RunsOnTo`, `LiveBefore`, `LiveBehind` |
| `Backend` | `FlowGraph`, `Liveness`, `Interference`, `RegAlloc` and `Rewrite` in a row | all of theirs, and `stage` | the actions of each, and the hand-overs |
| `Replay` | the two programs, with temporaries and with registers, side by side on machines that run the same commands | `at`, `temps`, `regs` beside all of `Backend` | `Start`, `Execute`, and the steps of `Backend` |
| `Toolchain` | the three programs over the files between them | `source`, `running`, `opened`, `prog`, `graph`, `final`, and `ran`, a history of the tools that had nothing to say | what each tool may do (`CompilerRefuses`, `LivenessOpens`, `AllocatorGivesUp`, ...), `Edit`, `Run`, `BreakOff` |
| `Liveness_proofs`, `Interference_proofs`, `RegAlloc_proofs`, `Rewrite_proofs`, `Backend_proofs`, `SymbolTable_proofs`, `Toolchain_proofs` | proofs about the module each is named after, see 5 | | |
| `Extrema` | facts about numbers that several proofs use | | |
| `MC...` | constants for the runs | | |

How the modules hang together:

    Env, Threaded <- Semant <- IR <- FrontEnd                         (two passes over a tree)
    Frame <- IR <- MIPSAsm <- Registers <- Execution -> Tiger         (from the tree to the run)
    FlowGraph <- Registers
    ScopedMap <- SymbolTable, ScopedMap <- Env (both by theorem)      (environments)
    FlowGraph <- Machine <- Backend -> Liveness, Interference, RegAlloc, Rewrite
    Backend <- Replay <- Backend_proofs                               (and what their result does)
    Toolchain                                                         (files)
    Colouring <- RegAlloc
    M_proofs -> M, Extrema, and Backend_proofs -> the proofs about the tools in it

A definition whose comment begins with "Mutant" is a version of the one below it with a plausible
mistake. No specification uses it; it is there to show which property notices the mistake.

### Points where the models follow the code closely

* **The word in front of `in`** (`Liveness`). A command without a second successor has
  `out_edges` -1, and the scan reads `in[-1]`. Nothing says what is there, so `Start` leaves it
  open and the analysis never writes it. The properties hold for either value: if the word is a 1,
  every temporary is live where such a command can be reached without a definition.
* **The union of commands** (`FlowGraph`). The target of a branch is looked up under the bytes of a
  pointer, which gives no label or, when the lowest byte is zero, the empty text: `BranchOverlay`.
  A branch whose first operand is a register keeps the zeros of a `memset` as its uses. The
  repository's own `LivenessAnalysis.txt` shows both: `Temp_100` is live in commands where it
  does not occur, because the routines in front of `main` branch on `$a0`.
* **Registers in the flow graph**: the code reads a number from the sixth byte of a name like
  `$fp`. `Register` is any number below the range of temporaries.
* **Every list has its direction.** Formals, arguments, fields and initialisers are kept in lists that
  are built backwards, and `IR` builds each in the direction the code does; only running the
  result shows that the directions fit.
* **Functions that end without a return** (`Semant`). `SEM_transVarExp` has no case for fields and
  subscripts, `SEM_transExp` none for strings, and comparisons that fit no case fall off the end of
  `TypeCheck`. What the caller finds is left open: the state has `undetermined`, and a program in which
  it becomes true is analysed with each of several values of `junk`.
* **Types and entries share an environment.** `SEM_transCallExp` looks at the `kind` of whatever
  `venv` holds for the name, which may be a type; `Ty_nil` and `E_funEntry` are the same number, so
  that a variable that holds the result of `PrintInt` passes for a function.
* **The analysis is run twice.** `IR_transVarDecInit` calls `SEM_transExp` with the environments of the
  translation, where variables are entries and functions have no formals.
* **Order of counters.** Labels and temporaries are taken at the point where the code takes them.
  As a check of `IR` and `MIPSAsm` against the source, the program in the repository's front end
  input (primes by trial division, with a nested loop and a function) was compiled with them: the
  result has the 254 commands of the shipped `tiger_prog.s` in the same order, with the same labels
  and the same operands. `$fp`, `$sp`, `$v0` and `$ra` take the number of a temporary when they are first
  asked for (`Using`). Where the arguments of one C call take numbers from the same counter, the last
  argument is taken to be evaluated first, as the compilers for this machine do; that decides
  numbers of temporaries and nothing else.
* **Saving of registers.** Programs that run with temporaries (`assembled` is false) have all of them
  saved and restored by the eight `sw` and eight `lw` around a call: this is what the commands do once
  the allocator has given each temporary one of `$t0` to `$t7`. Programs that run with registers have
  exactly these eight saved, and not `$t9` (`Kept`). The eight words on the stack are kept apart from
  other words, so that a store into one of them is noticed.
* **A comparison of pointers.** `MIPS_asm.c:283` leaves a store out when the name of its register
  `== "$v0"`. Names are copied into allocated memory, so that the pointers always differ and the store is
  always written; so it is in `MIPSAsm`.
* **A word that nobody wrote** (`Rewrite`, `Execution`). The register of `Temp_100` is read from
  `graph[0]`, which nothing writes. `Rewrite` has any value there, and no property speaks of
  this temporary; `Execution` leaves programs with `Temp_100` in their text out.
* **Files** (`Toolchain`). A file holds none, some or all of what is made from something. What matters of
  a source is which of the things it may cause it does cause: that it does not parse, is wrong,
  crashes the compiler, cannot be read by the liveness tool, is too long for its arrays, or cannot be
  coloured.
* **Integers** are unbounded. The runs stay far below 2^31, and no property is about overflow;
  `div` is applied to positive operands, where rounding down and towards zero agree.

## 3. Runs

| run | question | instance | result |
|---|---|---|---|
| `liveness` | Do the passes end, and with the least solution? | 3 commands, 2 temporaries, one after the other; flow graphs with fall-through, branches to everywhere, jumps back, ends | holds, 1.2 million states |
| `regalloc_all` | Is the graph read as it is and properly coloured, and does a failure have a reason? | all 1024 graphs of 5 vertices, 3 registers | holds |
| `regalloc_star` | Does a failure mean that the neighbours occupy all registers? | a star of up to 10 vertices, 8 registers | violated, see 6 |
| `backend_all` | Is the file what the allocator needs, is the text a simultaneous substitution (with one exception, stated in `SingleLonelyReplaced`), and do the tools together keep the meaning of a program, when both texts are run side by side? | all programs of 5 commands over an alphabet with branches, jumps and a label, 3 temporaries, 8 registers; two values, any in each register at the start | holds, 1.46 million states |
| `backend_calls` | Also when there are calls? | the same with `jal`, 2 temporaries | violated, see 6 |
| `symbol_table` | Is the table a stack of scopes? | 2 symbols and the mark, in 2 buckets each in any, up to 5 binders, values that may be NULL | holds |
| `front_end` | Do both passes keep their scopes, mean the same declarations, and survive what they accept? | all programs of two declarations and an expression over a set of right and wrong ones | holds, with exceptions that the properties name, 677 thousand states |
| `execution_handled` | Does a compiled program do what its source says, before and after the registers are given out? | 301 programs with temporaries, 172 with registers | holds, 61 thousand states |
| `execution_two_calls` | Also an operation on two calls? | one program | violated, see 6 |
| `execution_nested` | Also a nested function that uses variables around it? | one program | violated, see 6 |
| `execution_discarding` | Also an assignment whose source computes something in vain? | one program | violated, see 6 |
| `toolchain` | Is the result that of the source, whatever files lie about? | 9 sources, every order of edits, runs and interruptions | holds, 461 thousand states |

Why these bounds are enough to be of interest:

* `liveness`: a pass goes forward, so that every edge back costs a further pass; three commands have
  two nested loops, and a loop whose entry is in its middle. Temporary 0 is taken with all exits of
  every command; both temporaries together with exits of the last command only, which is enough to
  see what the first one leaves behind for the second. `WayLive` looks at ways of up to two steps; that
  no longer one is missed is part of the proof, which there is for all sizes.
* `regalloc_all`: five vertices are enough for neighbours of neighbours that are no neighbours, and
  three registers for both success and failure. For all sizes there is a proof.
* `backend_all`: five commands have a loop with a branch out of it and temporaries that live across
  it, and all pairs of temporaries that do or do not meet: ranges that are apart, touch at one command,
  overlap, or contain one another, in the two rows that the double loop has for temporaries 1 to 3.
  Lines have up to three operands, with temporaries that come twice, have a cell, or are lonely. Branches
  compare temporaries, or a register with one on either side. Two
  values are enough to tell the value of one temporary from that of another, and what a command computes
  is any value, the same on both sides. For all sizes there is a proof.
* `front_end`: 97 first declarations and 25 second ones of variables, functions and types, among them
  ones that are refused, that hide each other, that refer to one another or to themselves, with an inner
  scope in the initialiser; each pair with every use of the names behind it. Two declarations are what
  it takes for one to be seen, or wrongly seen, by another; the inner scope is what a scope left open
  shows itself in.
* `symbol_table`: two buckets for three keys make every way of sharing buckets; five binders have two
  open scopes with shadowing in both. For all sizes there is a proof, and one that a symbol entered is
  found (`EnteredIsFound`), which no run repeats.
* `execution_handled`: an expression is a constant, a variable, a call of one function and of another
  one with a loop and locals in it, or an operation on two of these. Two operations stand in
  six places each (printed, assigned, tested, passed as an argument in front of another one, assigned
  to a field, given to a new record), and all twelve are printed. Other programs index arrays, take
  computed bounds of loops, nest loops, recur and call from nested functions. The small programs go
  through the liveness tool and the allocator: with the search two edges wide, eight registers last for
  a few operations only. They also throw values away, in front of a value that is printed, assigned, tested
  or an operand (`InVain`), and in the body of a loop. One of them has more temporaries than the 122 that are analysed. `StackTop`,
  `StackLimit`, `HeapBase` and `MaxOutput` are bounds that no run comes to, as `Terminates` shows.
* `toolchain`: one source for each thing that may go wrong and two good ones, so that files of two good
  sources can be mixed. Files have no sizes, and the user's acts no bound. For all sources there is a
  proof.

`CHECK_DEADLOCK FALSE` is said where the program that is modelled comes to its end; that it ends
where it should is said by a liveness property instead. In `symbol_table` it is the bound on binders
that may leave a table without a next call.

## 4. Fairness

Each of the three programs and the compiled program is one sequential process (the user of `Toolchain`, who
may stop at any point, is not, and no liveness is claimed there). It is always the turn of
its next step, and nothing in its environment can hold it back. So `FairSpec` of `Liveness` and
`RegAlloc` and `Spec` of `Execution` have weak fairness of the whole next-state relation, and of no
action alone. Termination then is a statement about the loops themselves: passes of `Liveness` only
end because marks are never taken back; the search of `RegAlloc` ends because a vertex that is not
coloured ends the program; loops and calls of a compiled program end when those of its source do. That
the loops of the liveness tool and the allocator end, once their steps are taken, is proved (see 5); fairness
only says that the steps are taken.

## 5. Proofs

Every invariant and action property that a run checks of the symbol tables, the liveness tool, the
allocator, their composition and the files between the programs is a theorem, for every value of the
constants. The assumptions are named:

* `SymbolTableAssumption`: at least one bucket; `marksym` is no symbol of a program and NULL is no key.
  How `hash` spreads keys over buckets is open.
* `LivenessAssumption`: at least one command and one temporary, and flow graphs whose edges lead to
  commands, to the cell behind the last one, or to -1.
* `InterferenceAssumption` (of the theorem only): no range ends before it begins.
* `RegAllocAssumption`: at least one register, and files that are ordered as `Interference!FileOrdered`
  says. This is the contract between two programs that is written down nowhere.
* `RewriteAssumption` (of the theorems only): operands of the grammar, and cells with one of the eight
  registers.
* `BackendAssumption`: sizes that are not zero, one to eight registers, commands of the grammar. The
  four assumptions above it are *proved* in `Backend_proofs` of what each tool hands to the next.
* `ToolchainAssumption`: a compiler is silent, has messages, or crashes before or after it opens its output.

**`Liveness_proofs`** (`LivenessTypeCorrect`, `AnalysisCorrect`, `RangesCorrect`, `MarksCorrect`,
`PassesEnd`). What the passes compute is defined without them, as the intersection of all closed
sets of commands (`LiveIn`). `LInv` has `Sound` (what is marked is in every closed set: marks are only
ever put where they have to be) and `Complete` (the commands a pass has dealt with satisfy the
equations, when read with the values that this very pass found). The second part is the delicate one,
because arrays are updated in place: a command reads a successor's cell before or after the pass comes
there, depending on the direction of the edge, and comparing `in` with `in_tag` only tells that no cell
has changed since the pass saw it. `Complete` distinguishes both cases; when `Compare` finds no
difference, it turns into `Solved`, and a solved array that is sound is the least solution.
`RangesCorrect` adds `low` and `high`.

`MarksCorrect` says the same of ways through the program: a command is marked when a way that no
definition interrupts leads from it to a use. The starts of ways that come to no command twice are a closed
set (a command in front of such a way is on it, and what follows it is a way, or is not, and makes it one
longer); such a way has fewer steps than there are commands, which is counted with an injection; and
going back along a way of any length stays in every closed set.

`PassesEnd` is the half of termination that needs no fairness: `StepsLeft` is a number, is `NumTemporaries *
PerTemp + 1` at first, and every step makes it smaller. So no behaviour has more steps than that, and the
only other way not to come to an end is to stop. What makes it smaller is clear for every step but the one
that starts another pass. For that one it has `Off`, the cells that were off when the pass at hand began;
they can be read from the state (the tags where the pass has been, the cells where it has not), do not
change during a pass, and are fewer after every pass that is followed by another, since marks are never
taken back.

**`Interference_proofs`** (`InterferenceGraphCorrect`, `FileEnds`). `FInv` says that the file has exactly
the pairs that the two loops have passed and that meet, in the order of the loops, without doubles. The
first temporary is left out, as in the code; so it is in `FileComplete`. `FileEnds` counts the turns that
the two loops have left.

**`RegAlloc_proofs`** (`TypeCorrect`, `ColouringCorrect`, `ListsCorrect`, `BoundsCorrect`, `QuitJustified`,
`Refinement`, `AllocationEnds`). The invariant `IInv` has four parts. `Sizes`: the first reading bounds the
*second* column of the lines read so far, which is enough for both columns because the smaller vertex comes
first, and which the array is sized from. `Lists`: after k lines the lists hold exactly the edges of these k
lines. This is where the order of the file is needed: only because the first column never decreases is the
running maximum `vertex_handled` the first column of the line at hand. `Colours`: the vertices before `i`,
and no others, have registers, and these do not clash. That alone is inductive only together with `Lists`,
since a register is chosen by looking at lists, and must be free of clashes with both ends of an edge.
`ColouringCorrect` follows from `Colours`; `QuitJustified` from counting: registers that are all marked are
marked by as many different vertices (a surjection from the vertices met to the registers). `Refinement`
maps `reg_assigned` to `Colour`, which is -1 where there is no cell yet; each step of both readings is a
stutter of `Colouring`, `findFreeReg` is an `Assign`, `Quit` gives up, and `PlaceLonely` succeeds, as no
vertex has an empty list that has an edge. `AllocationEnds`: two steps for each line of the file, one for
each vertex, and three.

**`Rewrite_proofs`** (`RewriteTypeCorrect`, `SubstitutionCorrect`, `SingleLonelyCorrect`, `RewritingEnds`).
The first pass replaces the temporaries of a line one after the other, each in the line that the ones before
have left. It comes to one simultaneous substitution because what is put in is no name of a temporary: after
p turns, the operands that one of the first p temporaries names are replaced and the others are as they
were. The loop is a recursive function; its values are those of `LoopValues`, and the argument is by
`Induction` on the turns. `RInv` has this for every line written so far.

**`Backend_proofs`** (`BackendTypeCorrect`, `BackendFileOrdered`, `BackendFileComplete`,
`BackendSubstitutes`, `BackendSingleLonely`, `AllocationCorrect`, `MeaningCorrect`, `DrawnExactly`,
`DrawableHasNeeds`, `RoadEnds`). `BInv` has the invariant of each tool, from
the moment it starts, what it was started on, and that a tool is left only at its end. A step of a tool
preserves its part by the lemma proved for the tool alone (the proof modules are instantiated in the
state of the composition); the new part are the hand-overs. That ranges do not end before they begin
follows from `RangesExact`, that the file is ordered from `FInv`, that cells hold registers from
`Colours`.

`AllocationCorrect` goes all the way: two temporaries never share a register while one of
them is live and the other is written, in the sense of `Machine`, which knows nothing of flow graphs and
passes. It presupposes (`Handled`) that no command writes in vain and that the temporaries are among those
analysed, and that the program is one of two kinds. In the one everything has to be in the flow graph: there
are no calls, branches go to the next command, and uses are not under other names (`Drawable`); nothing is
presupposed of the analysis then. The other has `NeedsDrawn`: the flow graph may lack roads, and it does
lack many (see below), but where a run still needs a temporary the roads that are drawn lead to a use of it.
A need that is only met on a road that is missing is finding 2 for calls, and excluded for branches. Then
live temporaries meet in their ranges, pairs that meet are edges, and ends of edges have different
registers, which the two substitutions put into the text. That a command which writes always has its road
drawn (`WritersGoOn`) is why no more has to be presupposed.

`MeaningCorrect` is about what the text does. `Replay` runs both texts on two machines: every command
computes the same value on both, whatever it is, if it finds the same operands, and writes it where the text
says. `MeaningKept`: it does find the same, on every road and after any number of steps. The simulation
relation (`RInv`) is `Alike` for the temporaries that are live before the command at hand: the register a
temporary goes by holds what the temporary holds. For the others it is false in general, as their registers
may have been given away; that nothing else is needed is why the relation has to be about live ones only. It
is kept because liveness goes backwards through every command that does not write (`LiveBeforeClosed`: what
`Machine` computes with runs as long as the program is closed under one step more, which is a counting
argument), and because the register that is written belongs to no other live temporary (`WrittenApart`).

`DrawnExactly` says for which programs the flow graph has every road and every read, wherever the pointers
lie by whose bytes branches are looked up: those without calls, in which no label that is jumped to stands
twice, branches go to the next command, and none compares a register with a temporary to its right (other than
`Temp_0`, which the zeros of a `memset` happen to name). It is an equivalence: any other program has a flow graph that lacks something. That is why `AllocationCorrect` and
`MeaningCorrect` are about needs and not about roads. For programs of this kind `NeedsDrawn` holds by itself
(`DrawableHasNeeds`), which is how the proof comes from the first kind to the second.

`RoadEnds` adds the measures of the tools up: a line of the file costs the allocator two steps, so that a
turn of the drawing, which may write one, counts for three. `MostSteps`, where it starts, depends on the
numbers of commands and temporaries and on nothing else.

**`SymbolTable_proofs`** (`SymbolTableTypeCorrect`, `PopsCorrect`, `DumpCorrect`, `EnterCorrect`,
`ScopesRefine`, `StackKeepsPromise`). The table is changed in place, and undone by trust in `top` and
`prevtop`. `SInv` says that there is a log of it: the binders `L` in the order in which they were entered,
the tables `T` that there were on the way, and the places `M` of the marks. `Log` ties them to each other:
every table is the one before with one more binder, whose `prevtop` is the key below. `Current`: the table
and `top` are those of the log at its end, or as far down as a dump has come. Then a pop finds its key
because the last binder of the log is the first of its bucket, and leaves the table before it. `Marks` is
why `S_endScope`, which looks at keys only, ends at the mark of its own scope and finds one; `Opened` ties
the history `saved` to the tables in front of the marks; `Dumping` says what each open call of `TAB_dump`
remembers, which is what putting it back needs. `Kept` (a binder stays in its bucket, behind later ones)
makes an empty table an empty log, so that the recursion of the dump has come to the bottom when it finds
nothing. `ScopesRefine` maps `saved` and what can be looked up now to the stack of `ScopedMap`; `S_enter`
and `S_beginScope` are its steps, the last turn of the loop of `S_endScope` is `EndScope`, and the other
turns and the whole of a dump are stutters. `StackKeepsPromise` is about `Env`, which the passes over the
tree use in the place of the table: entering, opening and closing a scope there do to what can be looked up
what `Enter`, `BeginScope` and `EndScope` of `ScopedMap` do. So the models of both passes stand on the same
promise that the table keeps.

**`Toolchain_proofs`** (`ToolchainTypeCorrect`, `OrderlyRunCorrect`). `OrderlyRunIsSound` is inductive together
with `AtWork`: a tool that runs has taken back what it and the later ones had done, and from the moment it
opens its output the file is empty and made from what it read.

**`Extrema`** has what several of these need: least and greatest elements of sets of numbers, induction on
the natural numbers in the form of a set (`Induction`), and that loops written as recursive functions have
values (`LoopHasValues`); and that products of natural numbers are some, and grow with their factors.

Proving changed the models in a few places. Two overlapping cases were made disjoint, as the conditions of
the code are: in `Allocated` of `Rewrite`, and in the search for labels of `FlowGraph`. TLC takes the first
arm that fits, a proof cannot. Entering a name in `Env` is written as a function, since the prover does not
know the operators `:>` and `@@`; `UNION` has parentheses where the prover and TLC read it differently. And what the soundness theorems presuppose became weaker when
`DrawnExactly` showed how few programs have all their roads drawn. `DumpUndone` is said without ENABLED, and
a look-up takes the first place of its key with `Min`.

Only checked by TLC:

* That the programs take their steps, and so come to their end (`Terminates`): fairness and ENABLED are
  beyond the prover. The bounds on the number of steps are proved.
* `Tiger`, `Semant`, `IR`, `FrontEnd`, `MIPSAsm`, `Registers` and `Execution`. They are recursive over trees
  or reach a RECURSIVE operator, and a module that does cannot be proved about: what they compute for every
  tree needs induction over data. `Frame` is not recursive itself, but it computes offsets with folds of the
  library, whose values for sequences of every length need the same induction.

## 6. Findings

Five statements in comments of the code are contradicted by what the code does. Each has a run whose
counterexample shows it.

1. `NeighboursOccupyAll` (allocator `main.c:198`). "his neigbours are occupping all avillable
   registers": the search goes on through the neighbours' own lists, so that a vertex with one
   neighbour can be refused. `QuitOnlyWhenCrowded` says what is true instead.
2. `CallsComeBack` (`MIPS_asm.c:196`). "jump to function and remember the PC to know where to return
   to": the liveness tool lets nothing follow a call. A temporary that is written before a call and read
   behind it is not live in between and loses its register.
3. `OperationsHaveOperands` (`MIPS_asm.c:301`, `:306`). "move left operand to t2 temporary ... move
   right operand to t3 temporary": the results of two calls are both `$v0`, and nothing is moved.
4. `NestedFunctionsAllowed` (`IR.c:195`). "since nested functions are allowed": a variable of the
   function around is looked for at its offset in the frame of the function inside.
5. `DestinationsKept` (`MIPS_asm.c:271`, `:281`). "move dst expression to temp ... generate store
   instruction": in `c := (a+2; 2)` the sum that nobody reads gets `$t0`, where the address of `c` waits.

`Execution` states what a program must not do to be compiled as it means: `OperandsApart` and
`OwnVariables` exclude findings 3 and 4; `MainFits` (main has room for ten locals), `EndsInResult` (a
function that ends in an assignment takes a register from a C function that returns nothing) and
`InitTyped` (a call with arguments in an initialiser makes the translator follow a null pointer)
exclude programs for which there is no meaning to hold the code against. `execution_handled` shows
that outside of these nothing of the kind happens in its programs. For programs that run with registers
there are four more: `KeptAcrossCalls` (finding 2: nothing waits in a temporary while a call is made,
unless the call comes first), `NothingInVain` (finding 5: nothing waits while a value is computed that is thrown
away), `Readable`, and that the allocator does not give up.

`SingleLonelyReplaced` leaves out lines with two temporaries that have no cell: the second pass replaces one of
them only, although its comment (allocator `main.c:294`) speaks of all. `RejectedOnlyBeyondTable` says when
generated programs have such lines.

`FrontEnd` says the same of the passes. What the analysis accepts can be translated, if the program has no
loop and no record (the analysis does not look into them), every parameter is used in its function
only (`ParametersApart`: parameters stay visible behind it for the analysis), and no initialiser calls with
arguments (`PlainInitialisers`). Where both passes look a name up, they mean the same declaration but for
`Early` (the translation enters variables before their initialisers and functions before their
bodies) and `Late` (parameters). A record that is refused leaves a scope of types open for each refusal,
and nothing else does (`ScopesBalance`).

`LivenessToolReads` is exact: of the programs of the run, the liveness tool can read those without division
and logic in which the value of a call is no operand of a product, an order relation, a bound or an index,
and not the right one of a difference. `RejectedOnlyBeyondTable` and `LonelyOutliveCalls` show that
two hazards of the rewriting are harmless as long as programs have at most 122 temporaries: no line has two
lonely temporaries, and none lives across a call, since the epilogue of every function has edges
and lonely temporaries only come behind the last one.

`OrderlyRunIsSound` says what a user can rely on: files are opened by name, and nobody compares dates, but a
tool that says nothing has made its output from the whole of its input. The one exception is a
program of more than 1000 commands, which overruns the arrays of the liveness tool.

## 7. Not modelled

* Strings, but for the type they have and that `IR_transExp` has no case for them; the values of floats,
  which `IR_transExp` takes for integers bit by bit.
* `S_Symbol`, which makes equal names one pointer: names are model values or strings of the model.
* Grammars and scanners: the tables of Bison and Flex, and the code they generate. Their actions only
  build nodes, which `Tiger` and `FlowGraph` have, and which commands the second grammar lacks is in
  `Registers`.
* `ABSYN_Graph.txt`, `IR_Graph.txt`, `LivenessAnalysis.txt` and the wording of messages (`ABSYN_Print.c`,
  `IR_Print.c`, `prabsyn.c`, `printtree.c`, `errormsg.c`, `util.c`): no other part reads them. `temp.txt` is
  written and read by one run of the allocator, and is part of `Rewrite`.
* The vendored sources of Bison and Flex, which are most of the lines under `src/`, what they generate,
  and `simulation.c`, which nothing calls.
* Wording and layout of the files between the programs: a line of `InterferenceGraph.txt` is a pair, a
  command of `tiger_prog.s` a record of its operation and operands. The fixed sizes of line buffers
  are outside of the models; `PROJECT.json` lists them among the hazards. So are the three digits that the
  allocator reads of a temporary's number: 900 temporaries are more than the 1000 commands of the
  liveness tool have room for.

## 8. Plan

Done: every part of the compiler, the liveness tool and the allocator that decides anything, in modules of
its own and in five compositions (`Backend`, `Replay`, `FrontEnd`, `Execution`, `Toolchain`); proofs of all
that the runs check of the parts that are not recursive over trees: both refinements, the composition of the
liveness tool with the allocator down to what the final text computes, and bounds on the steps of every loop
of the two tools.

Left:

1. A bound on the steps of `S_endScope` and of the recursion of `TAB_dump`, in the manner of `StepsLeft`.
2. The environments of `Semant` and `IR` as sequences of steps of `ScopedMap`, which `StackKeepsPromise`
   prepares: their operators would have to be written without recursion over the tree, as steps of a walk.
3. Lemmas on `Frame`: formals and locals of one frame never share a word. `Frame` would have to count with
   recursive functions of the numbers of formals and locals instead of folds.
