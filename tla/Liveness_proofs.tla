-------------------------- MODULE Liveness_proofs --------------------------
(***************************************************************************)
(* Proofs about Liveness, for every number of commands and temporaries and *)
(* every flow graph: the passes, which go forward through the program and  *)
(* update the arrays in place, compute liveness itself.                    *)
(***************************************************************************)
EXTENDS Liveness, Extrema, FiniteSetTheorems, TLAPS

-----------------------------------------------------------------------------
(***************************************************************************)
(* The inductive invariant.  Counter says which command the scan is at;    *)
(* Quiet that the cell standing for those behind the program keeps its -1; *)
(* Sound that whatever is marked is marked in every solution.              *)
(***************************************************************************)
Running == pc \in {"scan", "compare", "report"}

Counter ==
  /\ pc \in {"scan", "compare", "report"} => temp < NumTemporaries
  /\ pc \in {"compare", "report"} => n = NumCommands

Quiet == ~in[NumCommands]

Sound ==
  Running =>
    \A A \in SUBSET Command : Closed(temp, A) =>
      \A c \in Command : (in[c] => c \in A) /\ (out[c] => LiveBehind(c, A))

(***************************************************************************)
(* Complete: the commands this pass has dealt with satisfy the equations,  *)
(* read with what the pass found.  The cell in[s] that command c read is   *)
(* still there unless the pass has come to s since, and then in_tag[s] has *)
(* a value that c has seen.                                                *)
(***************************************************************************)
Complete ==
  pc \in {"scan", "compare"} =>
    \A c \in Command : c < n =>
      /\ in_tag[c] => in[c]
      /\ Uses(c) \/ (out_tag[c] /\ ~Defines(c)) => in[c]
      /\ \A s \in Followers(c) :
           IF s \in Command /\ s < n THEN in_tag[s] => out[c] ELSE in[s] => out[c]

\* Solved: after a pass that changed nothing the arrays satisfy the equations.
Solved ==
  pc = "report" =>
    \A c \in Command :
      /\ Uses(c) \/ (out[c] /\ ~Defines(c)) => in[c]
      /\ \A s \in Followers(c) : in[s] => out[c]

LInv == TypeOK /\ Counter /\ Quiet /\ Sound /\ Complete /\ Solved

-----------------------------------------------------------------------------
\* What the flow graph's tables hold.
LEMMA Tables ==
  ASSUME TypeOK, NEW c \in Command
  PROVE  /\ Followers(c) \subseteq Cell
         /\ Command \subseteq Cell
         /\ -1 \in Cell /\ NumCommands \in Cell
<1>1. flow.out_edges \in [Command -> Cell \X Cell]
  BY LivenessAssumption DEF TypeOK
<1>2. flow.out_edges[c] \in Cell \X Cell
  BY <1>1
<1>3. flow.out_edges[c][1] \in Cell /\ flow.out_edges[c][2] \in Cell
  BY <1>2
<1> QED
  BY <1>3, LivenessAssumption DEF Followers, Command, Cell

LEMMA InitLInv == Init => LInv
<1> SUFFICES ASSUME Init
             PROVE  LInv
  OBVIOUS
<1>1. PICK g \in FlowGraphs : Start(g)
  BY DEF Init
<1>2. NumCommands \in Nat \ {0} /\ NumTemporaries \in Nat \ {0}
  BY LivenessAssumption
<1>3. in \in [Cell -> BOOLEAN] /\ ~in[NumCommands]
  <2>1. PICK b \in BOOLEAN : in = [c \in Cell |-> c = -1 /\ b]
    BY <1>1 DEF Start
  <2>2. \A c \in Cell : in[c] = (c = -1 /\ b)
    BY <2>1
  <2>3. NumCommands \in Cell /\ NumCommands # -1
    BY <1>2 DEF Cell
  <2> QED
    BY <2>1, <2>2, <2>3
<1>4. TypeOK
  <2>1. /\ out \in [Command -> BOOLEAN]
        /\ in_tag \in [Command -> BOOLEAN]
        /\ out_tag \in [Command -> BOOLEAN]
    BY <1>1 DEF Start
  <2>2. /\ low \in [Temporary -> -1 .. NumCommands - 1]
        /\ high \in [Temporary -> -1 .. NumCommands - 1]
    BY <1>1, <1>2 DEF Start
  <2> QED
    BY <1>1, <1>2, <1>3, <2>1, <2>2 DEF Start, TypeOK
<1> QED
  BY <1>1, <1>3, <1>4
  DEF Start, LInv, Counter, Quiet, Sound, Complete, Solved, Running

LEMMA StartTempStep == LInv /\ StartTemp => LInv'
<1> SUFFICES ASSUME LInv, StartTemp
             PROVE  LInv'
  OBVIOUS
<1>1. NumCommands \in Nat \ {0} /\ NumTemporaries \in Nat \ {0}
  BY LivenessAssumption
<1>2. in \in [Cell -> BOOLEAN] /\ -1 \in Cell /\ Command \subseteq Cell /\ NumCommands \in Cell
  BY <1>1 DEF LInv, TypeOK, Cell, Command
<1>3. in' \in [Cell -> BOOLEAN] /\ out' \in [Command -> BOOLEAN]
  BY <1>2 DEF StartTemp
<1>4. /\ \A c \in Command : ~in'[c] /\ ~out'[c]
      /\ ~in'[NumCommands]
  <2>1. \A c \in Cell : in'[c] = (c = -1 /\ in[-1])
    BY <1>2 DEF StartTemp
  <2>2. \A c \in Command : c # -1 /\ out'[c] = FALSE
    BY <1>1 DEF StartTemp, Command
  <2>3. NumCommands # -1
    BY <1>1
  <2> QED
    BY <2>1, <2>2, <2>3, <1>2
<1>5. TypeOK'
  BY <1>1, <1>3 DEF LInv, TypeOK, StartTemp
<1>6. Counter'
  BY <1>1 DEF LInv, TypeOK, StartTemp, Counter
<1>7. Sound'
  BY <1>4 DEF Sound, Command
<1>8. Complete' /\ Solved'
  BY <1>1 DEF StartTemp, Complete, Solved, Command
<1> QED
  BY <1>4, <1>5, <1>6, <1>7, <1>8 DEF LInv, Quiet

\* The solutions of the equations do not move while the analysis runs.
LEMMA SolutionsStay ==
  ASSUME flow' = flow, in'[-1] = in[-1]
  PROVE  /\ \A c, A : LiveBehind(c, A)' <=> LiveBehind(c, A)
         /\ \A t, A : Closed(t, A)' <=> Closed(t, A)
         /\ \A t : LiveIn(t)' = LiveIn(t) /\ LiveOut(t)' = LiveOut(t)
<1>1. \A c, A : LiveBehind(c, A)' <=> LiveBehind(c, A)
  BY DEF LiveBehind, Followers
<1>2. \A t, A : Closed(t, A)' <=> Closed(t, A)
  BY <1>1 DEF Closed, UsesOf, DefinesOf
<1>3. \A t : LiveIn(t)' = LiveIn(t)
  BY <1>2 DEF LiveIn
<1>4. \A t : LiveOut(t)' = LiveOut(t)
  BY <1>1, <1>3 DEF LiveOut
<1> QED
  BY <1>1, <1>2, <1>3, <1>4

LEMMA ScanStep == LInv /\ ScanCommand => LInv'
<1> SUFFICES ASSUME LInv, ScanCommand
             PROVE  LInv'
  OBVIOUS
<1>1. /\ NumCommands \in Nat \ {0} /\ n \in Command /\ n \in Nat /\ n # -1
      /\ Command \subseteq Cell /\ -1 \in Cell /\ NumCommands \in Cell
      /\ Command \subseteq Nat
      /\ pc = "scan" /\ n' = n + 1
      /\ UNCHANGED <<flow, pc, temp, low, high>>
  BY LivenessAssumption DEF LInv, TypeOK, ScanCommand, Command, Cell
<1>2. /\ in \in [Cell -> BOOLEAN] /\ out \in [Command -> BOOLEAN]
      /\ in_tag \in [Command -> BOOLEAN] /\ out_tag \in [Command -> BOOLEAN]
  BY DEF LInv, TypeOK
<1>3. /\ in_tag' = [in_tag EXCEPT ![n] = in[n]]
      /\ out_tag' = [out_tag EXCEPT ![n] = out[n]]
  BY DEF ScanCommand
<1>4. /\ in' \in [Cell -> BOOLEAN]
      /\ \A c \in Cell : c # n => in'[c] = in[c]
      /\ in'[n] <=> in[n] \/ Uses(n) \/ (out[n] /\ ~Defines(n))
  <2> DEFINE b == in[n] \/ Uses(n) \/ (out[n] /\ ~Defines(n))
  <2>1. in' = [in EXCEPT ![n] = b]
    BY DEF ScanCommand
  <2>2. b \in BOOLEAN
    OBVIOUS
  <2> HIDE DEF b
  <2>3. /\ in' \in [Cell -> BOOLEAN]
        /\ \A c \in Cell : c # n => in'[c] = in[c]
        /\ in'[n] = b
    BY <1>1, <1>2, <2>1, <2>2
  <2> QED
    BY <2>3 DEF b
<1>5. /\ out' \in [Command -> BOOLEAN]
      /\ \A c \in Command : c # n => out'[c] = out[c]
      /\ out'[n] <=> out[n] \/ \E s \in Followers(n) : in'[s]
  <2> DEFINE b == out[n] \/ \E s \in Followers(n) : in'[s]
  <2>1. out' = [out EXCEPT ![n] = b]
    BY DEF ScanCommand
  <2>2. b \in BOOLEAN
    OBVIOUS
  <2> HIDE DEF b
  <2>3. /\ out' \in [Command -> BOOLEAN]
        /\ \A c \in Command : c # n => out'[c] = out[c]
        /\ out'[n] = b
    BY <1>1, <1>2, <2>1, <2>2
  <2> QED
    BY <2>3 DEF b
<1>6. /\ in_tag' \in [Command -> BOOLEAN] /\ out_tag' \in [Command -> BOOLEAN]
      /\ in_tag'[n] = in[n] /\ out_tag'[n] = out[n]
      /\ \A c \in Command : c # n => in_tag'[c] = in_tag[c] /\ out_tag'[c] = out_tag[c]
  BY <1>1, <1>2, <1>3
<1>7. in'[-1] = in[-1] /\ in'[NumCommands] = in[NumCommands]
  BY <1>1, <1>4 DEF Command
<1>8. \A c : /\ Uses(c)' <=> Uses(c)
             /\ Defines(c)' <=> Defines(c)
             /\ Followers(c)' = Followers(c)
             /\ Uses(c) <=> UsesOf(temp, c)
             /\ Defines(c) <=> DefinesOf(temp, c)
  BY <1>1 DEF Uses, Defines, Followers, UsesOf, DefinesOf
<1>9. TypeOK'
  <2>1. n' \in 0 .. NumCommands
    BY <1>1 DEF Command
  <2> QED
    BY <1>1, <1>4, <1>5, <1>6, <2>1 DEF LInv, TypeOK
<1>10. Counter' /\ Quiet' /\ Solved'
  BY <1>1, <1>7 DEF LInv, Counter, Quiet, Solved
<1>11. Sound'
  <2> SUFFICES ASSUME NEW A \in SUBSET Command, Closed(temp, A), NEW c \in Command
               PROVE  (in'[c] => c \in A) /\ (out'[c] => LiveBehind(c, A))
    BY <1>1, <1>7, SolutionsStay DEF Sound
  <2>1. \A d \in Command : (in[d] => d \in A) /\ (out[d] => LiveBehind(d, A))
    BY <1>1 DEF LInv, Sound, Running
  <2>2. \A d \in Command : in'[d] => d \in A
    <3>1. in'[n] => n \in A
      BY <1>1, <1>4, <1>8, <2>1 DEF Closed
    <3> QED
      BY <1>1, <1>4, <2>1, <3>1
  <2>3. ASSUME NEW s \in Followers(n), in'[s]
        PROVE  LiveBehind(n, A)
    <3>1. s \in Cell
      BY <1>1, Tables DEF LInv
    <3>2. s # NumCommands
      BY <1>7, <2>3 DEF LInv, Quiet
    <3>3. CASE s = -1
      BY <3>3, <2>3, <1>7 DEF LiveBehind
    <3>4. CASE s \in Command
      BY <3>4, <2>2, <2>3 DEF LiveBehind
    <3> QED
      BY <3>1, <3>2, <3>3, <3>4, <1>1 DEF Cell, Command
  <2>4. out'[n] => LiveBehind(n, A)
    BY <1>1, <1>5, <2>1, <2>3
  <2> QED
    BY <2>1, <2>2, <2>4, <1>5
<1>12. Complete'
  <2> SUFFICES ASSUME NEW c \in Command, c < n + 1
               PROVE  /\ in_tag'[c] => in'[c]
                      /\ Uses(c) \/ (out_tag'[c] /\ ~Defines(c)) => in'[c]
                      /\ \A s \in Followers(c) :
                           IF s \in Command /\ s < n + 1 THEN in_tag'[s] => out'[c]
                                                         ELSE in'[s] => out'[c]
    BY <1>1, <1>8 DEF Complete
  <2>1. \A d \in Command : d < n =>
          /\ in_tag[d] => in[d]
          /\ Uses(d) \/ (out_tag[d] /\ ~Defines(d)) => in[d]
          /\ \A s \in Followers(d) :
               IF s \in Command /\ s < n THEN in_tag[s] => out[d] ELSE in[s] => out[d]
    BY <1>1 DEF LInv, Complete
  <2>2. CASE c = n
    <3>1. ASSUME NEW s \in Followers(c), s \in Command, s < n + 1, in_tag'[s]
          PROVE  out'[c]
      <4>1. in'[s]
        <5>1. CASE s = n
          BY <5>1, <3>1, <1>4, <1>6
        <5>2. CASE s # n
          <6>1. s < n /\ in_tag[s]
            BY <5>2, <3>1, <1>1, <1>6
          <6> QED
            BY <6>1, <5>2, <3>1, <2>1, <1>1, <1>4
        <5> QED
          BY <5>1, <5>2
      <4> QED
        BY <4>1, <2>2, <3>1, <1>5
    <3>2. ASSUME NEW s \in Followers(c), in'[s]
          PROVE  out'[c]
      BY <2>2, <3>2, <1>5
    <3> QED
      BY <2>2, <1>4, <1>6, <3>1, <3>2
  <2>3. CASE c # n
    <3>1. c < n
      BY <2>3, <1>1
    <3>2. in_tag'[c] = in_tag[c] /\ out_tag'[c] = out_tag[c] /\ in'[c] = in[c] /\ out'[c] = out[c]
      BY <2>3, <1>1, <1>4, <1>5, <1>6
    <3>3. ASSUME NEW s \in Followers(c)
          PROVE  IF s \in Command /\ s < n + 1 THEN in_tag'[s] => out'[c] ELSE in'[s] => out'[c]
      <4>1. s \in Cell
        BY <1>1, Tables DEF LInv
      <4>2. CASE s = n
        BY <4>2, <3>1, <3>2, <2>1, <1>1, <1>6
      <4>3. CASE s # n
        <5>1. s \in Command => (s < n + 1 <=> s < n)
          BY <4>3, <1>1
        <5>2. in'[s] = in[s] /\ (s \in Command => in_tag'[s] = in_tag[s])
          BY <4>1, <4>3, <1>4, <1>6
        <5>3. IF s \in Command /\ s < n THEN in_tag[s] => out[c] ELSE in[s] => out[c]
          BY <3>1, <2>1
        <5> QED
          BY <5>1, <5>2, <5>3, <3>2
      <4> QED
        BY <4>2, <4>3
    <3> QED
      BY <3>1, <3>2, <3>3, <2>1
  <2> QED
    BY <2>2, <2>3
<1> QED
  BY <1>9, <1>10, <1>11, <1>12 DEF LInv

LEMMA EndPassStep == LInv /\ EndPass => LInv'
<1> SUFFICES ASSUME LInv, EndPass
             PROVE  LInv'
  OBVIOUS
<1>1. /\ pc = "scan" /\ pc' = "compare" /\ n = NumCommands
      /\ UNCHANGED <<flow, temp, n, in, out, in_tag, out_tag, low, high>>
  BY DEF EndPass
<1>2. TypeOK' /\ Counter' /\ Quiet' /\ Solved'
  BY <1>1 DEF LInv, TypeOK, Counter, Quiet, Solved
<1>3. Sound'
  BY <1>1, SolutionsStay DEF LInv, Sound, Running
<1>4. Complete'
  BY <1>1 DEF LInv, Complete, Uses, Defines, Followers
<1> QED
  BY <1>2, <1>3, <1>4 DEF LInv

\* A pass that changed nothing leaves a solution of the equations.
LEMMA CompareStep == LInv /\ Compare => LInv'
<1> SUFFICES ASSUME LInv, Compare
             PROVE  LInv'
  OBVIOUS
<1>1. /\ pc = "compare" /\ n = NumCommands
      /\ UNCHANGED <<flow, temp, in, out, in_tag, out_tag, low, high>>
      /\ NumCommands \in Nat \ {0} /\ pc' \in {"scan", "report"} /\ n' \in {0, NumCommands}
      /\ pc' = "scan" => n' = 0
      /\ pc' = "report" => n' = n /\ EQUAL(in, in_tag) /\ EQUAL(out, out_tag)
  BY LivenessAssumption DEF Compare, LInv, Counter
<1>2. TypeOK' /\ Counter' /\ Quiet'
  BY <1>1 DEF LInv, TypeOK, Counter, Quiet
<1>3. Sound'
  BY <1>1, SolutionsStay DEF LInv, Sound, Running
<1>4. Complete'
  BY <1>1 DEF Complete, Command
<1>5. Solved'
  <2> SUFFICES ASSUME pc' = "report", NEW c \in Command
               PROVE  /\ Uses(c) \/ (out[c] /\ ~Defines(c)) => in[c]
                      /\ \A s \in Followers(c) : in[s] => out[c]
    BY <1>1 DEF Solved, Uses, Defines, Followers
  <2>1. /\ Uses(c) \/ (out_tag[c] /\ ~Defines(c)) => in[c]
        /\ \A s \in Followers(c) :
             IF s \in Command /\ s < n THEN in_tag[s] => out[c] ELSE in[s] => out[c]
    BY <1>1 DEF LInv, Complete, Command
  <2>2. \A d \in Command : in[d] = in_tag[d] /\ out[d] = out_tag[d]
    BY <1>1 DEF EQUAL
  <2> QED
    BY <2>1, <2>2
<1> QED
  BY <1>2, <1>3, <1>4, <1>5 DEF LInv

\* Such a solution is the least one.
LEMMA Exact ==
  ASSUME LInv, pc = "report"
  PROVE  /\ {c \in Command : in[c]} = LiveIn(temp)
         /\ {c \in Command : out[c]} = LiveOut(temp)
<1> DEFINE A == {c \in Command : in[c]}
<1>1. /\ \A c \in Command : Uses(c) \/ (out[c] /\ ~Defines(c)) => in[c]
      /\ \A c \in Command : \A s \in Followers(c) : in[s] => out[c]
  BY DEF LInv, Solved
<1>2. \A c \in Command : LiveBehind(c, A) => out[c]
  BY <1>1 DEF LiveBehind
<1>3. Closed(temp, A)
  BY <1>1, <1>2 DEF Closed, UsesOf, DefinesOf, Uses, Defines
<1>4. \A B \in SUBSET Command : Closed(temp, B) =>
        \A c \in Command : (in[c] => c \in B) /\ (out[c] => LiveBehind(c, B))
  BY DEF LInv, Sound, Running
<1>5. A = LiveIn(temp)
  <2>1. \A c \in A : c \in LiveIn(temp)
    BY <1>4 DEF LiveIn
  <2>2. \A c \in LiveIn(temp) : c \in A
    <3> HIDE DEF A
    <3>1. A \in SUBSET Command
      BY DEF A
    <3> QED
      BY <1>3, <3>1 DEF LiveIn
  <2> QED
    BY <2>1, <2>2
<1>6. \A c \in Command : out[c] <=> LiveBehind(c, A)
  <2> HIDE DEF A
  <2>1. A \in SUBSET Command
    BY DEF A
  <2> QED
    BY <1>2, <1>3, <1>4, <2>1
<1> QED
  BY <1>5, <1>6 DEF LiveOut

LEMMA ReportStep == LInv /\ Report => LInv'
<1> SUFFICES ASSUME LInv, Report
             PROVE  LInv'
  OBVIOUS
<1>1. /\ pc = "report" /\ pc' = "next_temp" /\ temp' = temp + 1
      /\ UNCHANGED <<flow, n, in, out, in_tag, out_tag>>
      /\ NumTemporaries \in Nat \ {0} /\ NumCommands \in Nat \ {0}
      /\ temp \in Nat /\ temp < NumTemporaries
  BY LivenessAssumption DEF Report, LInv, TypeOK, Counter
<1>2. Marked # {} => Min(Marked) \in Marked /\ Max(Marked) \in Marked
  <2>1. Marked \subseteq 0 .. NumCommands /\ Marked \subseteq Nat /\ NumCommands \in Nat
    BY <1>1 DEF Marked, Command
  <2> HIDE DEF Marked
  <2> QED
    BY <2>1, MinIn, MaxIn
<1>3. \A x \in Marked : x \in -1 .. NumCommands - 1
  BY <1>1 DEF Marked, Command
<1>4. low' \in [Temporary -> -1 .. NumCommands - 1] /\ high' \in [Temporary -> -1 .. NumCommands - 1]
  <2> DEFINE lo == IF Marked = {} THEN -1 ELSE Min(Marked)
             hi == IF Marked = {} THEN -1 ELSE Max(Marked)
  <2>1. lo \in -1 .. NumCommands - 1 /\ hi \in -1 .. NumCommands - 1
    BY <1>1, <1>2, <1>3
  <2>2. low' = [low EXCEPT ![temp] = lo] /\ high' = [high EXCEPT ![temp] = hi]
    BY DEF Report
  <2> HIDE DEF lo, hi
  <2> QED
    BY <2>1, <2>2 DEF LInv, TypeOK
<1>5. TypeOK'
  BY <1>1, <1>4 DEF LInv, TypeOK
<1>6. Counter' /\ Quiet' /\ Sound' /\ Complete' /\ Solved'
  BY <1>1 DEF LInv, Counter, Quiet, Sound, Running, Complete, Solved
<1> QED
  BY <1>5, <1>6 DEF LInv

LEMMA NextLInv == LInv /\ [Next]_vars => LInv'
<1>1. LInv /\ Finish => LInv'
  BY DEF LInv, Finish, TypeOK, Counter, Quiet, Sound, Running, Complete, Solved
<1>2. LInv /\ UNCHANGED vars => LInv'
  <2> SUFFICES ASSUME LInv, UNCHANGED vars
               PROVE  LInv'
    OBVIOUS
  <2>1. UNCHANGED <<flow, pc, temp, n, in, out, in_tag, out_tag, low, high>>
    BY DEF vars
  <2>2. Sound'
    BY <2>1, SolutionsStay DEF LInv, Sound, Running
  <2>3. Complete' /\ Solved'
    BY <2>1 DEF LInv, Complete, Solved, Uses, Defines, Followers
  <2>4. TypeOK' /\ Counter' /\ Quiet'
    BY <2>1 DEF LInv, TypeOK, Counter, Quiet
  <2> QED
    BY <2>2, <2>3, <2>4 DEF LInv
<1> QED
  BY <1>1, <1>2, StartTempStep, ScanStep, EndPassStep, CompareStep, ReportStep DEF Next

THEOREM LivenessInvariance == Spec => []LInv
BY InitLInv, NextLInv, PTL DEF Spec

\* The counters stay inside the arrays, and every cell of low and high names a command or none.
THEOREM LivenessTypeCorrect == Spec => []TypeOK
BY LivenessInvariance, PTL DEF LInv

(***************************************************************************)
(* Whatever the flow graph, the forward passes over it end in liveness:    *)
(* the least solution of the dataflow equations.                           *)
(***************************************************************************)
THEOREM AnalysisCorrect == Spec => []AnalysisExact
<1>1. LInv => AnalysisExact
  BY Exact DEF AnalysisExact
<1> QED
  BY <1>1, LivenessInvariance, PTL

\* Before the first temporary there is no range to be wrong.
LEMMA InitRanges == Init => RangesExact
<1> SUFFICES ASSUME Init
             PROVE  RangesExact
  OBVIOUS
<1>1. temp = 0
  BY DEF Init, Start
<1> QED
  BY <1>1 DEF RangesExact, Temporary

\* Reporting a temporary leaves its range, and no other step touches one that was left.
LEMMA RangesStep == LInv /\ RangesExact /\ [Next]_vars => RangesExact'
<1> SUFFICES ASSUME LInv, RangesExact, [Next]_vars
             PROVE  RangesExact'
  OBVIOUS
<1>1. NumCommands \in Nat \ {0} /\ Command \subseteq Cell /\ -1 \in Cell /\ -1 \notin Command
  BY LivenessAssumption DEF Command, Cell
<1>2. flow' = flow /\ in'[-1] = in[-1]
  <2>1. in \in [Cell -> BOOLEAN]
    BY DEF LInv, TypeOK
  <2>2. CASE StartTemp
    <3>1. in'[-1] = (-1 = -1 /\ in[-1])
      BY <1>1, <2>2 DEF StartTemp
    <3>2. in[-1] \in BOOLEAN
      BY <1>1, <2>1
    <3> QED
      BY <3>1, <3>2, <2>2 DEF StartTemp
  <2>3. CASE ScanCommand
    <3>1. n # -1
      BY DEF LInv, TypeOK
    <3>2. \E b : in' = [in EXCEPT ![n] = b]
      BY <2>3 DEF ScanCommand
    <3> QED
      BY <1>1, <2>1, <2>3, <3>1, <3>2 DEF ScanCommand
  <2> QED
    BY <2>2, <2>3 DEF Next, EndPass, Compare, Report, Finish, vars
<1>3. \A t : LiveAt(t)' = LiveAt(t)
  BY <1>2, SolutionsStay DEF LiveAt
<1>4. CASE Report
  <2> SUFFICES ASSUME NEW t \in Temporary, t < temp + 1
               PROVE  Spans(low'[t], high'[t], LiveAt(t))
    BY <1>3, <1>4 DEF RangesExact, Report
  <2>1. /\ low' = [low EXCEPT ![temp] = IF Marked = {} THEN -1 ELSE Min(Marked)]
        /\ high' = [high EXCEPT ![temp] = IF Marked = {} THEN -1 ELSE Max(Marked)]
        /\ pc = "report"
    BY <1>4 DEF Report
  <2>2. /\ low \in [Temporary -> -1 .. NumCommands - 1]
        /\ high \in [Temporary -> -1 .. NumCommands - 1]
        /\ temp \in Nat /\ t \in Nat
    BY LivenessAssumption DEF LInv, TypeOK, Temporary
  <2>3. CASE t = temp
    <3>1. Marked = LiveAt(t)
      <4>1. Marked = {c \in Command : in[c]} \cup {c \in Command : out[c]}
        BY DEF Marked
      <4> QED
        BY <4>1, <2>1, <2>3, Exact DEF LiveAt
    <3>2. Marked # {} => /\ Min(Marked) \in Marked /\ Max(Marked) \in Marked
                         /\ \A c \in Marked : Min(Marked) <= c /\ c <= Max(Marked)
      <4>1. Marked \subseteq 0 .. NumCommands /\ Marked \subseteq Nat /\ NumCommands \in Nat
        BY <1>1 DEF Marked, Command
      <4> HIDE DEF Marked
      <4> QED
        BY <4>1, MinIn, MaxIn
    <3>3. /\ low'[t] = IF Marked = {} THEN -1 ELSE Min(Marked)
          /\ high'[t] = IF Marked = {} THEN -1 ELSE Max(Marked)
      BY <2>1, <2>2, <2>3
    <3> QED
      BY <3>1, <3>2, <3>3 DEF Spans
  <2>4. CASE t # temp
    <3>1. low'[t] = low[t] /\ high'[t] = high[t] /\ t < temp
      BY <2>1, <2>2, <2>4
    <3> QED
      BY <3>1 DEF RangesExact
  <2> QED
    BY <2>3, <2>4
<1>5. CASE ~Report
  <2>1. temp' = temp /\ low' = low /\ high' = high
    BY <1>5 DEF Next, StartTemp, ScanCommand, EndPass, Compare, Finish, vars
  <2> QED
    BY <2>1, <1>3 DEF RangesExact
<1> QED
  BY <1>4, <1>5

(***************************************************************************)
(* The ranges that the interference graph is drawn from span exactly the   *)
(* commands at which their temporaries are live.                           *)
(***************************************************************************)
THEOREM RangesCorrect == Spec => []RangesExact
BY InitRanges, RangesStep, LivenessInvariance, PTL DEF Spec

-----------------------------------------------------------------------------
(***************************************************************************)
(* The least solution, read as ways through the program.  The ways that    *)
(* come to no command twice do, and their number of steps is bounded by    *)
(* that of the commands: the bound in WayLive leaves none of them out.     *)
(***************************************************************************)
Simple(k, p) == \A a, b \in 0 .. k : p[a] = p[b] => a = b

SimplyLive(t) ==
  {c \in Command : \E k \in Nat : \E p \in Ways(t, k) : p[0] = c /\ Needs(t, p[k]) /\ Simple(k, p)}

\* What a way is.
LEMMA WayIs ==
  ASSUME NEW t, NEW k \in Nat, NEW p
  PROVE  p \in Ways(t, k) <=>
           /\ p \in [0 .. k -> Command]
           /\ \A m \in 1 .. k : p[m] \in Followers(p[m - 1]) /\ ~DefinesOf(t, p[m - 1])
BY DEF Ways

\* A command that needs the temporary is a way of no steps.
LEMMA NeedsItself ==
  ASSUME NEW t, NEW c \in Command, Needs(t, c)
  PROVE  c \in SimplyLive(t)
<1> DEFINE p == [m \in 0 .. 0 |-> c]
<1>1. p \in [0 .. 0 -> Command] /\ p[0] = c
  OBVIOUS
<1>2. Simple(0, p)
  BY DEF Simple
<1> HIDE DEF p
<1>3. p \in Ways(t, 0)
  <2>1. 0 \in Nat /\ 1 .. 0 = {}
    OBVIOUS
  <2> QED
    BY <1>1, <2>1, WayIs
<1> QED
  BY <1>1, <1>2, <1>3 DEF SimplyLive

\* What is left of a way from its step j on.
LEMMA LaterPart ==
  ASSUME NEW t, NEW k \in Nat, NEW p \in Ways(t, k), NEW j \in 0 .. k,
         Needs(t, p[k]), Simple(k, p)
  PROVE  p[j] \in SimplyLive(t)
<1> DEFINE q == [m \in 0 .. k - j |-> p[m + j]]
<1>1. p \in [0 .. k -> Command]
  BY WayIs
<1>2. \A m \in 1 .. k : p[m] \in Followers(p[m - 1]) /\ ~DefinesOf(t, p[m - 1])
  BY WayIs
<1>3. k - j \in Nat /\ \A m \in 0 .. k - j : m + j \in 0 .. k
  OBVIOUS
<1>4. q \in [0 .. k - j -> Command] /\ \A m \in 0 .. k - j : q[m] = p[m + j]
  BY <1>1, <1>3
<1> HIDE DEF q
<1>5. ASSUME NEW m \in 1 .. k - j
      PROVE  q[m] \in Followers(q[m - 1]) /\ ~DefinesOf(t, q[m - 1])
  <2>1. m + j \in 1 .. k /\ (m - 1) + j = (m + j) - 1 /\ m \in 0 .. k - j /\ m - 1 \in 0 .. k - j
    OBVIOUS
  <2>2. q[m] = p[m + j] /\ q[m - 1] = p[(m + j) - 1]
    BY <2>1, <1>4
  <2> QED
    BY <2>1, <2>2, <1>2
<1>6. q \in Ways(t, k - j)
  BY <1>3, <1>4, <1>5, WayIs
<1>7. q[0] = p[j] /\ q[k - j] = p[k] /\ p[j] \in Command
  <2>1. 0 \in 0 .. k - j /\ 0 + j = j /\ k - j \in 0 .. k - j /\ (k - j) + j = k
    OBVIOUS
  <2> QED
    BY <2>1, <1>1, <1>4
<1>8. Simple(k - j, q)
  <2> SUFFICES ASSUME NEW a \in 0 .. k - j, NEW b \in 0 .. k - j, q[a] = q[b]
               PROVE  a = b
    BY DEF Simple
  <2>1. p[a + j] = p[b + j]
    BY <1>4
  <2>2. a + j = b + j
    BY <2>1, <1>3 DEF Simple
  <2> QED
    BY <2>2
<1> QED
  BY <1>3, <1>6, <1>7, <1>8 DEF SimplyLive

\* A way with one command more in front, which the way does not come to.
LEMMA OneMore ==
  ASSUME NEW t, NEW k \in Nat, NEW p \in Ways(t, k), Needs(t, p[k]), Simple(k, p),
         NEW c \in Command, p[0] \in Followers(c), ~DefinesOf(t, c),
         \A j \in 0 .. k : p[j] # c
  PROVE  c \in SimplyLive(t)
<1> DEFINE q == [m \in 0 .. k + 1 |-> IF m = 0 THEN c ELSE p[m - 1]]
<1>1. p \in [0 .. k -> Command]
  BY WayIs
<1>2. \A m \in 1 .. k : p[m] \in Followers(p[m - 1]) /\ ~DefinesOf(t, p[m - 1])
  BY WayIs
<1>3. k + 1 \in Nat /\ \A m \in 0 .. k + 1 : m # 0 => m - 1 \in 0 .. k
  OBVIOUS
<1>4. q \in [0 .. k + 1 -> Command] /\ \A m \in 0 .. k + 1 : q[m] = IF m = 0 THEN c ELSE p[m - 1]
  BY <1>1, <1>3
<1> HIDE DEF q
<1>5. q[0] = c /\ q[k + 1] = p[k]
  <2>1. 0 \in 0 .. k + 1 /\ k + 1 \in 0 .. k + 1 /\ k + 1 # 0 /\ (k + 1) - 1 = k
    OBVIOUS
  <2> QED
    BY <2>1, <1>4
<1>6. ASSUME NEW m \in 1 .. k + 1
      PROVE  q[m] \in Followers(q[m - 1]) /\ ~DefinesOf(t, q[m - 1])
  <2>1. m \in 0 .. k + 1 /\ m # 0 /\ m - 1 \in 0 .. k + 1
    OBVIOUS
  <2>2. q[m] = p[m - 1]
    BY <2>1, <1>4
  <2>3. CASE m = 1
    <3>1. m - 1 = 0
      BY <2>3
    <3> QED
      BY <3>1, <2>2, <1>5
  <2>4. CASE m # 1
    <3>1. m - 1 \in 1 .. k /\ m - 1 # 0
      BY <2>4
    <3>2. q[m - 1] = p[(m - 1) - 1]
      BY <3>1, <2>1, <1>4
    <3> QED
      BY <3>1, <3>2, <2>2, <1>2
  <2> QED
    BY <2>3, <2>4
<1>7. q \in Ways(t, k + 1)
  BY <1>3, <1>4, <1>6, WayIs
<1>8. Simple(k + 1, q)
  <2> SUFFICES ASSUME NEW a \in 0 .. k + 1, NEW b \in 0 .. k + 1, q[a] = q[b]
               PROVE  a = b
    BY DEF Simple
  <2>1. \A m \in 0 .. k + 1 : m # 0 => q[m] = p[m - 1] /\ q[m] # c
    BY <1>3, <1>4
  <2>2. CASE a = 0 \/ b = 0
    BY <2>1, <2>2, <1>5
  <2>3. CASE a # 0 /\ b # 0
    <3>1. p[a - 1] = p[b - 1] /\ a - 1 \in 0 .. k /\ b - 1 \in 0 .. k
      BY <2>1, <2>3, <1>3
    <3>2. a - 1 = b - 1
      BY <3>1 DEF Simple
    <3> QED
      BY <3>2
  <2> QED
    BY <2>2, <2>3
<1> QED
  BY <1>3, <1>5, <1>7, <1>8 DEF SimplyLive

LEMMA SimplyLiveClosed == \A t : Closed(t, SimplyLive(t))
<1> SUFFICES ASSUME NEW t, NEW c \in Command,
                    UsesOf(t, c) \/ (LiveBehind(c, SimplyLive(t)) /\ ~DefinesOf(t, c))
             PROVE  c \in SimplyLive(t)
  BY DEF Closed
<1>1. CASE Needs(t, c)
  BY <1>1, NeedsItself
<1>2. CASE ~Needs(t, c)
  <2>1. ~DefinesOf(t, c) /\ \E s \in Followers(c) : s \in SimplyLive(t)
    BY <1>2 DEF Needs, LiveBehind
  <2>2. PICK s \in Followers(c) : s \in SimplyLive(t)
    BY <2>1
  <2>3. PICK k \in Nat : \E p \in Ways(t, k) : p[0] = s /\ Needs(t, p[k]) /\ Simple(k, p)
    BY <2>2 DEF SimplyLive
  <2>4. PICK p \in Ways(t, k) : p[0] = s /\ Needs(t, p[k]) /\ Simple(k, p)
    BY <2>3
  <2>5. CASE \E j \in 0 .. k : p[j] = c
    BY <2>4, <2>5, LaterPart
  <2>6. CASE \A j \in 0 .. k : p[j] # c
    BY <2>1, <2>4, <2>6, OneMore
  <2> QED
    BY <2>5, <2>6
<1> QED
  BY <1>1, <1>2

\* A way that comes to no command twice has fewer steps than there are commands.
LEMMA SimplyLiveIsWayLive == \A t : SimplyLive(t) \subseteq WayLive(t)
<1> SUFFICES ASSUME NEW t, NEW k \in Nat, NEW p \in Ways(t, k), Simple(k, p)
             PROVE  k \in 0 .. NumCommands - 1
  BY DEF SimplyLive, WayLive
<1>1. NumCommands \in Nat \ {0}
  BY LivenessAssumption
<1>2. p \in Injection(0 .. k, Command)
  <2>1. p \in [0 .. k -> Command]
    BY WayIs
  <2> QED
    BY <2>1 DEF Injection, IsInjective, Simple
<1>3. IsFiniteSet(Command) /\ Cardinality(Command) = NumCommands
  BY <1>1, FS_Interval DEF Command
<1>4. Cardinality(0 .. k) = k + 1
  BY FS_Interval
<1>5. Cardinality(0 .. k) <= Cardinality(Command)
  BY <1>2, <1>3, FS_Injection
<1> QED
  BY <1>1, <1>3, <1>4, <1>5

\* Every solution has the start of every way, however long: the argument goes back from its end.
LEMMA WaysInSolutions ==
  ASSUME NEW t, NEW A \in SUBSET Command, Closed(t, A),
         NEW k \in Nat, NEW p \in Ways(t, k), Needs(t, p[k])
  PROVE  p[0] \in A
<1> DEFINE S == {j \in Nat : j <= k => p[k - j] \in A}
<1>1. p \in [0 .. k -> Command]
  BY WayIs
<1>2. \A m \in 1 .. k : p[m] \in Followers(p[m - 1]) /\ ~DefinesOf(t, p[m - 1])
  BY WayIs
<1>3. 0 \in S
  <2>1. p[k] \in Command /\ k - 0 = k
    BY <1>1
  <2>2. p[k] \in A
    BY <2>1 DEF Needs, Closed, LiveBehind
  <2> QED
    BY <2>1, <2>2
<1>4. ASSUME NEW j \in Nat, j \in S
      PROVE  j + 1 \in S
  <2> SUFFICES ASSUME j + 1 <= k
               PROVE  p[k - (j + 1)] \in A
    OBVIOUS
  <2>1. k - j \in 1 .. k /\ (k - j) - 1 = k - (j + 1) /\ (k - j) - 1 \in 0 .. k
    OBVIOUS
  <2>2. p[k - j] \in A
    BY <1>4
  <2>3. p[k - j] \in Followers(p[(k - j) - 1]) /\ ~DefinesOf(t, p[(k - j) - 1])
    BY <2>1, <1>2
  <2>4. p[(k - j) - 1] \in Command
    BY <2>1, <1>1
  <2>5. p[(k - j) - 1] \in A
    BY <2>2, <2>3, <2>4 DEF Closed, LiveBehind
  <2> QED
    BY <2>1, <2>5
<1>5. k \in S
  <2> HIDE DEF S
  <2> QED
    BY <1>3, <1>4, Induction
<1> QED
  BY <1>5

LEMMA WayLiveIsLiveIn == \A t : WayLive(t) = LiveIn(t)
<1> SUFFICES ASSUME NEW t
             PROVE  WayLive(t) = LiveIn(t)
  OBVIOUS
<1>1. ASSUME NEW c \in WayLive(t)
      PROVE  c \in LiveIn(t)
  <2>1. c \in Command /\ \E k \in Nat : \E p \in Ways(t, k) : p[0] = c /\ Needs(t, p[k])
    BY DEF WayLive
  <2>2. \A A \in SUBSET Command : Closed(t, A) => c \in A
    BY <2>1, WaysInSolutions
  <2> QED
    BY <2>1, <2>2 DEF LiveIn
<1>2. LiveIn(t) \subseteq SimplyLive(t)
  <2>1. SimplyLive(t) \in SUBSET Command
    BY DEF SimplyLive
  <2> QED
    BY <2>1, SimplyLiveClosed DEF LiveIn
<1> QED
  BY <1>1, <1>2, SimplyLiveIsWayLive

(***************************************************************************)
(* The passes mark the commands from which a way that no definition        *)
(* interrupts leads to a use, and no others: the loop over the passes      *)
(* finds the ways around every loop of the program.                        *)
(***************************************************************************)
THEOREM MarksCorrect == Spec => []MarksFollowPaths
<1>1. LInv => MarksFollowPaths
  BY Exact, WayLiveIsLiveIn DEF MarksFollowPaths
<1> QED
  BY <1>1, LivenessInvariance, PTL

-----------------------------------------------------------------------------
(***************************************************************************)
(* Why the passes end.  Off are the cells that were not marked when the    *)
(* pass at hand began: where it has been, the tags say so, and where it    *)
(* has not, the cells themselves.  Nothing but another pass changes them.  *)
(***************************************************************************)
OffBefore == {c \in Command : IF c < n THEN ~in_tag[c] ELSE ~in[c]}
OffBehind == {c \in Command : IF c < n THEN ~out_tag[c] ELSE ~out[c]}
Off       == <<OffBefore, OffBehind>>

OffShrinks == OffBefore' \subseteq OffBefore /\ OffBehind' \subseteq OffBehind /\ Off' # Off

\* No pass takes back a mark.
Kept ==
  pc \in {"scan", "compare"} =>
    \A c \in Command : c < n => (in_tag[c] => in[c]) /\ (out_tag[c] => out[c])

LEMMA InitKept == Init => Kept
BY DEF Init, Start, Kept

LEMMA ScanKept == LInv /\ Kept /\ ScanCommand => Kept'
<1> SUFFICES ASSUME LInv, Kept, ScanCommand, NEW c \in Command, c < n + 1
             PROVE  (in_tag'[c] => in'[c]) /\ (out_tag'[c] => out'[c])
  BY DEF Kept, ScanCommand
<1>1. /\ n \in Command /\ c \in Int /\ Command \subseteq Cell
      /\ in \in [Cell -> BOOLEAN] /\ out \in [Command -> BOOLEAN]
      /\ in_tag \in [Command -> BOOLEAN] /\ out_tag \in [Command -> BOOLEAN]
  BY LivenessAssumption DEF LInv, TypeOK, ScanCommand, Command, Cell
<1>2. PICK a, b : /\ in' = [in EXCEPT ![n] = @ \/ a]
                  /\ out' = [out EXCEPT ![n] = @ \/ b]
  BY DEF ScanCommand
<1>3. in_tag' = [in_tag EXCEPT ![n] = in[n]] /\ out_tag' = [out_tag EXCEPT ![n] = out[n]]
  BY DEF ScanCommand
<1>4. CASE c = n
  BY <1>1, <1>2, <1>3, <1>4
<1>5. CASE c # n
  <2>1. c < n
    BY <1>1, <1>5
  <2>2. (in_tag[c] => in[c]) /\ (out_tag[c] => out[c])
    BY <2>1 DEF Kept, ScanCommand
  <2>3. in'[c] = in[c] /\ out'[c] = out[c] /\ in_tag'[c] = in_tag[c] /\ out_tag'[c] = out_tag[c]
    BY <1>1, <1>2, <1>3, <1>5
  <2> QED
    BY <2>2, <2>3
<1> QED
  BY <1>4, <1>5

LEMMA NextKept == LInv /\ Kept /\ [Next]_vars => Kept'
<1> SUFFICES ASSUME LInv, Kept, [Next]_vars
             PROVE  Kept'
  OBVIOUS
<1>1. CASE ScanCommand
  BY <1>1, ScanKept
<1>2. CASE StartTemp \/ Compare
  <2>1. n' = 0 \/ pc' = "report"
    BY <1>2 DEF StartTemp, Compare
  <2>2. \A c \in Command : ~(c < 0)
    BY LivenessAssumption DEF Command
  <2> QED
    BY <2>1, <2>2 DEF Kept
<1>3. CASE EndPass \/ Report \/ Finish \/ UNCHANGED vars
  BY <1>3 DEF EndPass, Report, Finish, vars, Kept
<1> QED
  BY <1>1, <1>2, <1>3 DEF Next

\* A command that is scanned is off as it was: its tags are taken before its cells are set.
LEMMA ScanOff == LInv /\ ScanCommand => Off' = Off
<1> SUFFICES ASSUME LInv, ScanCommand
             PROVE  OffBefore' = OffBefore /\ OffBehind' = OffBehind
  BY DEF Off
<1>1. /\ n \in Command /\ n' = n + 1 /\ Command \subseteq Cell /\ Command \subseteq Int
      /\ in \in [Cell -> BOOLEAN] /\ out \in [Command -> BOOLEAN]
      /\ in_tag \in [Command -> BOOLEAN] /\ out_tag \in [Command -> BOOLEAN]
  BY LivenessAssumption DEF LInv, TypeOK, ScanCommand, Command, Cell
<1>2. PICK a, b : in' = [in EXCEPT ![n] = a] /\ out' = [out EXCEPT ![n] = b]
  BY DEF ScanCommand
<1>3. in_tag' = [in_tag EXCEPT ![n] = in[n]] /\ out_tag' = [out_tag EXCEPT ![n] = out[n]]
  BY DEF ScanCommand
<1>4. ASSUME NEW c \in Command
      PROVE  /\ (IF c < n + 1 THEN ~in_tag'[c] ELSE ~in'[c]) <=> IF c < n THEN ~in_tag[c] ELSE ~in[c]
             /\ (IF c < n + 1 THEN ~out_tag'[c] ELSE ~out'[c]) <=> IF c < n THEN ~out_tag[c] ELSE ~out[c]
  <2>1. CASE c = n
    <3>1. c < n + 1 /\ ~(c < n)
      BY <1>1, <2>1
    <3>2. in_tag'[c] = in[c] /\ out_tag'[c] = out[c]
      BY <1>1, <1>3, <2>1
    <3> QED
      BY <3>1, <3>2
  <2>2. CASE c # n
    <3>1. c < n + 1 <=> c < n
      BY <1>1, <2>2
    <3>2. /\ in'[c] = in[c] /\ out'[c] = out[c]
          /\ in_tag'[c] = in_tag[c] /\ out_tag'[c] = out_tag[c]
      BY <1>1, <1>2, <1>3, <2>2
    <3> QED
      BY <3>1, <3>2
  <2> QED
    BY <2>1, <2>2
<1> QED
  BY <1>1, <1>4 DEF OffBefore, OffBehind

\* There is another pass only if this one has marked a cell.
LEMMA CompareOff == LInv /\ Kept /\ Compare /\ pc' = "scan" => OffShrinks
<1> SUFFICES ASSUME LInv, Kept, Compare, pc' = "scan"
             PROVE  OffShrinks
  OBVIOUS
<1>1. /\ pc = "compare" /\ n = NumCommands /\ n' = 0
      /\ UNCHANGED <<in, out, in_tag, out_tag>>
      /\ ~(EQUAL(in, in_tag) /\ EQUAL(out, out_tag))
      /\ \A c \in Command : c < NumCommands /\ ~(c < 0)
      /\ Command \subseteq Cell
  BY LivenessAssumption DEF Compare, LInv, Counter, Command, Cell
<1>2. /\ in \in [Cell -> BOOLEAN] /\ out \in [Command -> BOOLEAN]
      /\ in_tag \in [Command -> BOOLEAN] /\ out_tag \in [Command -> BOOLEAN]
  BY DEF LInv, TypeOK
<1>3. /\ OffBefore = {c \in Command : ~in_tag[c]} /\ OffBehind = {c \in Command : ~out_tag[c]}
      /\ OffBefore' = {c \in Command : ~in[c]} /\ OffBehind' = {c \in Command : ~out[c]}
  BY <1>1 DEF OffBefore, OffBehind
<1>4. \A c \in Command : (in_tag[c] => in[c]) /\ (out_tag[c] => out[c])
  BY <1>1 DEF Kept
<1>5. PICK d \in Command : in[d] # in_tag[d] \/ out[d] # out_tag[d]
  BY <1>1 DEF EQUAL
<1>6. (~in_tag[d] /\ in[d]) \/ (~out_tag[d] /\ out[d])
  <2>1. in[d] \in BOOLEAN /\ in_tag[d] \in BOOLEAN /\ out[d] \in BOOLEAN /\ out_tag[d] \in BOOLEAN
    BY <1>1, <1>2
  <2> QED
    BY <2>1, <1>4, <1>5
<1>7. OffBefore' # OffBefore \/ OffBehind' # OffBehind
  BY <1>3, <1>6
<1> QED
  BY <1>3, <1>4, <1>7 DEF OffShrinks, Off

-----------------------------------------------------------------------------
\* Cells still off, and the steps of a pass: the commands, the end and the comparison.
OffCount == Cardinality(OffBefore) + Cardinality(OffBehind)
Pass     == NumCommands + 2

\* No temporary takes more steps than one pass for each cell, and one that changes nothing.
PerTemp == 2 * NumCommands * Pass + NumCommands + 4

StepsOfTemp ==
  CASE pc = "scan"    -> OffCount * Pass + (NumCommands - n) + 3
    [] pc = "compare" -> OffCount * Pass + 2
    [] pc = "report"  -> 1

\* The most steps that the analysis still takes.
StepsLeft ==
  CASE pc = "done"      -> 0
    [] pc = "next_temp" -> (NumTemporaries - temp) * PerTemp + 1
    [] OTHER            -> (NumTemporaries - temp - 1) * PerTemp + StepsOfTemp + 1

LEMMA OffCounts ==
  ASSUME TypeOK
  PROVE  /\ IsFiniteSet(OffBefore) /\ IsFiniteSet(OffBehind)
         /\ OffCount \in Nat /\ OffCount <= 2 * NumCommands
<1>1. IsFiniteSet(Command) /\ Cardinality(Command) = NumCommands
  <2>1. 0 <= NumCommands - 1 + 1 /\ NumCommands - 1 \in Int
    BY LivenessAssumption
  <2> QED
    BY <2>1, LivenessAssumption, FS_Interval DEF Command
<1>2. OffBefore \subseteq Command /\ OffBehind \subseteq Command
  BY DEF OffBefore, OffBehind
<1>3. /\ IsFiniteSet(OffBefore) /\ Cardinality(OffBefore) <= NumCommands
      /\ IsFiniteSet(OffBehind) /\ Cardinality(OffBehind) <= NumCommands
  BY <1>1, <1>2, FS_Subset
<1>4. Cardinality(OffBefore) \in Nat /\ Cardinality(OffBehind) \in Nat
  BY <1>3, FS_CardinalityType
<1> QED
  BY <1>3, <1>4, LivenessAssumption DEF OffCount

\* Where a mark is set one cell less is off.
LEMMA ShrinksCount ==
  ASSUME TypeOK, TypeOK', OffShrinks
  PROVE  OffCount' < OffCount
<1>1. IsFiniteSet(OffBefore) /\ IsFiniteSet(OffBehind)
  BY OffCounts
<1>2. /\ IsFiniteSet(OffBefore') /\ IsFiniteSet(OffBehind')
      /\ Cardinality(OffBefore') <= Cardinality(OffBefore)
      /\ Cardinality(OffBehind') <= Cardinality(OffBehind)
      /\ Cardinality(OffBefore') = Cardinality(OffBefore) => OffBefore' = OffBefore
      /\ Cardinality(OffBehind') = Cardinality(OffBehind) => OffBehind' = OffBehind
  <2>1. OffBefore' \in SUBSET OffBefore /\ OffBehind' \in SUBSET OffBehind
    BY DEF OffShrinks
  <2> QED
    BY <1>1, <2>1, FS_Subset
<1>3. /\ Cardinality(OffBefore) \in Nat /\ Cardinality(OffBehind) \in Nat
      /\ Cardinality(OffBefore') \in Nat /\ Cardinality(OffBehind') \in Nat
  BY <1>1, <1>2, FS_CardinalityType
<1>4. OffBefore' # OffBefore \/ OffBehind' # OffBehind
  BY DEF OffShrinks, Off
<1> QED
  BY <1>2, <1>3, <1>4 DEF OffCount

LEMMA Products ==
  /\ Pass \in Nat /\ PerTemp \in Nat
  /\ \A a \in Nat : a * Pass \in Nat /\ a * PerTemp \in Nat
  /\ \A a, b \in Nat : a < b => a * Pass + Pass <= b * Pass /\ a * PerTemp + PerTemp <= b * PerTemp
  /\ \A a \in Nat : a <= 2 * NumCommands => a * Pass <= 2 * NumCommands * Pass
<1>1. Pass \in Nat
  BY LivenessAssumption DEF Pass
<1>2. PerTemp \in Nat
  <2>1. 2 * NumCommands * Pass \in Nat
    BY <1>1, LivenessAssumption, TimesInNat
  <2> QED
    BY <2>1, LivenessAssumption DEF PerTemp
<1> QED
  BY <1>1, <1>2, LivenessAssumption, TimesInNat, TimesMonotone

LEMMA StepsOfTempInNat ==
  ASSUME LInv, pc \in {"scan", "compare", "report"}
  PROVE  StepsOfTemp \in Nat
<1>1. OffCount * Pass \in Nat
  BY OffCounts, Products DEF LInv
<1>2. NumCommands - n \in Nat
  BY LivenessAssumption DEF LInv, TypeOK
<1> QED
  BY <1>1, <1>2 DEF StepsOfTemp

LEMMA StepsLeftInNat == LInv => StepsLeft \in Nat
<1> SUFFICES ASSUME LInv
             PROVE  StepsLeft \in Nat
  OBVIOUS
<1>1. CASE pc = "done"
  BY <1>1 DEF StepsLeft
<1>2. CASE pc = "next_temp"
  <2>1. NumTemporaries - temp \in Nat
    BY LivenessAssumption DEF LInv, TypeOK
  <2>2. (NumTemporaries - temp) * PerTemp \in Nat
    BY <2>1, Products
  <2> QED
    BY <1>2, <2>2 DEF StepsLeft
<1>3. CASE pc \in {"scan", "compare", "report"}
  <2>1. NumTemporaries - temp - 1 \in Nat
    BY <1>3, LivenessAssumption DEF LInv, TypeOK, Counter
  <2>2. (NumTemporaries - temp - 1) * PerTemp \in Nat
    BY <2>1, Products
  <2> QED
    BY <1>3, <2>2, StepsOfTempInNat DEF StepsLeft
<1> QED
  BY <1>1, <1>2, <1>3 DEF LInv, TypeOK

\* Within the passes for one temporary only the steps for it count.
LEMMA SameTemp ==
  ASSUME LInv, LInv', UNCHANGED temp,
         pc \in {"scan", "compare", "report"}, pc' \in {"scan", "compare", "report"},
         StepsOfTemp' < StepsOfTemp
  PROVE  StepsLeft' < StepsLeft
<1>1. StepsOfTemp \in Nat /\ StepsOfTemp' \in Nat
  <2>1. (LInv /\ pc \in {"scan", "compare", "report"} => StepsOfTemp \in Nat)'
    BY StepsOfTempInNat, PTL
  <2> QED
    BY <2>1, StepsOfTempInNat
<1>2. PICK k \in Nat : k = (NumTemporaries - temp - 1) * PerTemp
  <2>1. NumTemporaries - temp - 1 \in Nat
    BY LivenessAssumption DEF LInv, TypeOK, Counter
  <2> QED
    BY <2>1, Products
<1>3. PICK x, y \in Nat : x = StepsOfTemp /\ y = StepsOfTemp' /\ y < x
  BY <1>1
<1>4. StepsLeft = k + x + 1 /\ StepsLeft' = k + y + 1
  BY <1>2, <1>3 DEF StepsLeft
<1>5. k + y + 1 < k + x + 1
  <2>1. k \in Nat /\ x \in Nat /\ y \in Nat
    OBVIOUS
  <2>2. y < x
    BY ONLY <1>3
  <2> QED
    BY ONLY <2>1, <2>2
<1> QED
  BY ONLY <1>4, <1>5

LEMMA EveryStepCounts == LInv /\ Kept /\ Next => StepsLeft' < StepsLeft
<1> SUFFICES ASSUME LInv, Kept, Next
             PROVE  StepsLeft' < StepsLeft
  OBVIOUS
<1>1. LInv'
  BY NextLInv
<1>2. /\ temp \in Int /\ n \in Int
      /\ OffCount \in Nat /\ OffCount' \in Nat /\ OffCount' <= 2 * NumCommands
      /\ OffCount * Pass \in Nat /\ OffCount' * Pass \in Nat
  <2>1. TypeOK /\ TypeOK'
    BY <1>1 DEF LInv
  <2>2. (TypeOK => OffCount \in Nat /\ OffCount <= 2 * NumCommands)'
    BY OffCounts, PTL
  <2> QED
    BY <2>1, <2>2, OffCounts, Products DEF TypeOK
<1>3. CASE StartTemp
  <2>1. /\ pc = "next_temp" /\ pc' = "scan" /\ temp' = temp /\ n' = 0
        /\ NumTemporaries - temp - 1 \in Nat
    BY <1>3, LivenessAssumption DEF StartTemp, LInv, TypeOK
  <2>2. StepsOfTemp' < PerTemp
    <3>1. OffCount' * Pass <= 2 * NumCommands * Pass
      BY <1>2, Products
    <3>2. StepsOfTemp' = OffCount' * Pass + NumCommands + 3
      BY <2>1, <1>2, LivenessAssumption DEF StepsOfTemp
    <3>3. 2 * NumCommands * Pass \in Nat
      BY LivenessAssumption, Products
    <3> QED
      BY <3>1, <3>2, <3>3, <1>2, LivenessAssumption DEF PerTemp
  <2>3. StepsOfTemp' \in Nat
    <3>1. (LInv /\ pc \in {"scan", "compare", "report"} => StepsOfTemp \in Nat)'
      BY StepsOfTempInNat, PTL
    <3> QED
      BY <3>1, <2>1, <1>1
  <2>4. PICK k, j \in Nat : /\ k = (NumTemporaries - temp - 1) * PerTemp
                            /\ j = (NumTemporaries - temp) * PerTemp
                            /\ k + PerTemp <= j
    <3>1. NumTemporaries - temp \in Nat /\ NumTemporaries - temp - 1 < NumTemporaries - temp
      BY <2>1, <1>2, LivenessAssumption
    <3> QED
      BY <3>1, <2>1, Products
  <2>5. StepsLeft = j + 1 /\ StepsLeft' = k + StepsOfTemp' + 1
    BY <2>1, <2>4 DEF StepsLeft
  <2> QED
    BY <2>2, <2>3, <2>4, <2>5, Products
<1>4. CASE ScanCommand
  <2>1. /\ pc = "scan" /\ pc' = "scan" /\ n' = n + 1 /\ temp' = temp
    BY <1>4 DEF ScanCommand
  <2>2. OffCount' = OffCount
    BY <1>4, ScanOff DEF Off, OffCount
  <2>3. StepsOfTemp' < StepsOfTemp
    BY <2>1, <2>2, <1>2, LivenessAssumption DEF StepsOfTemp
  <2> QED
    BY <1>1, <2>1, <2>3, SameTemp
<1>5. CASE EndPass
  <2>1. /\ pc = "scan" /\ pc' = "compare" /\ n = NumCommands /\ temp' = temp
        /\ OffCount' = OffCount
    BY <1>5 DEF EndPass, OffCount, OffBefore, OffBehind
  <2>2. StepsOfTemp' < StepsOfTemp
    BY <2>1, <1>2, LivenessAssumption DEF StepsOfTemp
  <2> QED
    BY <1>1, <2>1, <2>2, SameTemp
<1>6. CASE Compare
  <2>1. pc = "compare" /\ temp' = temp /\ (pc' = "scan" \/ pc' = "report")
    BY <1>6 DEF Compare
  <2>2. CASE pc' = "report"
    <3>1. StepsOfTemp' < StepsOfTemp
      BY <2>1, <2>2, <1>2 DEF StepsOfTemp
    <3> QED
      BY <1>1, <2>1, <2>2, <3>1, SameTemp
  <2>3. CASE pc' = "scan"
    <3>1. n' = 0
      BY <1>6, <2>3 DEF Compare
    <3>2. OffCount' < OffCount
      <4>1. OffShrinks
        BY <1>6, <2>3, CompareOff
      <4> QED
        BY <4>1, <1>1, ShrinksCount DEF LInv
    <3>3. OffCount' * Pass + Pass <= OffCount * Pass
      BY <3>2, <1>2, Products
    <3>4. StepsOfTemp' = OffCount' * Pass + NumCommands + 3 /\ StepsOfTemp = OffCount * Pass + 2
      BY <2>1, <2>3, <3>1, <1>2, LivenessAssumption DEF StepsOfTemp
    <3>5. Pass = NumCommands + 2 /\ NumCommands \in Nat
      BY LivenessAssumption DEF Pass
    <3>6. PICK x, y \in Nat : x = OffCount * Pass /\ y = OffCount' * Pass
      BY <1>2
    <3>7. StepsOfTemp' < StepsOfTemp
      BY <3>3, <3>4, <3>5, <3>6
    <3> QED
      BY <1>1, <2>1, <2>3, <3>7, SameTemp
  <2> QED
    BY <2>1, <2>2, <2>3
<1>7. CASE Report
  <2>1. pc = "report" /\ pc' = "next_temp" /\ temp' = temp + 1
    BY <1>7 DEF Report
  <2>2. PICK k \in Nat : k = (NumTemporaries - temp - 1) * PerTemp
    <3>1. NumTemporaries - temp - 1 \in Nat
      BY <2>1, LivenessAssumption DEF LInv, TypeOK, Counter
    <3> QED
      BY <3>1, Products
  <2>3. NumTemporaries - temp' = NumTemporaries - temp - 1
    BY <2>1, <1>2, LivenessAssumption
  <2>4. StepsLeft = k + 1 + 1 /\ StepsLeft' = k + 1
    BY <2>1, <2>2, <2>3 DEF StepsLeft, StepsOfTemp
  <2> QED
    BY <2>2, <2>4
<1>8. CASE Finish
  <2>1. pc = "next_temp" /\ pc' = "done" /\ temp = NumTemporaries
    BY <1>8 DEF Finish
  <2>2. (NumTemporaries - temp) * PerTemp = 0
    BY <2>1, LivenessAssumption, Products
  <2> QED
    BY <2>1, <2>2 DEF StepsLeft
<1> QED
  BY <1>3, <1>4, <1>5, <1>6, <1>7, <1>8 DEF Next

(***************************************************************************)
(* The loops end: the analysis takes no more steps than StepsLeft says,    *)
(* a number that every step makes smaller. Another pass over the commands  *)
(* follows only on one that marked a cell, which stays marked, and there   *)
(* are two cells for each command. What is left to termination is that the *)
(* tool is never held up.                                                  *)
(***************************************************************************)
THEOREM PassesEnd ==
  Spec => /\ StepsLeft = NumTemporaries * PerTemp + 1
          /\ [](StepsLeft \in Nat)
          /\ [][StepsLeft' < StepsLeft]_vars
<1>1. Spec => []Kept
  BY InitKept, NextKept, LivenessInvariance, PTL DEF Spec
<1>2. Init => StepsLeft = NumTemporaries * PerTemp + 1
  <2> SUFFICES ASSUME Init
               PROVE  StepsLeft = NumTemporaries * PerTemp + 1
    OBVIOUS
  <2>1. pc = "next_temp" /\ temp = 0 /\ NumTemporaries - 0 = NumTemporaries
    BY LivenessAssumption DEF Init, Start
  <2> QED
    BY <2>1 DEF StepsLeft
<1> QED
  BY <1>1, <1>2, StepsLeftInNat, EveryStepCounts, LivenessInvariance, PTL DEF Spec
=============================================================================
