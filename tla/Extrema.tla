------------------------------ MODULE Extrema ------------------------------
(***************************************************************************)
(* What the proofs rest on beside the library: Min and Max of a set of     *)
(* numbers, and induction on the natural numbers in the form of a set, for *)
(* the loops that are written as recursive functions.                      *)
(***************************************************************************)
EXTENDS Integers, FiniteSetsExt, WellFoundedInduction, TLAPS

\* A set of naturals that is not empty has a least element, so Min is one of its elements.
LEMMA MinIn ==
  ASSUME NEW T, T \subseteq Nat, T # {}
  PROVE  Min(T) \in T /\ \A y \in T : Min(T) <= y
<1> DEFINE Below == OpToRel(<, Nat)
<1>1. \E x \in T : \A y \in T : ~(<<y, x>> \in Below)
  <2> HIDE DEF Below
  <2>1. IsWellFoundedOn(Below, Nat)
    BY NatLessThanWellFounded DEF Below
  <2> QED
    BY <2>1, WFMin
<1>2. \A x, y \in Nat : x < y => <<x, y>> \in Below
  BY DEF OpToRel
<1>3. \A x, y \in T : ~(<<y, x>> \in Below) => x <= y
  <2> HIDE DEF Below
  <2>1. \A x, y \in Nat : ~(y < x) => x <= y
    OBVIOUS
  <2> QED
    BY <1>2, <2>1
<1>4. \E x \in T : \A y \in T : x <= y
  <2> HIDE DEF Below
  <2> QED
    BY <1>1, <1>3
<1> QED
  BY <1>4 DEF Min

\* Of a set of naturals that has a bound, Max is an element too.
LEMMA MaxIn ==
  ASSUME NEW b \in Nat, NEW T, T \subseteq 0 .. b, T # {}
  PROVE  Max(T) \in T /\ \A y \in T : y <= Max(T)
<1> DEFINE U == {b - x : x \in T}
<1>1. U \subseteq Nat /\ U # {}
  <2>1. \A x \in T : x \in Int /\ 0 <= x /\ x <= b
    OBVIOUS
  <2>2. \A x \in T : b - x \in Nat
    BY <2>1
  <2> QED
    BY <2>2
<1>2. Min(U) \in U /\ \A y \in U : Min(U) <= y
  <2> HIDE DEF U
  <2> QED
    BY <1>1, MinIn
<1>3. PICK m \in T : Min(U) = b - m
  BY <1>2
<1>4. \A y \in T : b - m <= b - y
  BY <1>2, <1>3
<1>5. \A y \in T : y <= m
  BY <1>3, <1>4
<1> QED
  BY <1>5 DEF Max

-----------------------------------------------------------------------------
\* A set with 0 and with every successor of its numbers has all natural numbers.
LEMMA Induction ==
  ASSUME NEW S, 0 \in S, \A k \in Nat : k \in S => k + 1 \in S
  PROVE  Nat \subseteq S
<1> DEFINE T == {k \in Nat : k \notin S}
<1> SUFFICES ASSUME T # {}
             PROVE  FALSE
  OBVIOUS
<1>1. Min(T) \in T /\ \A y \in T : Min(T) <= y
  BY MinIn
<1>2. PICK m \in Nat : m \notin S /\ \A y \in T : m <= y
  BY <1>1
<1>3. m # 0 /\ m - 1 \in Nat /\ m - 1 < m
  BY <1>2
<1>4. m - 1 \in S
  <2>1. m - 1 \notin T
    BY <1>2, <1>3
  <2> QED
    BY <2>1, <1>3
<1> QED
  BY <1>2, <1>3, <1>4

\* Two facts about products, for numbers that count what is left of nested loops.
LEMMA TimesInNat == \A a, c \in Nat : a * c \in Nat
OBVIOUS

LEMMA TimesMonotone ==
  ASSUME NEW a \in Nat, NEW b \in Nat, NEW c \in Nat
  PROVE  (a <= b => a * c <= b * c) /\ (a < b => a * c + c <= b * c)
OBVIOUS

-----------------------------------------------------------------------------
\* The values of a loop of N rounds that starts from b, round m making F[m][x] of x; there are such.
LoopValues(N, T, b, F) ==
  {f \in [0 .. N -> T] : f[0] = b /\ \A m \in 1 .. N : f[m] = F[m][f[m - 1]]}

LEMMA LoopHasValues ==
  ASSUME NEW N \in Nat, NEW T, NEW b \in T, NEW F \in [1 .. N -> [T -> T]]
  PROVE  LoopValues(N, T, b, F) # {}
<1> DEFINE Runs(f, n) == /\ f \in [0 .. n -> T] /\ f[0] = b
                         /\ \A m \in 1 .. n : f[m] = F[m][f[m - 1]]
           S == {n \in Nat : n <= N => \E f : Runs(f, n)}
<1>1. 0 \in S
  <2>1. Runs([m \in 0 .. 0 |-> b], 0)
    OBVIOUS
  <2> QED
    BY <2>1
<1>2. ASSUME NEW k \in Nat, k \in S
      PROVE  k + 1 \in S
  <2> SUFFICES ASSUME k + 1 <= N
               PROVE  \E f : Runs(f, k + 1)
    OBVIOUS
  <2>1. PICK f : Runs(f, k)
    BY <1>2
  <2> DEFINE next == F[k + 1][f[k]]
             g == [m \in 0 .. k + 1 |-> IF m = k + 1 THEN next ELSE f[m]]
  <2>2. next \in T
    <3>1. f[k] \in T /\ k + 1 \in 1 .. N
      BY <2>1
    <3> QED
      BY <3>1
  <2>3. g \in [0 .. k + 1 -> T]
    <3> HIDE DEF next
    <3>1. \A m \in 0 .. k + 1 : m # k + 1 => m \in 0 .. k
      OBVIOUS
    <3>2. \A m \in 0 .. k : f[m] \in T
      BY <2>1
    <3> QED
      BY <2>2, <3>1, <3>2
  <2>4. g[0] = b
    BY <2>1
  <2>5. ASSUME NEW m \in 1 .. k + 1
        PROVE  g[m] = F[m][g[m - 1]]
    <3>1. g[m - 1] = f[m - 1]
      OBVIOUS
    <3>2. CASE m = k + 1
      BY <3>1, <3>2
    <3>3. CASE m # k + 1
      <4>1. g[m] = f[m] /\ m \in 1 .. k
        BY <3>3
      <4>2. f[m] = F[m][f[m - 1]]
        BY <4>1, <2>1
      <4> QED
        BY <3>1, <4>1, <4>2
    <3> QED
      BY <3>2, <3>3
  <2>6. Runs(g, k + 1)
    <3> HIDE DEF g
    <3> QED
      BY <2>3, <2>4, <2>5
  <2> QED
    BY <2>6
<1>3. Nat \subseteq S
  <2> HIDE DEF S
  <2> QED
    BY <1>1, <1>2, Induction
<1>4. \E f : Runs(f, N)
  BY <1>3
<1> QED
  BY <1>4 DEF LoopValues
=============================================================================
