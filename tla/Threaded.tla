------------------------------ MODULE Threaded ------------------------------
(***************************************************************************)
(* Passes over a list that hand a state on from one element to the next.   *)
(***************************************************************************)
EXTENDS Integers, Sequences

\* result(value), where value is computed once however often result uses it.
Once(value, result(_)) == CHOOSE r \in {result(v) : v \in {value}} : TRUE

\* step over xs from the first to the last, by halves; a state is computed before it is handed on.
Thread(step(_, _), start, xs) ==
  LET RECURSIVE Run(_, _, _)
      Run(state, first, last) ==
        LET middle == (first + last) \div 2
        IN  CASE first > last -> state
              [] first = last -> step(state, xs[first])
              [] first < last -> Once(Run(state, first, middle), LAMBDA s : Run(s, middle + 1, last))
  IN  Once(Run(start, 1, Len(xs)), LAMBDA s : s)
=============================================================================
