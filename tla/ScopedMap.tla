----------------------------- MODULE ScopedMap -----------------------------
(***************************************************************************)
(* What the environments of the compiler promise: a stack of scopes, each  *)
(* a function from symbols to values in which the innermost binding of a   *)
(* symbol counts, and closing a scope brings back what was visible before  *)
(* it was opened.                                                          *)
(***************************************************************************)
EXTENDS Sequences, SequencesExt

CONSTANTS
  Symbol,
  Value,     \* what a symbol may be bound to
  Unbound    \* what a look-up gives for a symbol that is not bound

VARIABLE scopes    \* the innermost scope comes last

Init == scopes = <<[s \in Symbol |-> Unbound]>>

Enter(s, v) ==
  scopes' = [scopes EXCEPT ![Len(scopes)] = [@ EXCEPT ![s] = v]]

BeginScope == scopes' = Append(scopes, Last(scopes))

EndScope ==
  /\ Len(scopes) > 1
  /\ scopes' = Front(scopes)

Next == BeginScope \/ EndScope \/ \E s \in Symbol, v \in Value : Enter(s, v)

Spec == Init /\ [][Next]_scopes
=============================================================================
