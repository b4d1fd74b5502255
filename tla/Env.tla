--------------------------------- MODULE Env ---------------------------------
(***************************************************************************)
(* An environment as the passes over the tree use it (env.c, symbol.c): a  *)
(* stack of scopes, the innermost one last, each a function from names to  *)
(* values. SymbolTable_proofs shows that the hash table and this stack     *)
(* keep the same promise. A scope that is opened and never closed is one   *)
(* scope too many from then on.                                            *)
(***************************************************************************)
EXTENDS Sequences, SequencesExt

\* The null pointer; every value that has a name is a record with a kind k.
NULL == [k |-> "NULL"]

S_empty == <<<<>>>>

S_enter(env, name, value) ==
  [env EXCEPT ![Len(env)] =
     [x \in DOMAIN @ \cup {name} |-> IF x = name THEN value ELSE @[x]]]

S_look(env, name) == IF name \in DOMAIN Last(env) THEN Last(env)[name] ELSE NULL

S_beginScope(env) == Append(env, Last(env))

S_endScope(env) == Front(env)
=============================================================================
