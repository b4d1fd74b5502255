---------------------------- MODULE SymbolTable ----------------------------
(***************************************************************************)
(* An environment of the compiler (table.c, and the scopes of symbol.c on  *)
(* top of it): a hash table with chained buckets that is changed in place. *)
(* Nothing is copied when a scope opens; the key entered last is in top,   *)
(* every binder notes the top before it (prevtop), and closing a scope     *)
(* pops binders until it meets the mark.                                   *)
(*                                                                         *)
(* The bucket of a key is its address modulo TABSIZE: hash stands for any  *)
(* assignment of buckets.  A bucket is the sequence of its binders, first  *)
(* the one its pointer leads to.                                           *)
(***************************************************************************)
EXTENDS Integers, Sequences, SequencesExt

CONSTANTS
  Symbol,
  Value,          \* values entered; a NULL among them is what S_look gives for "not there"
  NULL,
  marksym,        \* the key that opens a scope
  TABSIZE,
  MaxBinders      \* bound: binders in the table

Key == Symbol \cup {marksym}
Bucket == 0 .. TABSIZE - 1

ASSUME SymbolTableAssumption ==
  /\ TABSIZE \in Nat \ {0}
  /\ MaxBinders \in Nat
  /\ marksym \notin Symbol
  /\ NULL \notin Key

Binder == [key : Key, value : Value \cup {NULL}, prevtop : Key \cup {NULL}]

VARIABLES
  hash,     \* the bucket of a key
  table,    \* the buckets
  top,      \* the key entered last, NULL in an empty table
  closing,  \* S_endScope is in its loop
  calls,    \* the calls of TAB_dump that have not returned: their k, b and b->next
  showing,  \* TAB_dump has not come back from its innermost call
  saved     \* history: what could be looked up in each scope when a younger one opened,
            \* and, while S_endScope or TAB_dump is at work, when it began

vars == <<hash, table, top, closing, calls, showing, saved>>

Idle == ~closing /\ calls = <<>>
Size == FoldFunction(LAMBDA bucket, sum : sum + Len(bucket), 0, table)

Init ==
  /\ hash \in [Key -> Bucket]
  /\ table = [b \in Bucket |-> <<>>]
  /\ top = NULL
  /\ closing = FALSE
  /\ calls = <<>>
  /\ showing = FALSE
  /\ saved = <<>>

-----------------------------------------------------------------------------
\* With top NULL the bucket is number 0: the address 0 modulo TABSIZE.
BucketOf(key) == IF key = NULL THEN 0 ELSE hash[key]

\* Mutants of Enter: key and value swapped, and top set before the binder notes it.
EnterValueAsKey(key, value) ==
  /\ table' = [table EXCEPT ![hash[key]] =
                 <<[key |-> value, value |-> key, prevtop |-> top]>> \o @]
  /\ top' = value

EnterTopFirst(key, value) ==
  /\ table' = [table EXCEPT ![hash[key]] =
                 <<[key |-> key, value |-> value, prevtop |-> key]>> \o @]
  /\ top' = key

Enter(key, value) ==
  /\ table' = [table EXCEPT ![hash[key]] =
                 <<[key |-> key, value |-> value, prevtop |-> top]>> \o @]
  /\ top' = key

\* The places in a key's bucket at which it stands.
Places(key) == {p \in DOMAIN table[hash[key]] : table[hash[key]][p].key = key}

Look(key) == table[hash[key]][Min(Places(key))]

TAB_look(key) == IF Places(key) = {} THEN NULL ELSE Look(key).value

\* Unlink the binder behind top.
Unlink ==
  /\ table' = [table EXCEPT ![BucketOf(top)] = Tail(@)]
  /\ top' = Head(table[BucketOf(top)]).prevtop

Visible == [s \in Symbol |-> TAB_look(s)]

-----------------------------------------------------------------------------
S_enter(symbol, value) ==
  /\ Idle
  /\ Size < MaxBinders
  /\ Enter(symbol, value)
  /\ UNCHANGED <<hash, closing, calls, showing, saved>>

S_beginScope ==
  /\ Idle
  /\ Size < MaxBinders
  /\ Enter(marksym, NULL)
  /\ saved' = Append(saved, Visible)
  /\ UNCHANGED <<hash, closing, calls, showing>>

\* No caller closes a scope that it has not opened.
S_endScope ==
  /\ Idle
  /\ saved # <<>>
  /\ closing' = TRUE
  /\ saved' = Append(saved, Visible)
  /\ UNCHANGED <<hash, table, top, calls, showing>>

\* A mutant of TAB_pop: the loop is left after one binder.
TAB_popOnce ==
  /\ closing
  /\ Unlink
  /\ closing' = FALSE
  /\ saved' = Front(Front(saved))
  /\ UNCHANGED <<hash, calls, showing>>

TAB_pop ==
  /\ closing
  /\ Unlink
  /\ IF Head(table[hash[top]]).key = marksym
       THEN closing' = FALSE /\ saved' = Front(Front(saved))
       ELSE UNCHANGED <<closing, saved>>
  /\ UNCHANGED <<hash, calls, showing>>

(***************************************************************************)
(* TAB_dump takes the newest binder off, shows it, calls itself for the    *)
(* rest, and puts the binder back.                                         *)
(***************************************************************************)
TakeAndShow ==
  LET bucket == table[BucketOf(top)] IN
  /\ bucket # <<>>
  /\ Unlink
  /\ calls' = Append(calls, [k |-> top, b |-> Head(bucket), next |-> Tail(bucket)])
  /\ UNCHANGED <<hash, closing>>

TAB_dump ==
  /\ Idle
  /\ TakeAndShow
  /\ showing' = TRUE
  /\ saved' = Append(saved, Visible)

DumpRest ==
  /\ showing
  /\ TakeAndShow
  /\ UNCHANGED <<showing, saved>>

NothingLeft ==
  /\ showing
  /\ table[BucketOf(top)] = <<>>
  /\ showing' = FALSE
  /\ UNCHANGED <<hash, table, top, closing, calls, saved>>

\* A mutant of PutBack: top stays what the innermost call made of it.
PutBackKeepingTop ==
  /\ calls # <<>> /\ ~showing
  /\ LET call == Last(calls) IN
       table' = [table EXCEPT ![BucketOf(call.k)] = <<call.b>> \o call.next]
  /\ calls' = Front(calls)
  /\ saved' = IF Len(calls) = 1 THEN Front(saved) ELSE saved
  /\ UNCHANGED <<hash, top, closing, showing>>

\* The call for the rest has returned.
PutBack ==
  /\ calls # <<>> /\ ~showing
  /\ LET call == Last(calls) IN
       /\ table' = [table EXCEPT ![BucketOf(call.k)] = <<call.b>> \o call.next]
       /\ top' = call.k
  /\ calls' = Front(calls)
  /\ saved' = IF Len(calls) = 1 THEN Front(saved) ELSE saved
  /\ UNCHANGED <<hash, closing, showing>>

Next ==
  \/ \E s \in Symbol, v \in Value : S_enter(s, v)
  \/ S_beginScope \/ S_endScope \/ TAB_pop
  \/ TAB_dump \/ DumpRest \/ NothingLeft \/ PutBack

Spec == Init /\ [][Next]_vars

-----------------------------------------------------------------------------
Call == [k : Key, b : Binder, next : Seq(Binder)]

(***************************************************************************)
(* Every variable has its type; in particular the keys kept in top and in  *)
(* the binders are keys, and nothing is left over of a dump.               *)
(***************************************************************************)
TypeOK ==
  /\ hash \in [Key -> Bucket]
  /\ table \in [Bucket -> Seq(Binder)]
  /\ top \in Key \cup {NULL}
  /\ closing \in BOOLEAN
  /\ calls \in Seq(Call)
  /\ showing \in BOOLEAN
  /\ saved \in Seq([Symbol -> Value \cup {NULL}])

(***************************************************************************)
(* What TAB_pop asserts, and TAB_dump relies on, in every state, those in  *)
(* the middle of closing a scope and of a dump included: behind top there  *)
(* is a binder at the head of its bucket, and it has that key; top is NULL *)
(* only when every bucket is empty; the loop of S_endScope has a mark      *)
(* ahead.  Keys of different scopes share buckets, so that one wrong link  *)
(* takes off another key, and it shows only several pops later.            *)
(***************************************************************************)
PopsFindTheirKey ==
  /\ top # NULL => /\ table[hash[top]] # <<>>
                   /\ Head(table[hash[top]]).key = top
  /\ top = NULL => \A b \in Bucket : table[b] = <<>>
  /\ closing => \E p \in DOMAIN table[hash[marksym]] : table[hash[marksym]][p].key = marksym

(***************************************************************************)
(* The assertion in TAB_dump: when the call for the rest has returned, top *)
(* and the bucket are as they were before it.  And every binder was shown: *)
(* the innermost call has found all the buckets empty, not only its own.   *)
(***************************************************************************)
DumpUndone ==
  /\ calls # <<>> /\ ~showing =>
       /\ top = Last(calls).b.prevtop
       /\ table[BucketOf(Last(calls).k)] = Last(calls).next
  /\ showing /\ table[BucketOf(top)] = <<>> => \A b \in Bucket : table[b] = <<>>

(***************************************************************************)
(* The youngest binding counts: once a symbol is entered, its look-up      *)
(* gives that value, be it bound before in this scope or around it, and    *)
(* every other look-up gives what it gave.                                 *)
(***************************************************************************)
EnteredIsFound ==
  [][\A s \in Symbol, v \in Value :
       S_enter(s, v) => Visible' = [Visible EXCEPT ![s] = v]]_vars

-----------------------------------------------------------------------------
Abstract == INSTANCE ScopedMap WITH
  Unbound <- NULL, scopes <- IF Idle THEN Append(saved, Visible) ELSE saved

(***************************************************************************)
(* The table that is changed in place behaves like a stack of scopes:      *)
(* closing a scope brings back exactly what could be looked up when it was *)
(* opened, through shadowing and shared buckets, and printing the table,   *)
(* which takes it apart, leaves it as it was.                              *)
(***************************************************************************)
ImplementsScopedMap == Abstract!Spec
=============================================================================
