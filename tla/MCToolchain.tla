---------------------------- MODULE MCToolchain ----------------------------
(***************************************************************************)
(* Model checking of Toolchain: a source for everything that may happen to *)
(* one, next to two good ones.                                             *)
(***************************************************************************)
EXTENDS Toolchain

Good(name) ==
  [name |-> name, parses |-> TRUE, compiles |-> "silently", readable |-> TRUE, fits |-> TRUE, colourable |-> TRUE]

AllSources ==
  {Good("first"), Good("second"),
   [Good("no program") EXCEPT !.parses = FALSE],
   [Good("with errors") EXCEPT !.compiles = "with messages"],
   [Good("crash before") EXCEPT !.compiles = "crash before"],
   [Good("crash after") EXCEPT !.compiles = "crash after"],
   [Good("dividing") EXCEPT !.readable = FALSE],
   [Good("long") EXCEPT !.fits = FALSE],
   [Good("crowded") EXCEPT !.colourable = FALSE]}
=============================================================================
