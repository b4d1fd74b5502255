--------------------------- MODULE MCSymbolTable ---------------------------
(* Two symbols and the mark in two buckets, any of them in any bucket; a   *)
(* symbol may be entered with nothing, as a parameter of unknown type is.  *)
EXTENDS SymbolTable

Values == {"value", NULL}
=============================================================================
