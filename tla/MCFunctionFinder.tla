-------------------------- MODULE MCFunctionFinder --------------------------
(***************************************************************************)
(* Files of a few statements with two labels, in a code and a data section. *)
(***************************************************************************)
EXTENDS FunctionFinder

MCNames == {".text", ".data"}
MCNumbers == {0}
MCLabels == {"f", "g"}
MCSymbolOrder == <<"f", "g">>
=============================================================================
