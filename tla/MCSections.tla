----------------------------- MODULE MCSections -----------------------------
(***************************************************************************)
(* Every file of a few statements over two sections and two numbers.  One   *)
(* with a label, or a .size, is a statement shorter.                       *)
(***************************************************************************)
EXTENDS Sections

MCNames == {".text", ".foo"}
MCNumbers == {0, 1}
MCLabels == {"f"}

Labelled == \E e \in DOMAIN unit.entries : unit.entries[e].kind \in {"label", "size"}
Bound == Labelled => Len(unit.entries) <= MaxEntries - 3
=============================================================================
