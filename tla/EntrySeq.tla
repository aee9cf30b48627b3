------------------------------ MODULE EntrySeq ------------------------------
(***************************************************************************)
(* What the entry list of one section promises the passes that edit it:    *)
(* the section is a sequence of entries, and the entries a pass has in its *)
(* hands but not in the section form chains.  No pointer, and no record of *)
(* where a function or a subsection begins, appears here; EntryList is the *)
(* pointer structure that implements this.                                 *)
(*                                                                         *)
(* The promise ends where the list is torn.  Removing entries may tear it, *)
(* and still removes just these; inserting a chain does not tear it unless *)
(* all of the chain but its last entry is lost.                            *)
(***************************************************************************)
EXTENDS Naturals, SequencesExt

CONSTANT Entries    \* the entries a run of MAO can ever allocate

VARIABLES
  text,             \* the section, from its first entry to its last
  chains,           \* the chains held by a pass: created or unlinked entries
  torn              \* an edit at the end of a subsection spoiled links

vars == <<text, chains, torn>>

Without(s, i, j) == SubSeq(s, 1, i - 1) \o SubSeq(s, j + 1, Len(s))

Init ==
  /\ text \in Seq(Entries)
  /\ IsInjective(text)
  /\ chains = {}
  /\ torn = FALSE

\* A new entry is a chain of its own until it is linked somewhere.
Create ==
  /\ \E e \in Entries \ Range(text) : chains' = chains \cup {<<e>>}
  /\ UNCHANGED <<text, torn>>

\* A whole held chain goes, in its order, between two neighbours.
With(s, i, c) == SubSeq(s, 1, i) \o c \o SubSeq(s, i + 1, Len(s))
Insert ==
  \E c \in chains, i \in 0 .. Len(text) :
    /\ text' = With(text, i, c)
    /\ chains' = chains \ {c}
    /\ UNCHANGED torn

\* Of a chain of several entries only the last one arrives.
InsertLast ==
  \E c \in chains, i \in 1 .. Len(text) :
    /\ Len(c) > 1
    /\ text' = With(text, i, <<Last(c)>>)
    /\ chains' = chains \ {c}
    /\ torn' = TRUE

\* A run of entries leaves the section and stays in one piece.
TakeOut ==
  \E i \in 1 .. Len(text) : \E j \in i .. Len(text) :
    /\ text' = Without(text, i, j)
    /\ chains' = chains \cup {SubSeq(text, i, j)}
    /\ torn' \in BOOLEAN

\* One entry leaves the section for good.
Delete ==
  /\ \E i \in 1 .. Len(text) : text' = Without(text, i, i)
  /\ torn' \in BOOLEAN
  /\ UNCHANGED chains

Next == ~torn /\ (Create \/ Insert \/ InsertLast \/ TakeOut \/ Delete)

Spec == Init /\ [][Next]_vars
=============================================================================
