----------------------------- MODULE ControlFlow -----------------------------
(***************************************************************************)
(* Where a processor may go from an instruction of a function's text: what *)
(* a control-flow graph of the function has to say.  Labels and directives *)
(* are no places to be at, so the places are the positions of the          *)
(* instructions, EXIT for leaving the function and ELSEWHERE for a label   *)
(* that is not in the text.                                                *)
(***************************************************************************)
EXTENDS Integers, Sequences, FiniteSetsExt

EXIT == 0
ELSEWHERE == -1

NoInstruction == {"size", "data", "other", "label"}
Instructions(t) == {p \in DOMAIN t : t[p].kind \notin NoInstruction}

\* The first instruction at or after position p.
From(t, p) ==
  LET ahead == {q \in Instructions(t) : q >= p} IN
  IF ahead = {} THEN EXIT ELSE Min(ahead)

\* Where a jump to the label arrives.
At(t, l) ==
  LET ps == {p \in DOMAIN t : t[p].kind = "label" /\ t[p].name = l} IN
  IF ps = {} THEN ELSEWHERE ELSE From(t, Min(ps))

\* The instructions that the computed jump of a va_arg prologue chooses from:
\* the stores of the vector registers that come after it, with or without
\* labels between them, and what comes after the stores.
Prologue(t, p) ==
  LET stores == {q \in p + 1 .. Len(t) :
                   /\ t[q].kind = "movaps"
                   /\ \A r \in p + 1 .. q : t[r].kind \in {"movaps", "label"}}
  IN IF stores = {} THEN {} ELSE stores \cup {From(t, Max(stores) + 1)}

\* A computed jump that nothing is known of leaves the function.
Successors(t, p) ==
  LET next == {From(t, p + 1)}
      jump == {At(t, l) : l \in t[p].to}
  IN CASE t[p].kind = "jcc" -> next \cup jump
       [] t[p].kind \in {"jmp", "table"} -> jump
       [] t[p].kind \in {"ret", "tail"} -> {EXIT}
       [] t[p].kind = "ijmp" -> IF Prologue(t, p) = {} THEN {EXIT} ELSE Prologue(t, p)
       [] OTHER -> next
=============================================================================
