----------------------------- MODULE MCRelaxer -----------------------------
(***************************************************************************)
(* Sections around the reach of a short jump: every section of a few       *)
(* entries, and longer ones in which the growth of one jump pushes another *)
(* out of reach, or is taken back by an alignment.                         *)
(***************************************************************************)
EXTENDS Relaxer

Alphabet ==
  {Bytes(6), Bytes(122), Float(8), Entry("label"), Jump("jmp", 0),
   Jump("jcc", 0), Jump("jmp", 1), Jump("jcc", 2), Align(16, 0), Align(8, 3)}

L == Entry("label")

\* The second jump only grows because of the first, in a later sweep.
Cascade ==
  {<<Jump(a, 1), Bytes(n), Jump(b, 2), L, Bytes(122), Bytes(6), L>> :
     a \in {"jmp", "jcc"}, b \in {"jmp", "jcc"}, n \in 121 .. 126}
  \cup {<<L, Bytes(n), Jump(a, 2), Jump(b, 1), Bytes(122), Bytes(6), L>> :
     a \in {"jmp", "jcc"}, b \in {"jmp", "jcc"}, n \in 119 .. 126}
\* Between the jump and its target the fill shrinks as the jump grows.
Absorbed ==
  {<<Bytes(n), Jump(a, 1), Bytes(m), Align(16, max), Jump(b, 2), L, Bytes(128), L>> :
     a \in {"jmp", "jcc"}, b \in {"jmp", "jcc"}, n \in {0, 3, 7, 9, 12},
     m \in {106, 112, 118, 122, 124}, max \in {0, 7}}

\* A jump that grows takes fill from the span of the next, which grows the span
\* of the first: if jumps could become short again, these two would for ever.
Seesaw ==
  {<<Bytes(n), Jump(a, 1), Jump(b, 2), Bytes(m), L, Align(16, 0), L>> :
     a \in {"jmp", "jcc"}, b \in {"jmp", "jcc"}, n \in 8 .. 12, m \in 122 .. 125}

MCPrograms ==
  {p \in UNION {[1 .. n -> Alphabet] : n \in 1 .. 4} : IsProgram(p)}
    \cup Cascade \cup Absorbed \cup Seesaw
=============================================================================
