---------------------------- MODULE ReachingDefs ----------------------------
(***************************************************************************)
(* Reaching definitions (MaoReachingDefs.cc): the forward problem handed   *)
(* to the solver, the query GetReachingDefs, and what reaching means.  A   *)
(* bit stands for all the definitions of a register in a block: it is the  *)
(* pair <<block, register>> of index_map_.                                 *)
(***************************************************************************)
EXTENDS Programs

\* ReachingDefs::GetDefs
GetDefs(g, b) == UNION {g.insns[b][i].def : i \in 1 .. Len(g.insns[b])}

\* The bits, as CreateIndexMaps makes them, and those of a set of registers.
DefBits(g) == UNION {{b} \X GetDefs(g, b) : b \in BlocksIn(g)}
BitsOf(g, registers) == {d \in DefBits(g) : d[2] \in registers}

\* A write of registers in b: the bits it clears (those of the other blocks)
\* and the bits it sets.
OtherDefs(g, b, registers) == {d \in BitsOf(g, registers) : d[1] # b}
OwnDefs(b, registers) == {b} \X registers

ReachingDefsProblem(g) ==
  [kind |-> "reaching", program |-> g,
   order |-> g.order, bits |-> DefBits(g),
   sources |-> [b \in BlocksIn(g) |-> Preds(g, b)],
   gen |-> [b \in BlocksIn(g) |-> OwnDefs(b, GetDefs(g, b))],
   kill |-> [b \in BlocksIn(g) |-> OtherDefs(g, b, GetDefs(g, b))]]

\* What each instruction of b sets, and what it clears.
Sets(g, b) == [k \in 1 .. Len(g.insns[b]) |-> OwnDefs(b, g.insns[b][k].def)]
Clears(g, b) == [k \in 1 .. Len(g.insns[b]) |-> OtherDefs(g, b, g.insns[b][k].def)]

\* Slip: the instruction itself is passed over.
AtInstructionSlip(g, in, b, i) == Past(i, Sets(g, b), Clears(g, b), in)

\* ReachingDefs::GetReachingDefsAtInstruction
AtInstruction(g, in, b, i) == Past(i - 1, Sets(g, b), Clears(g, b), in)

\* ReachingDefs::GetDefiningInstruction: the instructions of b that write x,
\* up to the one at `start'; the last of them, or none.
Defining(g, b, x, start) ==
  LET writes == {k \in 1 .. start : x \in g.insns[b][k].def} IN
  {k \in writes : \A m \in writes : m <= k}

\* ReachingDefs::GetReachingDefs: in a block other than its own it searches
\* from the last entry, in its own from the entry before the instruction.
GetReachingDefs(g, in, b, i, x) ==
  LET found == AtInstruction(g, in, b, i) \cap BitsOf(g, {x})
      Start(c) == IF c = b THEN i - 1 ELSE Len(g.insns[c])
  IN  UNION {{d[1]} \X Defining(g, d[1], x, Start(d[1])) : d \in found}

\* The writes of x from which control may get to p with no other write between.
DefsReaching(g, x, p) ==
  {q \in InsnsIn(g) :
    x \in InsnAt(g, q).def /\ \E a \in After(g, q) : p \in Flow(g, x, a)}
=============================================================================
