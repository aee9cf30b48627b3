------------------------------ MODULE Liveness ------------------------------
(***************************************************************************)
(* Live registers (MaoLiveness.cc): the backward problem handed to the     *)
(* solver, the query GetLive, and what being live means.                   *)
(***************************************************************************)
EXTENDS Programs

\* The registers that the instructions of b use and define, from the last
\* instruction to the first, as the reverse iterators meet them.
Uses(g, b) == [k \in 1 .. Len(g.insns[b]) |-> g.insns[b][Len(g.insns[b]) + 1 - k].use]
Defs(g, b) == [k \in 1 .. Len(g.insns[b]) |-> g.insns[b][Len(g.insns[b]) + 1 - k].def]

\* Slip: a use after a write in the block counts.
LiveGenSlip(g, b) == UNION {g.insns[b][i].use : i \in 1 .. Len(g.insns[b])}

\* Liveness::CreateGenSet
LiveGen(g, b) == Past(Len(g.insns[b]), Uses(g, b), Defs(g, b), {})

\* Liveness::CreateKillSet
LiveKill(g, b) == Past(Len(g.insns[b]), Defs(g, b), Uses(g, b), {})

LivenessProblem(g, registers) ==
  [kind |-> "liveness", program |-> g,
   order |-> g.order, bits |-> registers,
   sources |-> g.succ,
   gen |-> [b \in BlocksIn(g) |-> LiveGen(g, b)],
   kill |-> [b \in BlocksIn(g) |-> LiveKill(g, b)]]

\* Liveness::GetLive: the registers live after instruction i of b, given the
\* out set of b.
GetLive(g, out, b, i) == Past(Len(g.insns[b]) - i, Uses(g, b), Defs(g, b), out)

\* x is live at p if control may get from p to a use of x before any write.
LiveAt(g, x, p) ==
  \E q \in Flow(g, x, p) : q \in InsnsIn(g) /\ x \in InsnAt(g, q).use
=============================================================================
