---------------------------- MODULE BlockEffect ----------------------------
(***************************************************************************)
(* What a straight-line sequence of instructions computes, with symbolic   *)
(* values: the reference the scheduler is held against.  The instructions  *)
(* are those of Scheduler.tla.                                             *)
(***************************************************************************)
EXTENDS Integers, Sequences

\* What n makes of the registers it uses; what memory holds is fixed by the
\* place of n among the accesses to memory.
Access(nodes, regs, n) == [node |-> n, from |-> [y \in nodes[n].use |-> regs[y]]]

\* The value that n leaves in x: a predicated instruction may keep the old one.
ValueOf(nodes, regs, n, x) ==
  [access |-> Access(nodes, regs, n), kept |-> IF nodes[n].pred THEN {regs[x]} ELSE {}]

\* One more instruction: its registers change, and an access to memory or a
\* transfer of control leaves a trace.
Execute(nodes, state, n) ==
  [regs |-> [x \in DOMAIN state.regs |->
               IF x \in nodes[n].def THEN ValueOf(nodes, state.regs, n, x) ELSE state.regs[x]],
   trace |-> IF nodes[n].mem \/ nodes[n].ctrl
               THEN Append(state.trace, Access(nodes, state.regs, n)) ELSE state.trace]

\* The registers and the trace after executing the nodes as order has them.
EffectOf(nodes, order, regs) ==
  LET after[k \in 0 .. Len(order)] ==
        IF k = 0 THEN [regs |-> [x \in regs |-> x], trace |-> <<>>]
        ELSE Execute(nodes, after[k - 1], order[k])
  IN  after[Len(order)]
=============================================================================
