------------------------------ MODULE Programs ------------------------------
(***************************************************************************)
(* What the data-flow problems read of a function: its CFG and, for each   *)
(* instruction, the registers it uses and defines (GetRegisterUseMask and  *)
(* GetRegisterDefMask of MaoDefs.cc, which are tables).  A program is      *)
(*   order  the blocks in the order of the CFG,                            *)
(*   succ   of a block, the blocks its out-edges lead to,                  *)
(*   insns  of a block, its instructions, each [use, def].                 *)
(* A point <<b, i>> is the place just before instruction i of block b; the *)
(* point after the last instruction is the end of the block.               *)
(***************************************************************************)
EXTENDS Naturals, Sequences, FiniteSets

BlocksIn(g) == {g.order[i] : i \in 1 .. Len(g.order)}
Preds(g, b) == {c \in BlocksIn(g) : b \in g.succ[c]}

InsnsIn(g) == UNION {{b} \X (1 .. Len(g.insns[b])) : b \in BlocksIn(g)}
Points(g) == UNION {{b} \X (1 .. Len(g.insns[b]) + 1) : b \in BlocksIn(g)}
InsnAt(g, p) == g.insns[p[1]][p[2]]
AtEnd(g, p) == p[2] = Len(g.insns[p[1]]) + 1

\* The points control may be at after point p.
After(g, p) ==
  IF AtEnd(g, p) THEN g.succ[p[1]] \X {1} ELSE {<<p[1], p[2] + 1>>}

\* The points control may be at after p, unless the instruction at p writes x.
Onward(g, x) ==
  [p \in Points(g) |->
     IF ~AtEnd(g, p) /\ x \in InsnAt(g, p).def THEN {} ELSE After(g, p)]

\* A set of points and those one step of a function leads to.
Wider(step, set) == set \cup UNION {step[p] : p \in set}

\* What can be got to from a point by steps of a function on a finite set.
Reach(step, from) ==
  LET n == Cardinality(DOMAIN step)
      near[k \in 0 .. n] == IF k = 0 THEN {from} ELSE Wider(step, near[k - 1])
  IN  near[n]

\* The points that control gets to from p without an instruction writing x.
Flow(g, x, p) == Reach(Onward(g, x), p)

\* What becomes of a set of bits on the way past n instructions, the k-th of
\* which takes the bits takes[k] out and then puts puts[k] in.
Past(n, puts, takes, bits) ==
  LET at[k \in 0 .. n] ==
        IF k = 0 THEN bits ELSE puts[k] \cup (at[k - 1] \ takes[k])
  IN  at[n]
=============================================================================
