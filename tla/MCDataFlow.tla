----------------------------- MODULE MCDataFlow -----------------------------
(***************************************************************************)
(* The solver on liveness and on reaching definitions, over every filling  *)
(* of a few control-flow graphs with instructions on one register.  The    *)
(* bits of the two problems do not depend on each other, so one register   *)
(* shows what several would.                                               *)
(***************************************************************************)
EXTENDS FlowProblems

CONSTANTS a, b, c, r

Use == [use |-> {r}, def |-> {}]
Def == [use |-> {}, def |-> {r}]
UseDef == [use |-> {r}, def |-> {r}]
Insns == {Use, Def, UseDef}
AtMost(n) == UNION {[1 .. k -> Insns] : k \in 0 .. n}

Graph(xa, xb, xc) == [x \in {a, b, c} |-> CASE x = a -> xa [] x = b -> xb [] x = c -> xc]
Graphs ==
  {Graph({b}, {c}, {}),            \* straight line
   Graph({b, c}, {c}, {}),         \* if-then
   Graph({b}, {b, c}, {}),         \* a block that loops to itself
   Graph({b}, {c}, {b}),           \* a loop without an exit
   Graph({b}, {a, c}, {}),         \* a loop, the exit after it
   Graph({b, c}, {c}, {b}),        \* an irreducible loop
   Graph({c}, {}, {b}),            \* blocks out of the flow's order
   Graph({b}, {c}, {a, b})}        \* nested loops

Programs3 ==
  {[order |-> <<a, b, c>>, succ |-> s,
    insns |-> [x \in {a, b, c} |-> CASE x = a -> ia [] x = b -> ib [] x = c -> ic]] :
     s \in Graphs, ia \in AtMost(1), ib \in AtMost(2), ic \in AtMost(2)}

MCProblems ==
  {LivenessProblem(g, {r}) : g \in Programs3} \cup {ReachingDefsProblem(g) : g \in Programs3}
=============================================================================
