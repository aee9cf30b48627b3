---------------------------- MODULE FlowProblems ----------------------------
(***************************************************************************)
(* The solver on the two problems that are handed to it: what its result   *)
(* means for the paths of the program.                                     *)
(***************************************************************************)
EXTENDS DataFlow, Liveness, ReachingDefs

\* A problem is one that Liveness or ReachingDefs makes of some program.  The
\* bits of the first are the registers there are.
IsFlowProblem(p) ==
  LET g == p.program IN
  /\ \A b \in BlocksIn(g) : g.succ[b] \subseteq BlocksIn(g) /\ Len(g.insns[b]) \in Nat
  /\ \/ p = ReachingDefsProblem(g)
     \/ /\ p = LivenessProblem(g, p.bits)
        /\ \A q \in InsnsIn(g) : InsnAt(g, q).use \subseteq p.bits

ASSUME FlowProblemsAssumption == \A p \in Problems : IsFlowProblem(p)

Solved(kind) == status = "solved" /\ problem.kind = kind

\* GetLive gives the registers that are live on some path, at every instruction.
LiveIsPathLive ==
  Solved("liveness") =>
    \A p \in InsnsIn(problem.program) :
      GetLive(problem.program, entry[p[1]], p[1], p[2])
        = {x \in problem.bits : LiveAt(problem.program, x, <<p[1], p[2] + 1>>)}

\* The bits at an instruction are those of the blocks from which a definition
\* reaches it on some path, and GetReachingDefs returns these definitions.  One
\* known exception: a definition at or below the instruction in its own block,
\* which comes round a loop, is not found.
ReachingIsPathReaching ==
  Solved("reaching") =>
    \A p \in InsnsIn(problem.program) : \A x \in {d[2] : d \in problem.bits} :
      LET defs == DefsReaching(problem.program, x, p)
          Below(q) == q[1] = p[1] /\ q[2] >= p[2]
          found == AtInstruction(problem.program, entry[p[1]], p[1], p[2])
      IN  /\ {d[1] : d \in {e \in found : e[2] = x}} = {q[1] : q \in defs}
          /\ GetReachingDefs(problem.program, entry[p[1]], p[1], p[2], x)
               = {q \in defs : ~Below(q)}
=============================================================================
