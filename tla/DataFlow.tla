------------------------------ MODULE DataFlow ------------------------------
(***************************************************************************)
(* DFProblem::Solve (MaoDataFlow.cc): the solver that liveness and         *)
(* reaching definitions share.  It passes over the blocks of the CFG in    *)
(* their order until a pass changes nothing.                               *)
(*                                                                         *)
(* A problem is                                                            *)
(*   order    the blocks as FORALL_CFG_BB visits them,                     *)
(*   bits     the bits of a set (registers, or definitions),               *)
(*   sources  of a block, the blocks its entry set is joined from:         *)
(*            successors of a backward problem, predecessors of a forward  *)
(*            one,                                                         *)
(*   gen, kill  of a block.                                                *)
(* As in the code, "entry" is the set at the side the flow comes from.     *)
(***************************************************************************)
EXTENDS Naturals, Sequences

CONSTANTS
  Problems,           \* the problems a run may be asked to solve
  MaxIterations       \* kMaxNumberOfIterations, 1000 in the code

BlocksOf(p) == {p.order[i] : i \in 1 .. Len(p.order)}

IsProblem(p) ==
  /\ p.order \in Seq(BlocksOf(p))
  /\ p.sources \in [BlocksOf(p) -> SUBSET BlocksOf(p)]
  /\ p.gen \in [BlocksOf(p) -> SUBSET p.bits]
  /\ p.kill \in [BlocksOf(p) -> SUBSET p.bits]

ASSUME ProblemsAssumption == \A p \in Problems : IsProblem(p)
ASSUME MaxIterationsAssumption == MaxIterations \in Nat

VARIABLES
  problem,            \* the problem being solved
  entry, exit,        \* entry_map and exit_map
  pos,                \* the block of the order that is visited next
  dirty,              \* a block has changed in this pass
  iterations,         \* num_iterations
  status              \* "solving", "solved" or "aborted"

vars == <<problem, entry, exit, pos, dirty, iterations, status>>

Blocks == BlocksOf(problem)

-----------------------------------------------------------------------------

\* DFProblem::Transfer
Transfer(p, b, s) == p.gen[b] \cup (s \ p.kill[b])

\* DFProblem::Union over the exit sets of the block's sources
Confluence(p, x, b) == UNION {x[s] : s \in p.sources[b]}

Init ==
  /\ problem \in Problems
  /\ entry = [b \in Blocks |-> {}]
  /\ exit = [b \in Blocks |-> Transfer(problem, b, {})]
  /\ pos = 1
  /\ dirty = FALSE
  /\ iterations = 0
  \* A problem with no bits is not iterated on.
  /\ status = IF problem.bits = {} THEN "solved" ELSE "solving"

\* Slip: the pass does not learn that a block has changed.
UpdateSlip(b) ==
  LET joined == Confluence(problem, exit, b) IN
  /\ problem.sources[b] # {}
  /\ joined # entry[b]
  /\ entry' = [entry EXCEPT ![b] = joined]
  /\ exit' = [exit EXCEPT ![b] = Transfer(problem, b, joined)]
  /\ UNCHANGED dirty

\* Slip: the kill set is forgotten.
UpdateNoKillSlip(b) ==
  LET joined == Confluence(problem, exit, b) IN
  /\ problem.sources[b] # {}
  /\ joined # entry[b]
  /\ entry' = [entry EXCEPT ![b] = joined]
  /\ exit' = [exit EXCEPT ![b] = problem.gen[b] \cup joined]
  /\ dirty' = TRUE

\* Slip: only what is new is stored.
UpdateDeltaSlip(b) ==
  LET joined == Confluence(problem, exit, b) IN
  /\ problem.sources[b] # {}
  /\ joined # entry[b]
  /\ entry' = [entry EXCEPT ![b] = joined \ entry[b]]
  /\ exit' = [exit EXCEPT ![b] = Transfer(problem, b, joined)]
  /\ dirty' = TRUE

\* The body of the inner loop, where the block's entry set is out of date.
Update(b) ==
  LET joined == Confluence(problem, exit, b) IN
  /\ problem.sources[b] # {}
  /\ joined # entry[b]
  /\ entry' = [entry EXCEPT ![b] = joined]
  /\ exit' = [exit EXCEPT ![b] = Transfer(problem, b, joined)]
  /\ dirty' = TRUE

\* The same, where it is not, or there is nothing to join.
Keep(b) ==
  /\ \/ problem.sources[b] = {}
     \/ Confluence(problem, exit, b) = entry[b]
  /\ UNCHANGED <<entry, exit, dirty>>

\* Slip: a block that is up to date is not left behind.
VisitSlip ==
  /\ status = "solving"
  /\ pos <= Len(problem.order)
  /\ \/ Update(problem.order[pos]) /\ pos' = pos + 1
     \/ Keep(problem.order[pos]) /\ pos' = pos
  /\ UNCHANGED <<problem, iterations, status>>

Visit ==
  /\ status = "solving"
  /\ pos <= Len(problem.order)
  /\ Update(problem.order[pos]) \/ Keep(problem.order[pos])
  /\ pos' = pos + 1
  /\ UNCHANGED <<problem, iterations, status>>

\* Slip: dirty stays set from one pass to the next.
EndPassDirtySlip ==
  /\ status = "solving"
  /\ pos > Len(problem.order)
  /\ iterations' = iterations + 1
  /\ status' = IF iterations' > MaxIterations THEN "aborted"
               ELSE IF dirty THEN "solving" ELSE "solved"
  /\ pos' = 1
  /\ UNCHANGED <<problem, entry, exit, dirty>>

\* The end of a pass: ++num_iterations, MAO_ASSERT and `while (dirty)'.
EndPass ==
  /\ status = "solving"
  /\ pos > Len(problem.order)
  /\ iterations' = iterations + 1
  /\ status' = IF iterations' > MaxIterations THEN "aborted"
               ELSE IF dirty THEN "solving" ELSE "solved"
  /\ pos' = 1
  /\ dirty' = FALSE
  /\ UNCHANGED <<problem, entry, exit>>

Next == Visit \/ EndPass

Spec == Init /\ [][Next]_vars

\* Solve is one call, and nothing else runs until it returns.
FairSpec == Spec /\ WF_vars(Next)

-----------------------------------------------------------------------------
(* Properties.                                                             *)

TypeOK ==
  /\ IsProblem(problem)
  /\ entry \in [Blocks -> SUBSET problem.bits]
  /\ exit \in [Blocks -> SUBSET problem.bits]
  /\ pos \in 1 .. Len(problem.order) + 1
  /\ dirty \in BOOLEAN
  /\ iterations \in Nat
  /\ status \in {"solving", "solved", "aborted"}

\* s gives every block the join of what its sources let through.
IsSolution(p, s) ==
  \A b \in BlocksOf(p) :
    s[b] = UNION {Transfer(p, c, s[c]) : c \in p.sources[b]}

\* Solve leaves the loop only with a solution of the equations.
SolvedIsSolution == status = "solved" => IsSolution(problem, entry)

\* At no time does a block hold a bit that some solution does not have there:
\* what Solve returns is the least solution.
BelowEverySolution ==
  \A s \in [Blocks -> SUBSET problem.bits] :
    IsSolution(problem, s) => \A b \in Blocks : entry[b] \subseteq s[b]

\* No visit takes a bit out of a block, although a visit overwrites the set.
BitsAreKept == [][\A b \in Blocks : entry[b] \subseteq entry'[b]]_vars

\* The assertion on num_iterations cannot fail for a CFG of fewer blocks than
\* kMaxNumberOfIterations: a bit needs at most one pass a block, and one more
\* pass sees that nothing changes.
IterationBound == iterations <= Len(problem.order) + 1

\* Solve returns (or its assertion stops it).
Terminates == <>(status # "solving")

=============================================================================
