--------------------------- MODULE DataFlowProofs ---------------------------
(***************************************************************************)
(* What DFProblem::Solve returns is the least solution of the data-flow    *)
(* equations, for every CFG, every order of the blocks and every gen and   *)
(* kill set; and the least solutions of the two problems that are handed   *)
(* to it are the registers that are live, and the definitions that reach,  *)
(* on some path.  Only LiveTheorem and ReachingTheorem use                 *)
(* FlowProblemsAssumption, which says that a problem is one of the two.    *)
(***************************************************************************)
EXTENDS FlowProblems, FiniteSetTheorems, WellFoundedInduction, TLAPS

\* The exit sets are always the transfer of the entry sets: overwriting them
\* only with their entry set, as the code does, is enough.
ExitInv == \A b \in Blocks : exit[b] = Transfer(problem, b, entry[b])

\* A block never holds more than its sources let through now.
GrowInv == \A b \in Blocks : entry[b] \subseteq Confluence(problem, exit, b)

\* The blocks a clean pass has been over are up to date.
CleanInv ==
  ~dirty => \A i \in 1 .. pos - 1 :
    entry[problem.order[i]] = Confluence(problem, exit, problem.order[i])

\* Once solved, every block is up to date.
DoneInv ==
  status = "solved" =>
    \A b \in Blocks : entry[b] = Confluence(problem, exit, b)

\* The problem is one of those given, which are well formed.
ProblemInv == problem \in Problems

IInv ==
  /\ ProblemInv
  /\ TypeOK /\ ExitInv /\ GrowInv /\ CleanInv /\ DoneInv /\ BelowEverySolution

-----------------------------------------------------------------------------
(* The operators.                                                          *)

\* A place in the order holds a block.
LEMMA BlockLemma ==
  ASSUME NEW p \in Problems, NEW i \in 1 .. Len(p.order)
  PROVE  p.order[i] \in BlocksOf(p)
PROOF
  BY DEF BlocksOf

\* Transfer makes no bit up.
LEMMA TransferType ==
  ASSUME NEW p \in Problems, NEW b \in BlocksOf(p), NEW s \in SUBSET p.bits
  PROVE  Transfer(p, b, s) \in SUBSET p.bits
PROOF
<1>1. p.gen[b] \subseteq p.bits
  BY ProblemsAssumption DEF IsProblem
<1> QED
  BY <1>1 DEF Transfer

\* Transfer of more is more.
LEMMA TransferMonotone ==
  ASSUME NEW p, NEW b, NEW s, NEW t, s \subseteq t
  PROVE  Transfer(p, b, s) \subseteq Transfer(p, b, t)
PROOF
  BY DEF Transfer

\* The join makes no bit up.
LEMMA ConfluenceType ==
  ASSUME NEW p \in Problems, NEW b \in BlocksOf(p),
         NEW x \in [BlocksOf(p) -> SUBSET p.bits]
  PROVE  Confluence(p, x, b) \in SUBSET p.bits
PROOF
<1>1. p.sources[b] \subseteq BlocksOf(p)
  BY ProblemsAssumption DEF IsProblem
<1> QED
  BY <1>1 DEF Confluence

\* The join of more is more.
LEMMA ConfluenceMonotone ==
  ASSUME NEW p \in Problems, NEW b \in BlocksOf(p), NEW x, NEW y,
         \A c \in BlocksOf(p) : x[c] \subseteq y[c]
  PROVE  Confluence(p, x, b) \subseteq Confluence(p, y, b)
PROOF
<1>1. p.sources[b] \subseteq BlocksOf(p)
  BY ProblemsAssumption DEF IsProblem
<1> QED
  BY <1>1 DEF Confluence

\* The equations of a solution, in terms of Confluence.
LEMMA SolutionLemma ==
  ASSUME NEW p \in Problems, NEW s,
         NEW x, \A b \in BlocksOf(p) : x[b] = Transfer(p, b, s[b])
  PROVE  IsSolution(p, s) <=> \A b \in BlocksOf(p) : s[b] = Confluence(p, x, b)
PROOF
<1>1. \A b \in BlocksOf(p) :
        Confluence(p, x, b) = UNION {Transfer(p, c, s[c]) : c \in p.sources[b]}
  <2> SUFFICES ASSUME NEW b \in BlocksOf(p)
               PROVE  UNION {x[c] : c \in p.sources[b]}
                        = UNION {Transfer(p, c, s[c]) : c \in p.sources[b]}
    BY DEF Confluence
  <2>1. p.sources[b] \subseteq BlocksOf(p)
    BY ProblemsAssumption DEF IsProblem
  <2>2. \A c \in p.sources[b] : x[c] = Transfer(p, c, s[c])
    BY <2>1
  <2> QED
    BY <2>2
<1> QED
  BY <1>1 DEF IsSolution

-----------------------------------------------------------------------------
(* The invariant.                                                          *)

\* Solve begins with empty entry sets, which satisfy the invariant.
LEMMA InitLemma == Init => IInv
PROOF
<1> SUFFICES ASSUME Init PROVE IInv
  OBVIOUS
<1>1. problem \in Problems /\ Len(problem.order) \in Nat
  BY ProblemsAssumption DEF Init, IsProblem
<1>2. \A b \in Blocks : entry[b] = {}
  BY DEF Init
<1>3. TypeOK
  <2>1. exit \in [Blocks -> SUBSET problem.bits]
    BY <1>1, TransferType DEF Init, Blocks
  <2>2. entry \in [Blocks -> SUBSET problem.bits]
    BY DEF Init
  <2>3. pos \in 1 .. Len(problem.order) + 1 /\ iterations \in Nat
    BY <1>1 DEF Init
  <2>4. dirty \in BOOLEAN /\ status \in {"solving", "solved", "aborted"}
    BY DEF Init
  <2> QED
    BY <1>1, <2>1, <2>2, <2>3, <2>4, ProblemsAssumption DEF TypeOK
<1>4. ExitInv /\ GrowInv /\ CleanInv /\ BelowEverySolution
  BY <1>1, <1>2 DEF Init, ExitInv, GrowInv, CleanInv, BelowEverySolution
<1>5. DoneInv
  <2> SUFFICES ASSUME status = "solved", NEW b \in Blocks
               PROVE  entry[b] = Confluence(problem, exit, b)
    BY DEF DoneInv
  <2>1. problem.bits = {}
    BY DEF Init
  <2>2. Confluence(problem, exit, b) \in SUBSET problem.bits
    BY <1>1, <1>3, ConfluenceType DEF TypeOK, Blocks
  <2> QED
    BY <1>2, <2>1, <2>2
<1> QED
  BY <1>1, <1>3, <1>4, <1>5 DEF IInv, ProblemInv

\* A visit that updates a block preserves the invariant and adds bits only.
LEMMA UpdateLemma ==
  ASSUME IInv, Visit, Update(problem.order[pos])
  PROVE  IInv' /\ \A b \in Blocks : entry[b] \subseteq entry'[b]
PROOF
<1> DEFINE v == problem.order[pos]
           joined == Confluence(problem, exit, v)
<1>1. /\ problem \in Problems /\ problem' = problem /\ Blocks' = Blocks
      /\ Blocks = BlocksOf(problem)
      /\ Len(problem.order) \in Nat /\ pos \in 1 .. Len(problem.order)
  BY ProblemsAssumption DEF IInv, ProblemInv, TypeOK, Visit, IsProblem, Blocks
<1>2. v \in Blocks
  BY <1>1, BlockLemma
<1>3. /\ entry \in [Blocks -> SUBSET problem.bits]
      /\ exit \in [Blocks -> SUBSET problem.bits]
      /\ joined \in SUBSET problem.bits
      /\ Transfer(problem, v, joined) \in SUBSET problem.bits
  BY <1>1, <1>2, ConfluenceType, TransferType DEF IInv, TypeOK
<1>4. /\ entry' = [entry EXCEPT ![v] = joined]
      /\ exit' = [exit EXCEPT ![v] = Transfer(problem, v, joined)]
      /\ dirty' = TRUE /\ status' = status /\ status = "solving"
      /\ pos' = pos + 1 /\ iterations' = iterations
  BY DEF Update, Visit
<1>5. \A b \in Blocks : entry[b] \subseteq entry'[b]
  BY <1>2, <1>3, <1>4 DEF IInv, GrowInv
<1>6. TypeOK'
  <2>1. entry' \in [Blocks -> SUBSET problem.bits] /\ exit' \in [Blocks -> SUBSET problem.bits]
    BY <1>2, <1>3, <1>4
  <2>2. pos' \in 1 .. Len(problem.order) + 1
    BY <1>1, <1>4
  <2> QED
    BY <1>1, <1>4, <2>1, <2>2 DEF IInv, TypeOK
<1>7. ExitInv'
  BY <1>1, <1>2, <1>3, <1>4 DEF IInv, ExitInv
<1>8. \A b \in Blocks : exit[b] \subseteq exit'[b]
  BY <1>1, <1>5, <1>7, TransferMonotone DEF IInv, ExitInv
<1>9. GrowInv'
  <2> SUFFICES ASSUME NEW b \in Blocks
               PROVE  entry'[b] \subseteq Confluence(problem, exit', b)
    BY <1>1 DEF GrowInv
  <2>1. Confluence(problem, exit, b) \subseteq Confluence(problem, exit', b)
    BY <1>1, <1>8, ConfluenceMonotone
  <2>2. entry'[b] \subseteq Confluence(problem, exit, b)
    BY <1>2, <1>3, <1>4 DEF IInv, GrowInv
  <2> QED
    BY <2>1, <2>2
<1>10. CleanInv' /\ DoneInv'
  BY <1>4 DEF CleanInv, DoneInv
<1>11. BelowEverySolution'
  <2> SUFFICES ASSUME NEW s \in [Blocks -> SUBSET problem.bits],
                      IsSolution(problem, s), NEW b \in Blocks
               PROVE  entry'[b] \subseteq s[b]
    BY <1>1 DEF BelowEverySolution
  <2> DEFINE x == [c \in Blocks |-> Transfer(problem, c, s[c])]
  <2>1. \A c \in Blocks : entry[c] \subseteq s[c]
    BY DEF IInv, BelowEverySolution
  <2>2. \A c \in Blocks : exit[c] \subseteq x[c]
    BY <2>1, TransferMonotone DEF IInv, ExitInv
  <2>3. joined \subseteq Confluence(problem, x, v)
    BY <1>1, <1>2, <2>2, ConfluenceMonotone
  <2>4. s[v] = Confluence(problem, x, v)
    BY <1>1, <1>2, SolutionLemma
  <2> QED
    BY <1>2, <1>3, <1>4, <2>1, <2>3, <2>4
<1> QED
  BY <1>1, <1>5, <1>6, <1>7, <1>9, <1>10, <1>11 DEF IInv, ProblemInv

\* A visit of a block that is up to date preserves the invariant.
LEMMA KeepLemma ==
  ASSUME IInv, Visit, Keep(problem.order[pos])
  PROVE  IInv' /\ entry' = entry
PROOF
<1> DEFINE v == problem.order[pos]
<1>1. /\ problem \in Problems /\ problem' = problem /\ Blocks' = Blocks
      /\ Blocks = BlocksOf(problem)
      /\ Len(problem.order) \in Nat /\ pos \in 1 .. Len(problem.order)
  BY ProblemsAssumption DEF IInv, ProblemInv, TypeOK, Visit, IsProblem, Blocks
<1>2. v \in Blocks
  BY <1>1, BlockLemma
<1>3. /\ entry' = entry /\ exit' = exit /\ dirty' = dirty /\ status' = status
      /\ pos' = pos + 1 /\ iterations' = iterations
  BY DEF Keep, Visit
<1>4. TypeOK' /\ ExitInv' /\ GrowInv' /\ DoneInv' /\ BelowEverySolution'
  BY <1>1, <1>3 DEF IInv, TypeOK, ExitInv, GrowInv, DoneInv, BelowEverySolution
<1>5. entry[v] = Confluence(problem, exit, v)
  <2>1. CASE problem.sources[v] = {}
    <3>1. Confluence(problem, exit, v) = {}
      BY <2>1 DEF Confluence
    <3> QED
      BY <1>2, <3>1 DEF IInv, GrowInv
  <2> QED
    BY <2>1 DEF Keep
<1>6. CleanInv'
  <2> SUFFICES ASSUME ~dirty, NEW i \in 1 .. pos
               PROVE  entry[problem.order[i]]
                        = Confluence(problem, exit, problem.order[i])
    BY <1>1, <1>3 DEF CleanInv
  <2>1. CASE i = pos
    BY <2>1, <1>5
  <2>2. CASE i \in 1 .. pos - 1
    BY <2>2 DEF IInv, CleanInv
  <2> QED
    BY <1>1, <2>1, <2>2
<1> QED
  BY <1>1, <1>3, <1>4, <1>6 DEF IInv, ProblemInv

\* So does the end of a pass.
LEMMA EndPassLemma ==
  ASSUME IInv, EndPass
  PROVE  IInv' /\ entry' = entry
PROOF
<1>1. /\ problem \in Problems /\ problem' = problem /\ Blocks' = Blocks
      /\ Blocks = BlocksOf(problem)
      /\ Len(problem.order) \in Nat /\ pos = Len(problem.order) + 1
  BY ProblemsAssumption DEF IInv, ProblemInv, TypeOK, EndPass, IsProblem, Blocks
<1>2. /\ entry' = entry /\ exit' = exit /\ dirty' = FALSE /\ pos' = 1
      /\ iterations' = iterations + 1
      /\ status' \in {"solving", "solved", "aborted"}
      /\ status' = "solved" => ~dirty
  BY DEF EndPass
<1>3. TypeOK' /\ ExitInv' /\ GrowInv' /\ BelowEverySolution'
  <2>1. pos' \in 1 .. Len(problem.order) + 1 /\ iterations' \in Nat
    BY <1>1, <1>2 DEF IInv, TypeOK
  <2>2. TypeOK'
    BY <1>1, <1>2, <2>1 DEF IInv, TypeOK
  <2> QED
    BY <1>1, <1>2, <2>2 DEF IInv, ExitInv, GrowInv, BelowEverySolution
<1>4. CleanInv'
  BY <1>2 DEF CleanInv
<1>5. DoneInv'
  <2> SUFFICES ASSUME ~dirty, NEW b \in Blocks
               PROVE  entry[b] = Confluence(problem, exit, b)
    BY <1>1, <1>2 DEF DoneInv
  <2>1. PICK i \in 1 .. Len(problem.order) : problem.order[i] = b
    BY <1>1 DEF BlocksOf
  <2>2. i \in 1 .. pos - 1
    BY <1>1
  <2> QED
    BY <2>1, <2>2 DEF IInv, CleanInv
<1> QED
  BY <1>1, <1>2, <1>3, <1>4, <1>5 DEF IInv, ProblemInv

\* Every step preserves the invariant and no step takes a bit away.
LEMMA NextLemma ==
  IInv /\ [Next]_vars => IInv' /\ [\A b \in Blocks : entry[b] \subseteq entry'[b]]_vars
PROOF
<1> SUFFICES ASSUME IInv, [Next]_vars
             PROVE  IInv' /\ \A b \in Blocks : entry[b] \subseteq entry'[b]
  OBVIOUS
<1>1. CASE Visit
  BY <1>1, UpdateLemma, KeepLemma DEF Visit
<1>2. CASE EndPass
  BY <1>2, EndPassLemma
<1>3. CASE UNCHANGED vars
  BY <1>3 DEF vars, IInv, ProblemInv, TypeOK, ExitInv, GrowInv, CleanInv, DoneInv,
              BelowEverySolution, Blocks
<1> QED
  BY <1>1, <1>2, <1>3 DEF Next

\* The invariant holds in every state of Solve.
THEOREM InvariantTheorem == Spec => []IInv
PROOF
  BY InitLemma, NextLemma, PTL DEF Spec

\* Solve keeps its state well-typed.
THEOREM TypeTheorem == Spec => []TypeOK
PROOF
<1>1. IInv => TypeOK
  BY DEF IInv
<1> QED
  BY <1>1, InvariantTheorem, PTL

\* When Solve returns, the sets satisfy the equations at every block.
THEOREM SolutionTheorem == Spec => []SolvedIsSolution
PROOF
<1>1. IInv => SolvedIsSolution
  <2> SUFFICES ASSUME IInv, status = "solved" PROVE IsSolution(problem, entry)
    BY DEF SolvedIsSolution
  <2>1. problem \in Problems /\ Blocks = BlocksOf(problem)
    BY DEF IInv, ProblemInv, Blocks
  <2>2. \A b \in Blocks : exit[b] = Transfer(problem, b, entry[b])
    BY DEF IInv, ExitInv
  <2>3. \A b \in Blocks : entry[b] = Confluence(problem, exit, b)
    BY DEF IInv, DoneInv
  <2> QED
    BY <2>1, <2>2, <2>3, SolutionLemma
<1> QED
  BY <1>1, InvariantTheorem, PTL

\* And no solution is smaller.
THEOREM LeastTheorem == Spec => []BelowEverySolution
PROOF
<1>1. IInv => BelowEverySolution
  BY DEF IInv
<1> QED
  BY <1>1, InvariantTheorem, PTL

\* The passes only ever add bits.
THEOREM KeptTheorem == Spec => BitsAreKept
PROOF
<1>1. IInv /\ [Next]_vars => [\A b \in Blocks : entry[b] \subseteq entry'[b]]_vars
  BY NextLemma
<1> QED
  BY <1>1, InvariantTheorem, PTL DEF Spec, BitsAreKept

-----------------------------------------------------------------------------
(* How many passes there can be.  A pass that changes a block gives it a bit *)
(* that it did not have.  A bit that some pass leaves where it is, no later  *)
(* pass moves: so the bit that the last pass has added was added somewhere   *)
(* by every pass before, and it is in as many blocks as there were passes.   *)

\* The block does not wait for the bit.
Settled(x, b) == x \in Confluence(problem, exit, b) => x \in entry[b]

\* The number of blocks that have the bit.
Holding(x) == {b \in Blocks : x \in entry[b]}
Held(x) == Cardinality(Holding(x))

\* A bit is where it will ever be, or this pass has added it to a block, or
\* every pass before this one has and this one has not yet left it out.
SpreadOf(x) ==
  \/ \A b \in Blocks : Settled(x, b)
  \/ Held(x) >= iterations + 1
  \/ Held(x) >= iterations /\ \A i \in 1 .. pos - 1 : Settled(x, problem.order[i])

SpreadInv == status = "solving" => \A x \in problem.bits : SpreadOf(x)

\* A pass that has changed a block has a bit that every pass has added.
DirtyInv ==
  status = "solving" /\ dirty => \E x \in problem.bits : Held(x) >= iterations + 1

BoundInv ==
  /\ IterationBound
  /\ status = "solving" => iterations <= Len(problem.order)
  /\ status = "aborted" => iterations > MaxIterations

PassInv == IInv /\ SpreadInv /\ DirtyInv /\ BoundInv

\* There are no more blocks than places in the order.
LEMMA SomeBlocks ==
  ASSUME NEW p \in Problems, NEW S \in SUBSET BlocksOf(p)
  PROVE  /\ IsFiniteSet(S)
         /\ Cardinality(S) \in Nat /\ Cardinality(S) <= Len(p.order)
PROOF
<1> DEFINE n == Len(p.order)
           f == [i \in 1 .. n |-> p.order[i]]
<1>1. n \in Nat
  BY ProblemsAssumption DEF IsProblem
<1>2. IsFiniteSet(1 .. n) /\ Cardinality(1 .. n) = n
  BY <1>1, FS_Interval
<1>3. f \in Surjection(1 .. n, BlocksOf(p))
  BY DEF Surjection, BlocksOf
<1> HIDE DEF f
<1>4. IsFiniteSet(BlocksOf(p)) /\ Cardinality(BlocksOf(p)) <= Cardinality(1 .. n)
  BY <1>2, <1>3, FS_Surjection
<1>5. IsFiniteSet(S) /\ Cardinality(S) <= Cardinality(BlocksOf(p))
  BY <1>4, FS_Subset
<1>6. Cardinality(S) \in Nat /\ Cardinality(BlocksOf(p)) \in Nat
  BY <1>4, <1>5, FS_CardinalityType
<1> QED
  BY <1>1, <1>2, <1>4, <1>5, <1>6

\* A bit is in no more blocks than there are.
LEMMA HeldLemma ==
  ASSUME IInv, NEW x
  PROVE  /\ IsFiniteSet(Holding(x))
         /\ Held(x) \in Nat /\ Held(x) <= Len(problem.order)
PROOF
<1>1. problem \in Problems /\ Holding(x) \in SUBSET BlocksOf(problem)
  BY DEF IInv, ProblemInv, Holding, Blocks
<1> QED
  BY <1>1, SomeBlocks DEF Held

\* In the beginning no pass has been.
LEMMA PassInit == Init => PassInv
PROOF
<1> SUFFICES ASSUME Init PROVE PassInv
  OBVIOUS
<1>1. IInv
  BY InitLemma
<1>2. iterations = 0 /\ pos = 1 /\ dirty = FALSE /\ status # "aborted"
  BY DEF Init
<1>3. \A x : Held(x) >= 0
  BY <1>1, HeldLemma
<1>4. SpreadInv /\ DirtyInv
  BY <1>2, <1>3 DEF SpreadInv, SpreadOf, DirtyInv
<1>5. Len(problem.order) \in Nat
  BY ProblemsAssumption DEF Init, IsProblem
<1>6. BoundInv
  BY <1>2, <1>5 DEF BoundInv, IterationBound
<1> QED
  BY <1>1, <1>4, <1>6 DEF PassInv

\* A visit that leaves the blocks alone has seen that its block is settled.
LEMMA KeepSpread ==
  ASSUME PassInv, Visit, Keep(problem.order[pos])
  PROVE  PassInv'
PROOF
<1> DEFINE v == problem.order[pos]
<1>1. /\ IInv /\ IInv' /\ entry' = entry
  BY KeepLemma DEF PassInv
<1>2. /\ exit' = exit /\ dirty' = dirty /\ status' = status /\ problem' = problem
      /\ pos' = pos + 1 /\ iterations' = iterations
  BY DEF Keep, Visit
<1>3. pos \in Nat /\ pos >= 1
  BY <1>1, ProblemsAssumption DEF IInv, ProblemInv, TypeOK, IsProblem
<1>4. \A x : Held(x)' = Held(x) /\ \A b : Settled(x, b)' = Settled(x, b)
  BY <1>1, <1>2 DEF Held, Holding, Settled, Blocks
<1>5. ASSUME NEW x PROVE Settled(x, v)
  <2>1. CASE problem.sources[v] = {}
    BY <2>1 DEF Settled, Confluence
  <2> QED
    BY <2>1 DEF Settled, Keep
<1>6. SpreadInv'
  <2> SUFFICES ASSUME status = "solving", NEW x \in problem.bits PROVE SpreadOf(x)'
    BY <1>2 DEF SpreadInv
  <2>1. SpreadOf(x)
    BY DEF PassInv, SpreadInv
  <2>2. ASSUME \A i \in 1 .. pos - 1 : Settled(x, problem.order[i])
        PROVE  \A i \in 1 .. pos' - 1 : Settled(x, problem.order[i])
    <3> SUFFICES ASSUME NEW i \in 1 .. pos PROVE Settled(x, problem.order[i])
      BY <1>2, <1>3
    <3>1. i = pos \/ i \in 1 .. pos - 1
      BY <1>3
    <3> QED
      BY <3>1, <2>2, <1>5
  <2>3. Blocks' = Blocks
    BY <1>2 DEF Blocks
  <2> QED
    BY <2>1, <2>2, <2>3, <1>2, <1>4 DEF SpreadOf
<1>7. DirtyInv' /\ BoundInv'
  BY <1>2, <1>4 DEF PassInv, DirtyInv, BoundInv, IterationBound
<1> QED
  BY <1>1, <1>6, <1>7 DEF PassInv

\* A visit that changes its block counts for the bits that the block gets and
\* is none for the others.
LEMMA UpdateSpread ==
  ASSUME PassInv, Visit, Update(problem.order[pos])
  PROVE  PassInv'
PROOF
<1> DEFINE v == problem.order[pos]
           joined == Confluence(problem, exit, v)
<1>1. /\ IInv /\ IInv'
      /\ \A b \in Blocks : entry[b] \subseteq entry'[b]
  BY UpdateLemma DEF PassInv
<1>2. /\ entry' = [entry EXCEPT ![v] = joined]
      /\ exit' = [exit EXCEPT ![v] = Transfer(problem, v, joined)]
      /\ joined # entry[v] /\ problem' = problem /\ Blocks' = Blocks
      /\ dirty' = TRUE /\ status' = status /\ status = "solving"
      /\ pos' = pos + 1 /\ iterations' = iterations
  BY DEF Update, Visit, Blocks
<1>3. /\ problem \in Problems /\ Blocks = BlocksOf(problem)
      /\ pos \in 1 .. Len(problem.order) /\ Len(problem.order) \in Nat
      /\ iterations \in Nat
  BY <1>1, ProblemsAssumption DEF IInv, ProblemInv, TypeOK, Visit, IsProblem, Blocks
<1>4. v \in Blocks /\ \A i \in 1 .. pos - 1 : problem.order[i] \in Blocks
  BY <1>3, BlockLemma
<1>5. /\ entry \in [Blocks -> SUBSET problem.bits]
      /\ exit \in [Blocks -> SUBSET problem.bits]
      /\ joined \in SUBSET problem.bits
      /\ entry[v] \subseteq joined
  BY <1>1, <1>3, <1>4, ConfluenceType DEF IInv, TypeOK, GrowInv
<1>6. \A x : /\ Holding(x) \subseteq Holding(x)'
             /\ IsFiniteSet(Holding(x)) /\ IsFiniteSet(Holding(x)')
             /\ Held(x) \in Nat /\ Held(x)' \in Nat
  <2> SUFFICES ASSUME NEW x
               PROVE  /\ Holding(x) \subseteq Holding(x)'
                      /\ IsFiniteSet(Holding(x)) /\ IsFiniteSet(Holding(x)')
                      /\ Held(x) \in Nat /\ Held(x)' \in Nat
    OBVIOUS
  <2>1. Holding(x) \subseteq Holding(x)' /\ Holding(x)' \in SUBSET BlocksOf(problem)
    BY <1>1, <1>2, <1>3 DEF Holding
  <2> QED
    BY <1>1, <1>3, <2>1, HeldLemma, SomeBlocks DEF Held
<1>7. \A x : Held(x) <= Held(x)'
  BY <1>6, FS_Subset DEF Held
<1>8. ASSUME NEW x \in joined, x \notin entry[v]
      PROVE  Held(x)' >= Held(x) + 1
  <2>1. Holding(x)' = Holding(x) \cup {v} /\ v \notin Holding(x)
    BY <1>2, <1>4, <1>5, <1>8 DEF Holding
  <2>2. Cardinality(Holding(x) \cup {v}) = Cardinality(Holding(x)) + 1
    BY <1>6, <2>1, FS_AddElement
  <2> QED
    BY <1>6, <2>1, <2>2 DEF Held
<1>9. ASSUME NEW x, x \in joined => x \in entry[v]
      PROVE  \A b \in Blocks : Settled(x, b) <=> Settled(x, b)'
  <2>1. \A b \in Blocks : x \in entry[b] <=> x \in entry'[b]
    BY <1>2, <1>4, <1>5, <1>9
  <2>2. \A b \in Blocks : x \in exit[b] <=> x \in exit'[b]
    <3>1. /\ \A b \in Blocks : exit[b] = Transfer(problem, b, entry[b])
          /\ \A b \in Blocks : exit'[b] = Transfer(problem, b, entry'[b])
      BY <1>1, <1>2 DEF IInv, ExitInv
    <3> QED
      BY <2>1, <3>1 DEF Transfer
  <2>3. \A b \in Blocks : problem.sources[b] \subseteq Blocks
    BY <1>3, ProblemsAssumption DEF IsProblem
  <2>4. \A b \in Blocks :
          x \in Confluence(problem, exit, b) <=> x \in Confluence(problem, exit', b)
    BY <2>2, <2>3 DEF Confluence
  <2> QED
    BY <1>2, <2>1, <2>4 DEF Settled
<1>10. ASSUME NEW x \in problem.bits, x \in joined, x \notin entry[v]
       PROVE  Held(x)' >= iterations + 1 \/ \A b \in Blocks : Settled(x, b)
  <2>1. SpreadOf(x)
    BY <1>2 DEF PassInv, SpreadInv
  <2> QED
    BY <1>3, <1>6, <1>7, <1>8, <1>10, <2>1 DEF SpreadOf
<1>11. ASSUME NEW x \in problem.bits, x \in joined, x \notin entry[v]
       PROVE  Held(x)' >= iterations + 1
  <2>1. ~Settled(x, v)
    BY <1>11 DEF Settled
  <2> QED
    BY <1>4, <1>10, <1>11, <2>1
<1>12. SpreadInv'
  <2> SUFFICES ASSUME NEW x \in problem.bits PROVE SpreadOf(x)'
    BY <1>2 DEF SpreadInv
  <2>1. CASE x \in joined /\ x \notin entry[v]
    BY <1>2, <1>11, <2>1 DEF SpreadOf
  <2>2. CASE x \in joined => x \in entry[v]
    <3>1. \A b \in Blocks : Settled(x, b) <=> Settled(x, b)'
      BY <1>9, <2>2
    <3>2. ASSUME NEW b \in Blocks, b = v PROVE Settled(x, b)'
      BY <2>2, <3>1, <3>2 DEF Settled
    <3>3. SpreadOf(x)
      BY <1>2 DEF PassInv, SpreadInv
    <3>4. ASSUME \A i \in 1 .. pos - 1 : Settled(x, problem.order[i])
          PROVE  \A i \in 1 .. pos : Settled(x, problem.order[i])'
      <4> SUFFICES ASSUME NEW i \in 1 .. pos PROVE Settled(x, problem.order[i])'
        OBVIOUS
      <4>1. i = pos \/ i \in 1 .. pos - 1
        BY <1>3
      <4>2. CASE i = pos
        BY <4>2, <3>2, <1>2, <1>4 DEF Settled
      <4>3. CASE i \in 1 .. pos - 1
        BY <4>3, <3>1, <3>4, <1>2, <1>4 DEF Settled
      <4> QED
        BY <4>1, <4>2, <4>3
    <3>5. pos' - 1 = pos
      BY <1>2, <1>3
    <3>6. CASE \A b \in Blocks : Settled(x, b)
      BY <3>1, <3>6, <1>2 DEF SpreadOf
    <3>7. CASE Held(x) >= iterations + 1
      BY <3>7, <1>2, <1>3, <1>6, <1>7 DEF SpreadOf
    <3>8. CASE Held(x) >= iterations /\ \A i \in 1 .. pos - 1 : Settled(x, problem.order[i])
      <4>1. Held(x)' >= iterations'
        BY <3>8, <1>2, <1>3, <1>6, <1>7
      <4> QED
        BY <3>4, <3>5, <3>8, <4>1 DEF SpreadOf
    <3> QED
      BY <3>3, <3>6, <3>7, <3>8 DEF SpreadOf
  <2> QED
    BY <2>1, <2>2
<1>13. DirtyInv'
  <2>1. PICK x \in joined : x \notin entry[v]
    BY <1>2, <1>5
  <2>2. x \in problem.bits
    BY <1>5
  <2> QED
    BY <1>2, <1>11, <2>1, <2>2 DEF DirtyInv
<1>14. BoundInv'
  BY <1>2 DEF PassInv, BoundInv, IterationBound
<1> QED
  BY <1>1, <1>12, <1>13, <1>14 DEF PassInv

\* After a pass that has changed a block, some bit is in one block for every
\* pass; and a bit that the pass has left out is settled.
LEMMA EndPassSpread ==
  ASSUME PassInv, EndPass
  PROVE  PassInv'
PROOF
<1>1. IInv /\ IInv' /\ entry' = entry
  BY EndPassLemma DEF PassInv
<1>2. /\ exit' = exit /\ dirty' = FALSE /\ pos' = 1 /\ problem' = problem
      /\ status = "solving" /\ iterations' = iterations + 1
      /\ status' = "solving" => dirty
      /\ status' = "aborted" => iterations' > MaxIterations
      /\ pos > Len(problem.order)
  BY DEF EndPass
<1>3. /\ pos = Len(problem.order) + 1 /\ Len(problem.order) \in Nat
      /\ iterations \in Nat
  BY <1>1, <1>2, ProblemsAssumption DEF IInv, ProblemInv, TypeOK, IsProblem
<1>4. Blocks' = Blocks /\ \A x : Held(x)' = Held(x) /\ \A b : Settled(x, b)' = Settled(x, b)
  BY <1>1, <1>2 DEF Held, Holding, Settled, Blocks
<1>5. SpreadInv'
  <2> SUFFICES ASSUME NEW x \in problem.bits PROVE SpreadOf(x)'
    BY <1>2 DEF SpreadInv
  <2>1. SpreadOf(x)
    BY <1>2 DEF PassInv, SpreadInv
  <2>2. ASSUME \A i \in 1 .. pos - 1 : Settled(x, problem.order[i])
        PROVE  \A b \in Blocks : Settled(x, b)
    <3> SUFFICES ASSUME NEW b \in Blocks PROVE Settled(x, b)
      OBVIOUS
    <3>1. PICK i \in 1 .. Len(problem.order) : problem.order[i] = b
      BY DEF Blocks, BlocksOf
    <3>2. i \in 1 .. pos - 1
      BY <1>3
    <3> QED
      BY <2>2, <3>1, <3>2
  <2>3. \A i \in 1 .. pos' - 1 : FALSE
    BY <1>2
  <2> QED
    BY <2>1, <2>2, <2>3, <1>2, <1>4 DEF SpreadOf
<1>6. DirtyInv'
  BY <1>2 DEF DirtyInv
<1>7. BoundInv'
  <2>1. iterations + 1 <= Len(problem.order) + 1
    BY <1>2, <1>3 DEF PassInv, BoundInv
  <2>2. status' = "solving" => iterations + 1 <= Len(problem.order)
    <3> SUFFICES ASSUME dirty PROVE iterations + 1 <= Len(problem.order)
      BY <1>2
    <3>1. PICK x \in problem.bits : Held(x) >= iterations + 1
      BY <1>2 DEF PassInv, DirtyInv
    <3>2. Held(x) \in Nat /\ Held(x) <= Len(problem.order)
      BY <1>1, HeldLemma
    <3> QED
      BY <1>3, <3>1, <3>2
  <2> QED
    BY <1>2, <2>1, <2>2 DEF BoundInv, IterationBound
<1> QED
  BY <1>1, <1>5, <1>6, <1>7 DEF PassInv

\* Every step keeps count.
LEMMA PassNext == PassInv /\ [Next]_vars => PassInv'
PROOF
<1> SUFFICES ASSUME PassInv, [Next]_vars PROVE PassInv'
  OBVIOUS
<1>1. CASE Visit
  BY <1>1, UpdateSpread, KeepSpread DEF Visit
<1>2. CASE EndPass
  BY <1>2, EndPassSpread
<1>3. CASE UNCHANGED vars
  <2>1. IInv'
    BY <1>3, NextLemma DEF PassInv
  <2>2. Blocks' = Blocks /\ \A x : Held(x)' = Held(x) /\ \A b : Settled(x, b)' = Settled(x, b)
    BY <1>3 DEF vars, Held, Holding, Settled, Blocks
  <2>3. SpreadInv' /\ DirtyInv' /\ BoundInv'
    BY <1>3, <2>2 DEF vars, PassInv, SpreadInv, SpreadOf, DirtyInv, BoundInv, IterationBound
  <2> QED
    BY <2>1, <2>3 DEF PassInv
<1> QED
  BY <1>1, <1>2, <1>3 DEF Next

\* Solve passes over the blocks at most once for each of them and once more.
THEOREM PassesTheorem == Spec => []IterationBound
PROOF
<1>1. PassInv => IterationBound
  BY DEF PassInv, BoundInv
<1> QED
  BY <1>1, PassInit, PassNext, PTL DEF Spec

\* MAO_ASSERT(num_iterations <= kMaxNumberOfIterations) holds for every CFG
\* that has fewer blocks than that.
THEOREM AssertionTheorem ==
  Spec => [](Len(problem.order) < MaxIterations => status # "aborted")
PROOF
<1>1. PassInv => (Len(problem.order) < MaxIterations => status # "aborted")
  <2> SUFFICES ASSUME PassInv, status = "aborted"
               PROVE  ~ (Len(problem.order) < MaxIterations)
    OBVIOUS
  <2>1. iterations <= Len(problem.order) + 1 /\ iterations > MaxIterations
    BY DEF PassInv, BoundInv, IterationBound
  <2>2. iterations \in Nat /\ Len(problem.order) \in Nat /\ MaxIterations \in Nat
    BY ProblemsAssumption, MaxIterationsAssumption
       DEF PassInv, IInv, ProblemInv, TypeOK, IsProblem
  <2> QED
    BY <2>1, <2>2
<1> QED
  BY <1>1, PassInit, PassNext, PTL DEF Spec

-----------------------------------------------------------------------------
(* The recursions of Reach and Past.                                       *)

\* Every nonempty set of natural numbers has a least element.
LEMMA LeastElement ==
  ASSUME NEW T, T \subseteq Nat, T # {}
  PROVE  \E x \in T : \A y \in T : x <= y
PROOF
<1>1. \E x \in T : \A y \in T : ~ (<<y, x>> \in OpToRel(<, Nat))
  BY NatLessThanWellFounded, WFMin, Zenon
<1>2. \A x, y \in T : <<y, x>> \notin OpToRel(<, Nat) => x <= y
  BY DEF OpToRel
<1> QED
  BY <1>1, <1>2

\* What goes down with every number holds for all, if it holds for the last.
LEMMA CountDown ==
  ASSUME NEW n \in Nat, NEW R, n \in R, \A i \in 1 .. n : i \in R => i - 1 \in R
  PROVE  0 .. n \subseteq R
PROOF
<1> DEFINE D == {k \in 0 .. n : n - k \notin R}
<1>1. D = {}
  <2> SUFFICES ASSUME D # {} PROVE FALSE
    OBVIOUS
  <2>1. PICK k \in D : \A m \in D : k <= m
    <3>1. D \subseteq Nat /\ D # {}
      OBVIOUS
    <3> HIDE DEF D
    <3> QED
      BY ONLY <3>1, LeastElement
  <2>2. k # 0
    OBVIOUS
  <2>3. k - 1 \in 0 .. n /\ k - 1 \notin D /\ n - (k - 1) \in 1 .. n
    BY <2>1, <2>2
  <2>4. n - (k - 1) - 1 \in R
    BY <2>3
  <2> QED
    BY <2>4
<1>2. \A j \in 0 .. n : n - j \in 0 .. n /\ n - (n - j) = j
  OBVIOUS
<1> QED
  BY <1>1, <1>2

\* And what goes up with every number holds for all, if it holds for the first.
LEMMA CountUp ==
  ASSUME NEW n \in Nat, NEW R, 0 \in R, \A i \in 1 .. n : i - 1 \in R => i \in R
  PROVE  0 .. n \subseteq R
PROOF
<1> DEFINE D == {k \in 0 .. n : k \notin R}
<1> SUFFICES ASSUME D # {} PROVE FALSE
  OBVIOUS
<1>1. PICK k \in D : \A m \in D : k <= m
  <2>1. D \subseteq Nat /\ D # {}
    OBVIOUS
  <2> HIDE DEF D
  <2> QED
    BY ONLY <2>1, LeastElement
<1>2. k # 0
  OBVIOUS
<1>3. k - 1 \in 0 .. n /\ k - 1 \notin D /\ k \in 1 .. n
  BY <1>1, <1>2
<1> QED
  BY <1>3

-----------------------------------------------------------------------------
(* Reach.                                                                  *)

IsNear(f, n, step, from) ==
  f = [k \in 0 .. n |-> IF k = 0 THEN {from} ELSE Wider(step, f[k - 1])]

\* The recursion of Reach has a solution.
LEMMA NearExists ==
  ASSUME NEW step, NEW from, NEW N \in Nat
  PROVE  \E f : IsNear(f, N, step, from)
PROOF
<1> DEFINE D == {n \in Nat : ~ \E f : IsNear(f, n, step, from)}
<1> SUFFICES ASSUME D # {} PROVE FALSE
  OBVIOUS
<1>1. PICK n \in D : \A m \in D : n <= m
  <2>1. D \subseteq Nat /\ D # {}
    OBVIOUS
  <2> HIDE DEF D
  <2> QED
    BY ONLY <2>1, LeastElement
<1>2. CASE n = 0
  <2>1. IsNear([k \in 0 .. 0 |-> {from}], 0, step, from)
    BY DEF IsNear
  <2> QED
    BY <2>1, <1>1, <1>2
<1>3. CASE n # 0
  <2>1. n - 1 \in Nat /\ n - 1 \notin D
    BY <1>1, <1>3
  <2>2. PICK f : IsNear(f, n - 1, step, from)
    BY <2>1
  <2> DEFINE g == [k \in 0 .. n |-> IF k = n THEN Wider(step, f[n - 1]) ELSE f[k]]
  <2>3. \A k \in 0 .. n - 1 : f[k] = IF k = 0 THEN {from} ELSE Wider(step, f[k - 1])
    BY ONLY <2>1, <2>2 DEF IsNear
  <2>4. ASSUME NEW k \in 0 .. n
        PROVE  g[k] = IF k = 0 THEN {from} ELSE Wider(step, g[k - 1])
    <3>1. CASE k = n
      <4>1. k # 0 /\ g[n] = g[k] /\ g[k - 1] = f[n - 1]
        BY <1>3, <2>1, <3>1
      <4> QED
        BY <3>1, <4>1
    <3>2. CASE k # n
      <4>1. k \in 0 .. n - 1 /\ g[k] = f[k]
        BY <3>2
      <4>2. k # 0 => g[k - 1] = f[k - 1]
        BY <4>1
      <4> QED
        BY <2>3, <4>1, <4>2
    <3> QED
      BY <3>1, <3>2
  <2>5. IsNear(g, n, step, from)
    <3> HIDE DEF g
    <3>1. g = [k \in 0 .. n |-> g[k]]
      BY DEF g
    <3>2. \A k \in 0 .. n : g[k] = IF k = 0 THEN {from} ELSE Wider(step, g[k - 1])
      BY <2>4
    <3> QED
      BY ONLY <3>1, <3>2 DEF IsNear
  <2> QED
    BY <2>5, <1>1
<1> QED
  BY <1>2, <1>3

\* Its values, one after the other.
IsWalk(f, P, step, from) ==
  /\ f[0] = {from}
  /\ \A k \in 1 .. Cardinality(P) : f[k] = Wider(step, f[k - 1])
  /\ Reach(step, from) = f[Cardinality(P)]

\* So Reach is the last set of a walk.
LEMMA NearLemma ==
  ASSUME NEW P, IsFiniteSet(P), NEW step \in [P -> SUBSET P], NEW from
  PROVE  \E f : IsWalk(f, P, step, from)
PROOF
<1> DEFINE n == Cardinality(P)
           f == CHOOSE f : IsNear(f, n, step, from)
<1>1. n \in Nat /\ DOMAIN step = P
  BY FS_CardinalityType
<1>2. IsNear(f, n, step, from)
  BY <1>1, NearExists
<1>3. Reach(step, from) = f[n]
  BY <1>1, Zenon DEF Reach, IsNear
<1>4. f[0] = {from} /\ \A k \in 1 .. n : f[k] = Wider(step, f[k - 1])
  <2> HIDE DEF f, n
  <2>1. \A k \in 0 .. n : f[k] = IF k = 0 THEN {from} ELSE Wider(step, f[k - 1])
    BY ONLY <1>1, <1>2 DEF IsNear
  <2> QED
    BY ONLY <1>1, <2>1
<1>5. IsWalk(f, P, step, from)
  BY <1>3, <1>4 DEF IsWalk
<1> QED
  BY <1>5

\* Whatever holds from and is closed holds all that is reached.
LEMMA ReachLeast ==
  ASSUME NEW P, IsFiniteSet(P), NEW step \in [P -> SUBSET P], NEW from,
         NEW S, from \in S, \A p \in S : step[p] \subseteq S
  PROVE  Reach(step, from) \subseteq S
PROOF
<1>1. PICK f : /\ f[0] = {from}
               /\ \A k \in 1 .. Cardinality(P) : f[k] = Wider(step, f[k - 1])
               /\ Reach(step, from) = f[Cardinality(P)]
  <2>1. \E f : IsWalk(f, P, step, from)
    BY NearLemma
  <2> QED
    BY <2>1 DEF IsWalk
<1>2. Cardinality(P) \in Nat
  BY FS_CardinalityType
<1> DEFINE D == {k \in 0 .. Cardinality(P) : ~ (f[k] \subseteq S)}
<1>3. D = {}
  <2> SUFFICES ASSUME D # {} PROVE FALSE
    OBVIOUS
  <2>1. PICK k \in D : \A m \in D : k <= m
    <3>1. D \subseteq Nat /\ D # {}
      BY <1>2
    <3> HIDE DEF D
    <3> QED
      BY ONLY <3>1, LeastElement
  <2>2. k # 0 /\ k \in 1 .. Cardinality(P) /\ k - 1 \in 0 .. Cardinality(P)
    BY <1>1, <1>2
  <2>3. f[k - 1] \subseteq S
    BY <2>1, <2>2
  <2>4. f[k] \subseteq S
    BY <1>1, <2>2, <2>3 DEF Wider
  <2> QED
    BY <2>1, <2>4
<1> QED
  BY <1>1, <1>2, <1>3

\* What is reached is within the set, holds from and is closed: the steps are
\* as many as the set has elements, and every one that adds anything adds one.
LEMMA ReachClosed ==
  ASSUME NEW P, IsFiniteSet(P), NEW step \in [P -> SUBSET P], NEW from \in P
  PROVE  /\ Reach(step, from) \subseteq P
         /\ from \in Reach(step, from)
         /\ \A p \in Reach(step, from) : step[p] \subseteq Reach(step, from)
PROOF
<1> DEFINE n == Cardinality(P)
<1>1. PICK f : /\ f[0] = {from}
               /\ \A k \in 1 .. n : f[k] = Wider(step, f[k - 1])
               /\ Reach(step, from) = f[n]
  <2>1. \E f : IsWalk(f, P, step, from)
    BY NearLemma
  <2> QED
    BY <2>1 DEF IsWalk
<1>2. n \in Nat
  BY FS_CardinalityType
<1> HIDE DEF n
<1> DEFINE D == {k \in 0 .. n : ~ (from \in f[k] /\ f[k] \subseteq P)}
<1>3. \A k \in 0 .. n : from \in f[k] /\ f[k] \subseteq P
  <2> SUFFICES ASSUME D # {} PROVE FALSE
    OBVIOUS
  <2>1. PICK k \in D : \A m \in D : k <= m
    <3>1. D \subseteq Nat /\ D # {}
      BY <1>2
    <3> HIDE DEF D
    <3> QED
      BY ONLY <3>1, LeastElement
  <2>2. k # 0 /\ k \in 1 .. n /\ k - 1 \in 0 .. n
    BY <1>1, <1>2
  <2>3. from \in f[k - 1] /\ f[k - 1] \subseteq P
    BY <2>1, <2>2
  <2>4. from \in f[k] /\ f[k] \subseteq P
    BY <1>1, <2>2, <2>3 DEF Wider
  <2> QED
    BY <2>1, <2>4
<1> HIDE DEF D
\* A step that adds nothing is the last that adds anything.
<1>4. ASSUME NEW k \in 0 .. n, Wider(step, f[k]) = f[k]
      PROVE  f[n] = f[k]
  <2> DEFINE E == {j \in k .. n : f[j] # f[k]}
  <2> SUFFICES ASSUME E # {} PROVE FALSE
    BY <1>2
  <2>1. PICK j \in E : \A m \in E : j <= m
    <3>1. E \subseteq Nat /\ E # {}
      BY <1>2
    <3> HIDE DEF E
    <3> QED
      BY ONLY <3>1, LeastElement
  <2>2. j # k /\ j \in 1 .. n /\ j - 1 \in k .. n
    BY <1>2
  <2>3. f[j - 1] = f[k]
    BY <2>1, <2>2
  <2>4. f[j] = Wider(step, f[k])
    BY <1>1, <2>2, <2>3
  <2> QED
    BY <2>4, <1>4
<1>5. Wider(step, f[n]) = f[n]
  <2> SUFFICES ASSUME Wider(step, f[n]) # f[n] PROVE FALSE
    OBVIOUS
  <2>1. \A k \in 0 .. n : Wider(step, f[k]) # f[k]
    <3> SUFFICES ASSUME NEW k \in 0 .. n, Wider(step, f[k]) = f[k] PROVE FALSE
      OBVIOUS
    <3> QED
      BY <1>4
  <2>2. \A k \in 0 .. n : IsFiniteSet(f[k]) /\ Cardinality(f[k]) \in Nat
    BY <1>3, FS_Subset, FS_CardinalityType
  <2> DEFINE F == {k \in 0 .. n : ~ (Cardinality(f[k]) >= k + 1)}
  <2>3. F = {}
    <3> SUFFICES ASSUME F # {} PROVE FALSE
      OBVIOUS
    <3>1. PICK k \in F : \A m \in F : k <= m
      <4>1. F \subseteq Nat /\ F # {}
        BY <1>2
      <4> HIDE DEF F
      <4> QED
        BY ONLY <4>1, LeastElement
    <3>2. CASE k = 0
      <4>1. Cardinality(f[0]) = 1
        BY <1>1, FS_Singleton
      <4> QED
        BY <3>1, <3>2, <4>1
    <3>3. CASE k # 0
      <4>1. k \in 1 .. n /\ k - 1 \in 0 .. n /\ k - 1 \notin F
        BY <1>2, <3>1, <3>3
      <4>2. f[k] = Wider(step, f[k - 1]) /\ f[k] # f[k - 1]
        BY <1>1, <2>1, <4>1
      <4>3. f[k - 1] \subseteq f[k]
        BY <4>2 DEF Wider
      <4>4. Cardinality(f[k - 1]) <= Cardinality(f[k]) /\ Cardinality(f[k]) # Cardinality(f[k - 1])
        BY <2>2, <4>1, <4>2, <4>3, FS_Subset
      <4>5. Cardinality(f[k - 1]) >= k
        BY <4>1
      <4>6. Cardinality(f[k]) >= k + 1
        BY <2>2, <4>1, <4>4, <4>5
      <4> QED
        BY <3>1, <4>6
    <3> QED
      BY <3>2, <3>3
  <2>4. Cardinality(f[n]) >= n + 1
    <3>1. n \notin F /\ n \in 0 .. n
      BY <1>2, <2>3
    <3> QED
      BY <3>1
  <2>5. Cardinality(f[n]) <= n
    BY <1>2, <1>3, FS_Subset DEF n
  <2> QED
    BY <1>2, <2>2, <2>4, <2>5
<1>6. \A p \in f[n] : step[p] \subseteq f[n]
  BY <1>5 DEF Wider
<1> QED
  BY <1>1, <1>2, <1>3, <1>6

-----------------------------------------------------------------------------
(* Past.                                                                   *)

IsAt(f, n, puts, takes, bits) ==
  f = [k \in 0 .. n |-> IF k = 0 THEN bits ELSE puts[k] \cup (f[k - 1] \ takes[k])]

\* The recursion of Past has a solution.
LEMMA AtExists ==
  ASSUME NEW puts, NEW takes, NEW bits, NEW N \in Nat
  PROVE  \E f : IsAt(f, N, puts, takes, bits)
PROOF
<1> DEFINE D == {n \in Nat : ~ \E f : IsAt(f, n, puts, takes, bits)}
<1> SUFFICES ASSUME D # {} PROVE FALSE
  OBVIOUS
<1>1. PICK n \in D : \A m \in D : n <= m
  <2>1. D \subseteq Nat /\ D # {}
    OBVIOUS
  <2> HIDE DEF D
  <2> QED
    BY ONLY <2>1, LeastElement
<1>2. CASE n = 0
  <2>1. IsAt([k \in 0 .. 0 |-> bits], 0, puts, takes, bits)
    BY DEF IsAt
  <2> QED
    BY <2>1, <1>1, <1>2
<1>3. CASE n # 0
  <2>1. n - 1 \in Nat /\ n - 1 \notin D
    BY <1>1, <1>3
  <2>2. PICK f : IsAt(f, n - 1, puts, takes, bits)
    BY <2>1
  <2> DEFINE g == [k \in 0 .. n |-> IF k = n THEN puts[n] \cup (f[n - 1] \ takes[n]) ELSE f[k]]
  <2>3. \A k \in 0 .. n - 1 :
          f[k] = IF k = 0 THEN bits ELSE puts[k] \cup (f[k - 1] \ takes[k])
    BY ONLY <2>1, <2>2 DEF IsAt
  <2>4. ASSUME NEW k \in 0 .. n
        PROVE  g[k] = IF k = 0 THEN bits ELSE puts[k] \cup (g[k - 1] \ takes[k])
    <3>1. CASE k = n
      <4>1. k # 0 /\ g[n] = g[k] /\ g[k - 1] = f[n - 1]
        BY <1>3, <2>1, <3>1
      <4> QED
        BY <3>1, <4>1
    <3>2. CASE k # n
      <4>1. k \in 0 .. n - 1 /\ g[k] = f[k]
        BY <3>2
      <4>2. k # 0 => g[k - 1] = f[k - 1]
        BY <4>1
      <4> QED
        BY <2>3, <4>1, <4>2
    <3> QED
      BY <3>1, <3>2
  <2>5. IsAt(g, n, puts, takes, bits)
    <3> HIDE DEF g
    <3>1. g = [k \in 0 .. n |-> g[k]]
      BY DEF g
    <3>2. \A k \in 0 .. n : g[k] = IF k = 0 THEN bits ELSE puts[k] \cup (g[k - 1] \ takes[k])
      BY <2>4
    <3> QED
      BY ONLY <3>1, <3>2 DEF IsAt
  <2> QED
    BY <2>5, <1>1
<1> QED
  BY <1>2, <1>3

\* One instruction more.
LEMMA PastLemma ==
  ASSUME NEW puts, NEW takes, NEW bits, NEW n \in Nat
  PROVE  /\ Past(0, puts, takes, bits) = bits
         /\ Past(n + 1, puts, takes, bits)
              = puts[n + 1] \cup (Past(n, puts, takes, bits) \ takes[n + 1])
PROOF
<1> DEFINE At(m) == CHOOSE f : IsAt(f, m, puts, takes, bits)
<1>1. \A m \in Nat : IsAt(At(m), m, puts, takes, bits)
  BY AtExists
<1>2. \A m \in Nat : Past(m, puts, takes, bits) = At(m)[m]
  BY Zenon DEF Past, IsAt
<1> HIDE DEF At
<1>3. \A m \in Nat : \A k \in 0 .. m :
        At(m)[k] = IF k = 0 THEN bits ELSE puts[k] \cup (At(m)[k - 1] \ takes[k])
  <2> SUFFICES ASSUME NEW m \in Nat
               PROVE  \A k \in 0 .. m :
                        At(m)[k] = IF k = 0 THEN bits
                                   ELSE puts[k] \cup (At(m)[k - 1] \ takes[k])
    OBVIOUS
  <2> DEFINE f == At(m)
  <2>1. f = [k \in 0 .. m |-> IF k = 0 THEN bits ELSE puts[k] \cup (f[k - 1] \ takes[k])]
    BY <1>1 DEF IsAt
  <2> HIDE DEF f
  <2>2. \A k \in 0 .. m : f[k] = IF k = 0 THEN bits ELSE puts[k] \cup (f[k - 1] \ takes[k])
    BY ONLY <2>1
  <2> QED
    BY <2>2 DEF f
<1>4. ASSUME NEW j \in 0 .. n
      PROVE  At(n + 1)[j] = At(n)[j]
  <2> DEFINE D == {k \in 0 .. n : At(n + 1)[k] # At(n)[k]}
  <2> SUFFICES ASSUME D # {} PROVE FALSE
    OBVIOUS
  <2>1. PICK k \in D : \A m \in D : k <= m
    <3>1. D \subseteq Nat /\ D # {}
      OBVIOUS
    <3> HIDE DEF D
    <3> QED
      BY ONLY <3>1, LeastElement
  <2>2. n + 1 \in Nat /\ k \in 0 .. n + 1 /\ k \in 0 .. n
    OBVIOUS
  <2>3. /\ At(n)[k] = IF k = 0 THEN bits ELSE puts[k] \cup (At(n)[k - 1] \ takes[k])
        /\ At(n + 1)[k] = IF k = 0 THEN bits ELSE puts[k] \cup (At(n + 1)[k - 1] \ takes[k])
    BY ONLY <1>3, <2>2
  <2>4. k # 0 => At(n + 1)[k - 1] = At(n)[k - 1]
    <3>1. k # 0 => k - 1 \in 0 .. n /\ k - 1 \notin D
      BY <2>1, <2>2
    <3> QED
      BY <3>1
  <2> QED
    BY <2>1, <2>3, <2>4
<1>5. At(0)[0] = bits
  <2>1. 0 \in Nat /\ 0 \in 0 .. 0
    OBVIOUS
  <2>2. At(0)[0] = IF 0 = 0 THEN bits ELSE puts[0] \cup (At(0)[0 - 1] \ takes[0])
    BY ONLY <1>3, <2>1
  <2> QED
    BY <2>2
<1>6. At(n + 1)[n + 1] = puts[n + 1] \cup (At(n)[n] \ takes[n + 1])
  <2>1. \A m \in Nat : m # 0 => At(m)[m] = puts[m] \cup (At(m)[m - 1] \ takes[m])
    <3> SUFFICES ASSUME NEW m \in Nat, m # 0
                 PROVE  At(m)[m] = puts[m] \cup (At(m)[m - 1] \ takes[m])
      OBVIOUS
    <3>1. m \in 0 .. m
      OBVIOUS
    <3> QED
      BY <1>3, <3>1
  <2>2. n + 1 \in Nat /\ n + 1 # 0 /\ n + 1 - 1 = n
    OBVIOUS
  <2>3. At(n + 1)[n + 1] = puts[n + 1] \cup (At(n + 1)[n] \ takes[n + 1])
    BY <2>1, <2>2
  <2> QED
    BY <1>4, <2>3
<1>7. Past(n, puts, takes, bits) = At(n)[n] /\ Past(0, puts, takes, bits) = At(0)[0]
  BY <1>2
<1>8. Past(n + 1, puts, takes, bits) = At(n + 1)[n + 1]
  <2>1. n + 1 \in Nat
    OBVIOUS
  <2> QED
    BY ONLY <1>2, <2>1
<1> QED
  BY ONLY <1>5, <1>6, <1>7, <1>8

\* The algebra of one more instruction.
LEMMA SplitSets ==
  ASSUME NEW p, NEW t, NEW a, NEW b, NEW c, NEW bits, a = b \cup (bits \ c)
  PROVE  p \cup (a \ t) = (p \cup (b \ t)) \cup (bits \ (t \cup (c \ p)))
PROOF
  OBVIOUS

\* What is put in is put in whatever came before: the bits past n instructions
\* are those of the empty set, and of the bits those that are not taken out.
LEMMA PastSplit ==
  ASSUME NEW puts, NEW takes, NEW bits, NEW n \in Nat
  PROVE  Past(n, puts, takes, bits)
           = Past(n, puts, takes, {}) \cup (bits \ Past(n, takes, puts, {}))
PROOF
<1> DEFINE Split(k) == Past(k, puts, takes, bits)
                         = Past(k, puts, takes, {}) \cup (bits \ Past(k, takes, puts, {}))
           D == {k \in Nat : ~ Split(k)}
<1> SUFFICES ASSUME D # {} PROVE FALSE
  OBVIOUS
<1>1. PICK k \in D : \A m \in D : k <= m
  <2>1. D \subseteq Nat /\ D # {}
    OBVIOUS
  <2> HIDE DEF D
  <2> QED
    BY ONLY <2>1, LeastElement
<1>2. CASE k = 0
  <2>1. /\ Past(0, puts, takes, bits) = bits
        /\ Past(0, puts, takes, {}) = {}
        /\ Past(0, takes, puts, {}) = {}
    BY PastLemma
  <2> QED
    BY <1>1, <1>2, <2>1
<1>3. CASE k # 0
  <2>1. k - 1 \in Nat /\ k - 1 \notin D /\ k - 1 + 1 = k
    BY <1>1, <1>3
  <2> DEFINE m == k - 1
  <2>2. m \in Nat /\ m + 1 = k /\ Split(m)
    BY <2>1
  <2> HIDE DEF m
  <2>3. /\ Past(m + 1, puts, takes, bits) = puts[m + 1] \cup (Past(m, puts, takes, bits) \ takes[m + 1])
        /\ Past(m + 1, puts, takes, {}) = puts[m + 1] \cup (Past(m, puts, takes, {}) \ takes[m + 1])
        /\ Past(m + 1, takes, puts, {}) = takes[m + 1] \cup (Past(m, takes, puts, {}) \ puts[m + 1])
    <3>1. m \in Nat
      BY <2>2
    <3>2. Past(m + 1, puts, takes, bits) = puts[m + 1] \cup (Past(m, puts, takes, bits) \ takes[m + 1])
      BY ONLY <3>1, PastLemma
    <3>3. Past(m + 1, puts, takes, {}) = puts[m + 1] \cup (Past(m, puts, takes, {}) \ takes[m + 1])
      BY ONLY <3>1, PastLemma
    <3>4. Past(m + 1, takes, puts, {}) = takes[m + 1] \cup (Past(m, takes, puts, {}) \ puts[m + 1])
      BY ONLY <3>1, PastLemma
    <3> QED
      BY ONLY <3>2, <3>3, <3>4
  <2>4. Past(m, puts, takes, bits) = Past(m, puts, takes, {}) \cup (bits \ Past(m, takes, puts, {}))
    BY ONLY <2>2
  <2>5. puts[m + 1] \cup (Past(m, puts, takes, bits) \ takes[m + 1])
          = (puts[m + 1] \cup (Past(m, puts, takes, {}) \ takes[m + 1]))
              \cup (bits \ (takes[m + 1] \cup (Past(m, takes, puts, {}) \ puts[m + 1])))
    BY ONLY <2>4, SplitSets, Zenon
  <2>6. Split(m + 1)
    BY ONLY <2>3, <2>5, Zenon
  <2> QED
    BY <1>1, <2>2, <2>6
<1> QED
  BY <1>2, <1>3

-----------------------------------------------------------------------------
(* The points of a program.                                                *)

\* What the problems ask of a program.
IsProgram(g) ==
  /\ IsFiniteSet(BlocksIn(g))
  /\ \A b \in BlocksIn(g) : g.succ[b] \subseteq BlocksIn(g) /\ Len(g.insns[b]) \in Nat

\* A point is a block and a place in it.
LEMMA PointLemma ==
  ASSUME NEW g, IsProgram(g)
  PROVE  /\ \A b \in BlocksIn(g) : \A i \in 1 .. Len(g.insns[b]) + 1 :
              /\ <<b, i>> \in Points(g)
              /\ i # Len(g.insns[b]) + 1 => <<b, i>> \in InsnsIn(g)
         /\ \A p \in Points(g) : /\ p = <<p[1], p[2]>> /\ p[1] \in BlocksIn(g)
                                 /\ p[2] \in 1 .. Len(g.insns[p[1]]) + 1
                                 /\ ~AtEnd(g, p) => p \in InsnsIn(g)
         /\ \A p \in InsnsIn(g) : /\ p = <<p[1], p[2]>> /\ p[1] \in BlocksIn(g)
                                  /\ p[2] \in 1 .. Len(g.insns[p[1]])
                                  /\ p \in Points(g) /\ ~AtEnd(g, p)
PROOF
<1>1. ASSUME NEW b \in BlocksIn(g), NEW i \in 1 .. Len(g.insns[b]) + 1
      PROVE  /\ <<b, i>> \in Points(g)
             /\ i # Len(g.insns[b]) + 1 => <<b, i>> \in InsnsIn(g)
  <2>1. Len(g.insns[b]) \in Nat
    BY DEF IsProgram
  <2>2. <<b, i>> \in {b} \X (1 .. Len(g.insns[b]) + 1)
    OBVIOUS
  <2>3. i # Len(g.insns[b]) + 1 => <<b, i>> \in {b} \X (1 .. Len(g.insns[b]))
    BY <2>1
  <2> QED
    BY <2>2, <2>3 DEF Points, InsnsIn
<1>2. ASSUME NEW p \in InsnsIn(g)
      PROVE  /\ p = <<p[1], p[2]>> /\ p[1] \in BlocksIn(g)
             /\ p[2] \in 1 .. Len(g.insns[p[1]])
             /\ p \in Points(g) /\ ~AtEnd(g, p)
  <2>1. PICK b \in BlocksIn(g) : p \in {b} \X (1 .. Len(g.insns[b]))
    BY DEF InsnsIn
  <2>2. Len(g.insns[b]) \in Nat
    BY DEF IsProgram
  <2>3. p = <<p[1], p[2]>> /\ p[1] = b /\ p[2] \in 1 .. Len(g.insns[b])
    BY <2>1
  <2>4. p[2] \in 1 .. Len(g.insns[b]) + 1 /\ p[2] # Len(g.insns[b]) + 1
    BY <2>2, <2>3
  <2>5. <<p[1], p[2]>> \in Points(g)
    BY <1>1, <2>3, <2>4
  <2> QED
    BY <2>3, <2>4, <2>5 DEF AtEnd
<1>3. ASSUME NEW p \in Points(g)
      PROVE  /\ p = <<p[1], p[2]>> /\ p[1] \in BlocksIn(g)
             /\ p[2] \in 1 .. Len(g.insns[p[1]]) + 1
             /\ ~AtEnd(g, p) => p \in InsnsIn(g)
  <2>1. PICK b \in BlocksIn(g) : p \in {b} \X (1 .. Len(g.insns[b]) + 1)
    BY DEF Points
  <2>2. p = <<p[1], p[2]>> /\ p[1] = b /\ p[2] \in 1 .. Len(g.insns[b]) + 1
    BY <2>1
  <2>3. ~AtEnd(g, p) => p[2] # Len(g.insns[b]) + 1
    BY <2>2 DEF AtEnd
  <2>4. ~AtEnd(g, p) => <<p[1], p[2]>> \in InsnsIn(g)
    BY <1>1, <2>2, <2>3
  <2> QED
    BY <2>2, <2>4
<1> QED
  BY <1>1, <1>2, <1>3

\* There are finitely many of them.
LEMMA PointsFinite ==
  ASSUME NEW g, IsProgram(g)
  PROVE  IsFiniteSet(Points(g))
PROOF
<1> DEFINE PointsOf(b) == {b} \X (1 .. Len(g.insns[b]) + 1)
           all == {PointsOf(b) : b \in BlocksIn(g)}
           f == [b \in BlocksIn(g) |-> PointsOf(b)]
<1>1. \A b \in BlocksIn(g) : IsFiniteSet(PointsOf(b))
  <2> SUFFICES ASSUME NEW b \in BlocksIn(g) PROVE IsFiniteSet(PointsOf(b))
    OBVIOUS
  <2>1. Len(g.insns[b]) \in Nat
    BY DEF IsProgram
  <2>2. 1 \in Int /\ Len(g.insns[b]) + 1 \in Int
    BY <2>1
  <2>3. IsFiniteSet(1 .. Len(g.insns[b]) + 1)
    BY <2>2, FS_Interval
  <2>4. IsFiniteSet({b})
    BY FS_Singleton
  <2> QED
    BY <2>3, <2>4, FS_Product
<1>2. f \in Surjection(BlocksIn(g), all)
  BY DEF Surjection
<1>3. IsFiniteSet(all)
  <2>1. IsFiniteSet(BlocksIn(g))
    BY DEF IsProgram
  <2> HIDE DEF f, all
  <2> QED
    BY <1>2, <2>1, FS_Surjection
<1>4. \A T \in all : IsFiniteSet(T)
  BY <1>1
<1>5. Points(g) = UNION all
  BY DEF Points
<1> HIDE DEF all
<1> QED
  BY <1>3, <1>4, <1>5, FS_UNION

\* A step leads from a point to points.
LEMMA OnwardType ==
  ASSUME NEW g, IsProgram(g), NEW x
  PROVE  /\ Onward(g, x) \in [Points(g) -> SUBSET Points(g)]
         /\ \A p \in Points(g) : AtEnd(g, p) => Onward(g, x)[p] = g.succ[p[1]] \X {1}
         /\ \A p \in InsnsIn(g) :
              /\ x \in InsnAt(g, p).def => Onward(g, x)[p] = {}
              /\ x \notin InsnAt(g, p).def => Onward(g, x)[p] = {<<p[1], p[2] + 1>>}
PROOF
<1>1. ASSUME NEW p \in Points(g), AtEnd(g, p)
      PROVE  /\ Onward(g, x)[p] = g.succ[p[1]] \X {1}
             /\ Onward(g, x)[p] \subseteq Points(g)
  <2>1. Onward(g, x)[p] = g.succ[p[1]] \X {1}
    BY <1>1 DEF Onward, After
  <2>2. \A c \in g.succ[p[1]] : <<c, 1>> \in Points(g)
    <3> SUFFICES ASSUME NEW c \in g.succ[p[1]] PROVE <<c, 1>> \in Points(g)
      OBVIOUS
    <3>1. c \in BlocksIn(g) /\ Len(g.insns[c]) \in Nat
      BY PointLemma DEF IsProgram
    <3>2. 1 \in 1 .. Len(g.insns[c]) + 1
      BY <3>1
    <3> QED
      BY <3>1, <3>2, PointLemma
  <2> QED
    BY <2>1, <2>2
<1>2. ASSUME NEW p \in InsnsIn(g)
      PROVE  /\ x \in InsnAt(g, p).def => Onward(g, x)[p] = {}
             /\ x \notin InsnAt(g, p).def => Onward(g, x)[p] = {<<p[1], p[2] + 1>>}
             /\ Onward(g, x)[p] \subseteq Points(g)
  <2>1. /\ p[1] \in BlocksIn(g) /\ p[2] \in 1 .. Len(g.insns[p[1]])
        /\ p \in Points(g) /\ ~AtEnd(g, p) /\ Len(g.insns[p[1]]) \in Nat
    BY PointLemma DEF IsProgram
  <2>2. p[2] + 1 \in 1 .. Len(g.insns[p[1]]) + 1
    BY <2>1
  <2>3. <<p[1], p[2] + 1>> \in Points(g)
    BY <2>1, <2>2, PointLemma
  <2>4. /\ x \in InsnAt(g, p).def => Onward(g, x)[p] = {}
        /\ x \notin InsnAt(g, p).def => Onward(g, x)[p] = {<<p[1], p[2] + 1>>}
    BY <2>1 DEF Onward, After
  <2> QED
    BY <2>3, <2>4
<1>3. \A p \in Points(g) : Onward(g, x)[p] \subseteq Points(g)
  BY <1>1, <1>2, PointLemma
<1>4. Onward(g, x) \in [Points(g) -> SUBSET Points(g)]
  <2>1. Onward(g, x) = [p \in Points(g) |-> Onward(g, x)[p]]
    BY DEF Onward
  <2> QED
    BY ONLY <1>3, <2>1
<1> QED
  BY <1>1, <1>2, <1>4

-----------------------------------------------------------------------------
(* Paths.                                                                  *)

\* Control stays at the points, gets to where it starts and goes on from there.
LEMMA FlowClosed ==
  ASSUME NEW g, IsProgram(g), NEW x, NEW p \in Points(g)
  PROVE  /\ Flow(g, x, p) \subseteq Points(g)
         /\ p \in Flow(g, x, p)
         /\ \A q \in Flow(g, x, p) : Onward(g, x)[q] \subseteq Flow(g, x, p)
PROOF
<1>1. IsFiniteSet(Points(g)) /\ Onward(g, x) \in [Points(g) -> SUBSET Points(g)]
  BY PointsFinite, OnwardType
<1> QED
  BY <1>1, ReachClosed DEF Flow

\* It gets to nothing outside a set that it cannot leave.
LEMMA FlowLeast ==
  ASSUME NEW g, IsProgram(g), NEW x, NEW p,
         NEW S, p \in S, \A q \in S : Onward(g, x)[q] \subseteq S
  PROVE  Flow(g, x, p) \subseteq S
PROOF
<1>1. IsFiniteSet(Points(g)) /\ Onward(g, x) \in [Points(g) -> SUBSET Points(g)]
  BY PointsFinite, OnwardType
<1> QED
  BY <1>1, ReachLeast DEF Flow

\* What control gets to, it gets to by its first step, or it is there.
LEMMA FlowFirst ==
  ASSUME NEW g, IsProgram(g), NEW x, NEW p \in Points(g), NEW t
  PROVE  t \in Flow(g, x, p) <=> t = p \/ \E q \in Onward(g, x)[p] : t \in Flow(g, x, q)
PROOF
<1> DEFINE S == {p} \cup UNION {Flow(g, x, q) : q \in Onward(g, x)[p]}
<1>1. Onward(g, x)[p] \subseteq Points(g)
  BY OnwardType
<1>2. \A q \in Onward(g, x)[p] : /\ q \in Flow(g, x, q)
                                 /\ \A u \in Flow(g, x, q) : Onward(g, x)[u] \subseteq Flow(g, x, q)
  BY <1>1, FlowClosed
<1>3. Flow(g, x, p) \subseteq S
  <2>1. ASSUME NEW u \in S PROVE Onward(g, x)[u] \subseteq S
    <3>1. CASE u = p
      BY <3>1, <1>2
    <3>2. CASE u # p
      <4>1. PICK q \in Onward(g, x)[p] : u \in Flow(g, x, q)
        BY <3>2
      <4> QED
        BY <4>1, <1>2
    <3> QED
      BY <3>1, <3>2
  <2>2. p \in S
    OBVIOUS
  <2> HIDE DEF S
  <2> QED
    BY <2>1, <2>2, FlowLeast
<1>4. \A q \in Onward(g, x)[p] : Flow(g, x, q) \subseteq Flow(g, x, p)
  <2> SUFFICES ASSUME NEW q \in Onward(g, x)[p] PROVE Flow(g, x, q) \subseteq Flow(g, x, p)
    OBVIOUS
  <2>1. q \in Flow(g, x, p) /\ \A u \in Flow(g, x, p) : Onward(g, x)[u] \subseteq Flow(g, x, p)
    BY FlowClosed
  <2> QED
    BY <2>1, FlowLeast
<1>5. p \in Flow(g, x, p)
  BY FlowClosed
<1> QED
  BY <1>3, <1>4, <1>5

\* It gets there by its last step, or is there.
LEMMA FlowLast ==
  ASSUME NEW g, IsProgram(g), NEW x, NEW p \in Points(g), NEW t \in Flow(g, x, p), t # p
  PROVE  \E q \in Flow(g, x, p) : t \in Onward(g, x)[q]
PROOF
<1> DEFINE S == {p} \cup UNION {Onward(g, x)[q] : q \in Flow(g, x, p)}
<1>1. p \in Flow(g, x, p) /\ \A q \in Flow(g, x, p) : Onward(g, x)[q] \subseteq Flow(g, x, p)
  BY FlowClosed
<1>2. S \subseteq Flow(g, x, p)
  BY <1>1
<1>3. \A u \in S : Onward(g, x)[u] \subseteq S
  BY <1>2
<1>4. Flow(g, x, p) \subseteq S
  <2>1. p \in S
    OBVIOUS
  <2> HIDE DEF S
  <2> QED
    BY <1>3, <2>1, FlowLeast
<1> QED
  BY <1>4

-----------------------------------------------------------------------------
(* Live registers.                                                         *)

\* After the last instruction GetLive is what it is given.
LEMMA GetLiveEnd ==
  ASSUME NEW g, IsProgram(g), NEW b \in BlocksIn(g), NEW s
  PROVE  GetLive(g, s, b, Len(g.insns[b])) = s
PROOF
<1> DEFINE n == Len(g.insns[b])
<1>1. n \in Nat /\ n - n = 0
  BY DEF IsProgram
<1>2. Past(0, Uses(g, b), Defs(g, b), s) = s
  BY PastLemma, <1>1
<1> QED
  BY <1>1, <1>2 DEF GetLive

\* It goes back over one instruction at a time.
LEMMA GetLiveStep ==
  ASSUME NEW g, IsProgram(g), NEW b \in BlocksIn(g), NEW s, NEW i \in 1 .. Len(g.insns[b])
  PROVE  GetLive(g, s, b, i - 1)
           = g.insns[b][i].use \cup (GetLive(g, s, b, i) \ g.insns[b][i].def)
PROOF
<1> DEFINE n == Len(g.insns[b])
           k == n - i
<1>1. n \in Nat
  BY DEF IsProgram
<1>2. k \in Nat /\ n - (i - 1) = k + 1 /\ k + 1 \in 1 .. n /\ n + 1 - (k + 1) = i
  BY <1>1
<1>3. Uses(g, b)[k + 1] = g.insns[b][i].use /\ Defs(g, b)[k + 1] = g.insns[b][i].def
  BY <1>2 DEF Uses, Defs
<1>4. Past(k + 1, Uses(g, b), Defs(g, b), s)
        = Uses(g, b)[k + 1] \cup (Past(k, Uses(g, b), Defs(g, b), s) \ Defs(g, b)[k + 1])
  <2>1. k \in Nat
    BY <1>2
  <2> HIDE DEF k
  <2> QED
    BY ONLY <2>1, PastLemma
<1> QED
  BY <1>2, <1>3, <1>4 DEF GetLive

\* At the beginning of the block it is what the transfer of the problem makes.
LEMMA GetLiveStart ==
  ASSUME NEW g, IsProgram(g), NEW b \in BlocksIn(g), NEW s
  PROVE  GetLive(g, s, b, 0) = LiveGen(g, b) \cup (s \ LiveKill(g, b))
PROOF
<1> DEFINE n == Len(g.insns[b])
<1>1. n \in Nat /\ n - 0 = n
  BY DEF IsProgram
<1>2. Past(n, Uses(g, b), Defs(g, b), s)
        = Past(n, Uses(g, b), Defs(g, b), {}) \cup (s \ Past(n, Defs(g, b), Uses(g, b), {}))
  BY <1>1, PastSplit
<1> QED
  BY <1>1, <1>2 DEF GetLive, LiveGen, LiveKill

\* Before an instruction, what it uses is live, and what is live after it but
\* for what it writes.
LEMMA LiveAtInsn ==
  ASSUME NEW g, IsProgram(g), NEW b \in BlocksIn(g), NEW i \in 1 .. Len(g.insns[b]), NEW x
  PROVE  LiveAt(g, x, <<b, i>>) <=>
           \/ x \in g.insns[b][i].use
           \/ x \notin g.insns[b][i].def /\ LiveAt(g, x, <<b, i + 1>>)
PROOF
<1> DEFINE p == <<b, i>>
           UsedIn(S) == \E q \in S : q \in InsnsIn(g) /\ x \in InsnAt(g, q).use
<1>1. Len(g.insns[b]) \in Nat
  BY DEF IsProgram
<1>2. i \in 1 .. Len(g.insns[b]) + 1 /\ i # Len(g.insns[b]) + 1
  BY <1>1
<1>3. p \in Points(g) /\ p \in InsnsIn(g)
  BY <1>2, PointLemma
<1>4. p[1] = b /\ p[2] = i /\ InsnAt(g, p) = g.insns[b][i]
  BY DEF InsnAt
<1>5. LiveAt(g, x, p) <=> UsedIn(Flow(g, x, p))
  BY DEF LiveAt
<1>6. LiveAt(g, x, <<b, i + 1>>) <=> UsedIn(Flow(g, x, <<b, i + 1>>))
  BY DEF LiveAt
<1>7. \A t : t \in Flow(g, x, p) <=> t = p \/ \E q \in Onward(g, x)[p] : t \in Flow(g, x, q)
  BY <1>3, FlowFirst
<1>8. /\ x \in g.insns[b][i].def => Onward(g, x)[p] = {}
      /\ x \notin g.insns[b][i].def => Onward(g, x)[p] = {<<b, i + 1>>}
  <2> HIDE DEF p
  <2> QED
    BY <1>3, <1>4, OnwardType
<1> HIDE DEF p
<1>9. CASE x \in g.insns[b][i].def
  <2>1. \A t : t \in Flow(g, x, p) <=> t = p
    BY <1>7, <1>8, <1>9
  <2> QED
    BY <2>1, <1>3, <1>4, <1>5, <1>9 DEF p
<1>10. CASE x \notin g.insns[b][i].def
  <2>1. \A t : t \in Flow(g, x, p) <=> t = p \/ t \in Flow(g, x, <<b, i + 1>>)
    BY <1>7, <1>8, <1>10
  <2> QED
    BY <2>1, <1>3, <1>4, <1>5, <1>6, <1>10 DEF p
<1> QED
  BY <1>9, <1>10

\* At the end of a block, what is live is what is live at the beginning of one
\* of its successors.
LEMMA LiveAtEnd ==
  ASSUME NEW g, IsProgram(g), NEW b \in BlocksIn(g), NEW x
  PROVE  LiveAt(g, x, <<b, Len(g.insns[b]) + 1>>) <=>
           \E c \in g.succ[b] : LiveAt(g, x, <<c, 1>>)
PROOF
<1> DEFINE p == <<b, Len(g.insns[b]) + 1>>
           UsedIn(S) == \E q \in S : q \in InsnsIn(g) /\ x \in InsnAt(g, q).use
<1>1. Len(g.insns[b]) \in Nat
  BY DEF IsProgram
<1>2. Len(g.insns[b]) + 1 \in 1 .. Len(g.insns[b]) + 1
  BY <1>1
<1>3. p \in Points(g) /\ AtEnd(g, p) /\ p[1] = b
  BY <1>2, PointLemma DEF AtEnd
<1>4. p \notin InsnsIn(g)
  BY <1>3, PointLemma
<1>5. \A q : LiveAt(g, x, q) <=> UsedIn(Flow(g, x, q))
  BY DEF LiveAt
<1> HIDE DEF p
<1>6. \A t : t \in Flow(g, x, p) <=> t = p \/ \E q \in Onward(g, x)[p] : t \in Flow(g, x, q)
  BY <1>3, FlowFirst
<1>7. Onward(g, x)[p] = g.succ[b] \X {1}
  BY <1>3, OnwardType
<1>8. \A q : q \in Onward(g, x)[p] <=> \E c \in g.succ[b] : q = <<c, 1>>
  BY <1>7
<1>9. \A t : t \in Flow(g, x, p) <=> t = p \/ \E c \in g.succ[b] : t \in Flow(g, x, <<c, 1>>)
  BY <1>6, <1>8
<1>10. LiveAt(g, x, p) <=> \E c \in g.succ[b] : LiveAt(g, x, <<c, 1>>)
  <2>1. ASSUME LiveAt(g, x, p) PROVE \E c \in g.succ[b] : LiveAt(g, x, <<c, 1>>)
    <3>1. PICK q \in Flow(g, x, p) : q \in InsnsIn(g) /\ x \in InsnAt(g, q).use
      BY <2>1, <1>5
    <3>2. PICK c \in g.succ[b] : q \in Flow(g, x, <<c, 1>>)
      BY <3>1, <1>4, <1>9
    <3> QED
      BY <3>1, <3>2, <1>5
  <2>2. ASSUME NEW c \in g.succ[b], LiveAt(g, x, <<c, 1>>) PROVE LiveAt(g, x, p)
    <3>1. PICK q \in Flow(g, x, <<c, 1>>) : q \in InsnsIn(g) /\ x \in InsnAt(g, q).use
      BY <2>2, <1>5
    <3>2. q \in Flow(g, x, p)
      BY <3>1, <1>9
    <3> QED
      BY <3>1, <3>2, <1>5
  <2> QED
    BY <2>1, <2>2
<1> QED
  BY <1>10 DEF p

\* The live registers of a point; and those that the solution t would have
\* at the end of a block.
LiveSet(g, bits, p) == {x \in bits : LiveAt(g, x, p)}
LiveJoin(g, t, b) == UNION {GetLive(g, t[c], c, 0) : c \in g.succ[b]}
UsesWithin(g, b, bits) == \A i \in 1 .. Len(g.insns[b]) : g.insns[b][i].use \subseteq bits

\* Of the live registers of an end, GetLive makes those of every place before.
LiveRight(g, b, bits, s, i) == GetLive(g, s, b, i) = LiveSet(g, bits, <<b, i + 1>>)

\* It goes on being right by one instruction at a time,
LEMMA LiveRightStep ==
  ASSUME NEW g, IsProgram(g), NEW b \in BlocksIn(g), NEW bits, NEW s,
         NEW i \in 1 .. Len(g.insns[b]), g.insns[b][i].use \subseteq bits,
         LiveRight(g, b, bits, s, i)
  PROVE  LiveRight(g, b, bits, s, i - 1)
PROOF
<1>1. GetLive(g, s, b, i - 1)
        = g.insns[b][i].use \cup (GetLive(g, s, b, i) \ g.insns[b][i].def)
  BY GetLiveStep
<1>2. \A x : LiveAt(g, x, <<b, i>>) <=>
               \/ x \in g.insns[b][i].use
               \/ x \notin g.insns[b][i].def /\ LiveAt(g, x, <<b, i + 1>>)
  BY LiveAtInsn
<1>3. GetLive(g, s, b, i - 1) = LiveSet(g, bits, <<b, i>>)
  BY <1>1, <1>2 DEF LiveRight, LiveSet
<1>4. i - 1 + 1 = i
  OBVIOUS
<1> QED
  BY <1>3, <1>4 DEF LiveRight

\* and so all through the block.
LEMMA LiveInBlock ==
  ASSUME NEW g, IsProgram(g), NEW b \in BlocksIn(g), NEW bits, UsesWithin(g, b, bits),
         NEW s, s = LiveSet(g, bits, <<b, Len(g.insns[b]) + 1>>),
         NEW j \in 0 .. Len(g.insns[b])
  PROVE  GetLive(g, s, b, j) = LiveSet(g, bits, <<b, j + 1>>)
PROOF
<1> DEFINE n == Len(g.insns[b])
           R == {i \in 0 .. n : LiveRight(g, b, bits, s, i)}
<1>1. n \in Nat
  BY DEF IsProgram
<1>2. LiveRight(g, b, bits, s, n)
  <2>1. GetLive(g, s, b, n) = s
    BY GetLiveEnd
  <2> QED
    BY <2>1 DEF LiveRight
<1>3. \A i \in 1 .. n : LiveRight(g, b, bits, s, i) => LiveRight(g, b, bits, s, i - 1)
  BY LiveRightStep DEF UsesWithin
<1>4. n \in R /\ \A i \in 1 .. n : i \in R => i - 1 \in R
  <2>1. n \in 0 .. n /\ \A i \in 1 .. n : i \in 0 .. n /\ i - 1 \in 0 .. n
    BY <1>1
  <2> HIDE DEF n
  <2> QED
    BY ONLY <1>2, <1>3, <2>1, Zenon
<1>5. 0 .. n \subseteq R
  <2> HIDE DEF n, R
  <2> QED
    BY <1>1, <1>4, CountDown
<1>6. LiveRight(g, b, bits, s, j)
  BY <1>5
<1> QED
  BY <1>6 DEF LiveRight

\* Whatever solves the equations holds the registers that are live.
LEMMA LiveBelow ==
  ASSUME NEW g, IsProgram(g), NEW s,
         \A b \in BlocksIn(g) : s[b] = LiveJoin(g, s, b),
         NEW b \in BlocksIn(g), NEW x, LiveAt(g, x, <<b, Len(g.insns[b]) + 1>>)
  PROVE  x \in s[b]
PROOF
<1> DEFINE p == <<b, Len(g.insns[b]) + 1>>
           HoldsAfter(c, i) == x \in GetLive(g, s[c], c, i)
           Holds(q) == HoldsAfter(q[1], q[2] - 1)
           S == {q \in Points(g) : ~ Holds(q)}
<1>0. Len(g.insns[b]) \in Nat
  BY DEF IsProgram
<1>1. p \in Points(g)
  <2>1. Len(g.insns[b]) + 1 \in 1 .. Len(g.insns[b]) + 1
    BY <1>0
  <2> QED
    BY <2>1, PointLemma
<1>2. \A c \in BlocksIn(g) : GetLive(g, s[c], c, Len(g.insns[c])) = s[c]
  BY GetLiveEnd
<1>3. ASSUME NEW q \in InsnsIn(g)
      PROVE  /\ q \in Points(g) /\ <<q[1], q[2] + 1>> \in Points(g)
             /\ Holds(q) <=> \/ x \in InsnAt(g, q).use
                             \/ x \notin InsnAt(g, q).def /\ Holds(<<q[1], q[2] + 1>>)
  <2>1. q[1] \in BlocksIn(g) /\ q[2] \in 1 .. Len(g.insns[q[1]]) /\ q \in Points(g)
    BY PointLemma
  <2>2. Len(g.insns[q[1]]) \in Nat
    BY <2>1 DEF IsProgram
  <2>3. q[2] + 1 \in 1 .. Len(g.insns[q[1]]) + 1
    BY <2>1, <2>2
  <2>4. <<q[1], q[2] + 1>> \in Points(g)
    BY <2>1, <2>3, PointLemma
  <2>5. GetLive(g, s[q[1]], q[1], q[2] - 1)
          = g.insns[q[1]][q[2]].use \cup (GetLive(g, s[q[1]], q[1], q[2]) \ g.insns[q[1]][q[2]].def)
    <3>1. \A b2 \in BlocksIn(g) : \A i2 \in 1 .. Len(g.insns[b2]) :
            GetLive(g, s[b2], b2, i2 - 1)
              = g.insns[b2][i2].use \cup (GetLive(g, s[b2], b2, i2) \ g.insns[b2][i2].def)
      BY ONLY IsProgram(g), GetLiveStep
    <3> QED
      BY ONLY <2>1, <3>1
  <2>6. Holds(<<q[1], q[2] + 1>>) <=> HoldsAfter(q[1], q[2])
    <3> DEFINE r == <<q[1], q[2] + 1>>
    <3>1. r[1] = q[1] /\ r[2] - 1 = q[2]
      BY <2>1
    <3> HIDE DEF HoldsAfter, r
    <3>2. HoldsAfter(r[1], r[2] - 1) <=> HoldsAfter(q[1], q[2])
      BY ONLY <3>1
    <3> QED
      BY <3>2 DEF r
  <2> QED
    BY <2>1, <2>4, <2>5, <2>6 DEF InsnAt
<1>4. ASSUME NEW q \in Points(g), AtEnd(g, q)
      PROVE  Holds(q) <=> \E c \in g.succ[q[1]] : Holds(<<c, 1>>)
  <2>1. q[1] \in BlocksIn(g) /\ q[2] = Len(g.insns[q[1]]) + 1
    BY <1>4, PointLemma DEF AtEnd
  <2>2. q[2] - 1 = Len(g.insns[q[1]])
    BY <2>1 DEF IsProgram
  <2>3. Holds(q) <=> x \in s[q[1]]
    BY <1>2, <2>1, <2>2
  <2>4. x \in s[q[1]] <=> \E c \in g.succ[q[1]] : x \in GetLive(g, s[c], c, 0)
    BY <2>1 DEF LiveJoin
  <2>5. \A c : Holds(<<c, 1>>) <=> x \in GetLive(g, s[c], c, 0)
    OBVIOUS
  <2> HIDE DEF Holds
  <2> QED
    BY <2>3, <2>4, <2>5
<1> SUFFICES ASSUME x \notin s[b] PROVE FALSE
  OBVIOUS
<1>5. p \in S
  <2>1. Len(g.insns[b]) + 1 - 1 = Len(g.insns[b])
    BY <1>0
  <2>2. Holds(p) <=> x \in GetLive(g, s[b], b, Len(g.insns[b]))
    BY <2>1
  <2> HIDE DEF Holds, p
  <2> QED
    BY <1>1, <1>2, <2>2
<1> HIDE DEF Holds, HoldsAfter, p
<1>6. ASSUME NEW q \in S PROVE Onward(g, x)[q] \subseteq S
  <2>1. q \in Points(g) /\ ~ Holds(q) /\ Onward(g, x)[q] \subseteq Points(g)
    BY OnwardType
  <2>2. CASE AtEnd(g, q)
    <3>1. Onward(g, x)[q] = g.succ[q[1]] \X {1}
      BY <2>1, <2>2, OnwardType
    <3>2. \A c \in g.succ[q[1]] : ~ Holds(<<c, 1>>)
      BY <1>4, <2>1, <2>2
    <3>3. \A t \in Onward(g, x)[q] : \E c \in g.succ[q[1]] : t = <<c, 1>>
      BY <3>1
    <3> QED
      BY <2>1, <3>2, <3>3
  <2>3. CASE ~AtEnd(g, q)
    <3>1. q \in InsnsIn(g)
      BY <2>1, <2>3, PointLemma
    <3>2. x \in InsnAt(g, q).def \/ ~ Holds(<<q[1], q[2] + 1>>)
      BY <1>3, <2>1, <3>1
    <3>3. /\ x \in InsnAt(g, q).def => Onward(g, x)[q] = {}
          /\ x \notin InsnAt(g, q).def => Onward(g, x)[q] = {<<q[1], q[2] + 1>>}
      BY <3>1, OnwardType
    <3> QED
      BY <2>1, <3>2, <3>3
  <2> QED
    BY <2>2, <2>3
<1>7. Flow(g, x, p) \subseteq S
  <2> HIDE DEF S
  <2> QED
    BY <1>5, <1>6, FlowLeast
<1>8. PICK q \in Flow(g, x, p) : q \in InsnsIn(g) /\ x \in InsnAt(g, q).use
  BY DEF LiveAt, p
<1> QED
  BY <1>3, <1>7, <1>8

\* What a problem of the two kinds is made of.
LEMMA FlowProblemLemma ==
  ASSUME NEW p \in Problems
  PROVE  /\ IsProgram(p.program) /\ BlocksOf(p) = BlocksIn(p.program)
         /\ p.kind = "liveness" =>
              /\ p = LivenessProblem(p.program, p.bits)
              /\ \A b \in BlocksIn(p.program) : UsesWithin(p.program, b, p.bits)
         /\ p.kind = "reaching" => p = ReachingDefsProblem(p.program)
PROOF
<1> DEFINE g == p.program
<1>1. /\ \A b \in BlocksIn(g) : g.succ[b] \subseteq BlocksIn(g) /\ Len(g.insns[b]) \in Nat
      /\ \/ p = ReachingDefsProblem(g)
         \/ /\ p = LivenessProblem(g, p.bits)
            /\ \A q \in InsnsIn(g) : InsnAt(g, q).use \subseteq p.bits
  BY FlowProblemsAssumption DEF IsFlowProblem
<1>2. ReachingDefsProblem(g).kind = "reaching" /\ ReachingDefsProblem(g).order = g.order
  BY DEF ReachingDefsProblem
<1>3. LivenessProblem(g, p.bits).kind = "liveness" /\ LivenessProblem(g, p.bits).order = g.order
  BY DEF LivenessProblem
<1>4. p.order = g.order
  BY <1>1, <1>2, <1>3
<1>5. "liveness" # "reaching"
  OBVIOUS
<1>6. BlocksOf(p) = BlocksIn(g)
  BY <1>4 DEF BlocksOf, BlocksIn
<1>7. IsFiniteSet(BlocksIn(g))
  <2> DEFINE n == Len(g.order)
             f == [i \in 1 .. n |-> g.order[i]]
  <2>1. n \in Nat
    <3>1. p.order \in Seq(BlocksOf(p))
      BY ProblemsAssumption DEF IsProblem
    <3> QED
      BY <1>4, <3>1
  <2>2. f \in Surjection(1 .. n, BlocksIn(g))
    BY DEF Surjection, BlocksIn
  <2>3. IsFiniteSet(1 .. n)
    BY <2>1, FS_Interval
  <2> HIDE DEF f, n
  <2> QED
    BY <2>2, <2>3, FS_Surjection
<1>8. IsProgram(g)
  BY <1>1, <1>7 DEF IsProgram
<1>9. ASSUME \A q \in InsnsIn(g) : InsnAt(g, q).use \subseteq p.bits,
             NEW b \in BlocksIn(g), NEW i \in 1 .. Len(g.insns[b])
      PROVE  g.insns[b][i].use \subseteq p.bits
  <2>1. i \in 1 .. Len(g.insns[b]) + 1 /\ i # Len(g.insns[b]) + 1
    BY <1>1
  <2>2. <<b, i>> \in InsnsIn(g)
    BY <1>8, <2>1, PointLemma
  <2>3. InsnAt(g, <<b, i>>) = g.insns[b][i]
    BY DEF InsnAt
  <2> QED
    BY <1>9, <2>2, <2>3
<1>10. p.kind = "liveness" => p = LivenessProblem(g, p.bits)
                              /\ \A b \in BlocksIn(g) : UsesWithin(g, b, p.bits)
  BY <1>1, <1>2, <1>3, <1>5, <1>9 DEF UsesWithin
<1> QED
  BY <1>1, <1>3, <1>5, <1>6, <1>8, <1>10

\* The sets of live registers solve the equations of the liveness problem, and
\* its transfer is GetLive at the beginning of a block.
LEMMA LiveSolution ==
  ASSUME NEW p \in Problems, p.kind = "liveness",
         NEW s, s = [b \in BlocksOf(p) |->
                       LiveSet(p.program, p.bits, <<b, Len(p.program.insns[b]) + 1>>)]
  PROVE  /\ IsSolution(p, s) /\ s \in [BlocksOf(p) -> SUBSET p.bits]
         /\ \A t : IsSolution(p, t) => \A b \in BlocksOf(p) : s[b] \subseteq t[b]
PROOF
<1> DEFINE g == p.program
<1>1. /\ IsProgram(g) /\ BlocksOf(p) = BlocksIn(g)
      /\ p = LivenessProblem(g, p.bits)
      /\ \A b \in BlocksIn(g) : UsesWithin(g, b, p.bits)
  BY FlowProblemLemma
<1>2. /\ p.sources = g.succ
      /\ \A b \in BlocksIn(g) : p.gen[b] = LiveGen(g, b) /\ p.kill[b] = LiveKill(g, b)
  <2>1. /\ LivenessProblem(g, p.bits).sources = g.succ
        /\ LivenessProblem(g, p.bits).gen = [b \in BlocksIn(g) |-> LiveGen(g, b)]
        /\ LivenessProblem(g, p.bits).kill = [b \in BlocksIn(g) |-> LiveKill(g, b)]
    BY DEF LivenessProblem
  <2> QED
    BY <1>1, <2>1
<1>3. \A b \in BlocksIn(g) : s[b] = LiveSet(g, p.bits, <<b, Len(g.insns[b]) + 1>>)
  BY <1>1
<1> HIDE DEF g
<1>4. \A b \in BlocksIn(g) : g.succ[b] \subseteq BlocksIn(g) /\ Len(g.insns[b]) \in Nat
  BY <1>1 DEF IsProgram
<1>5. \A t : IsSolution(p, t) <=> \A b \in BlocksIn(g) : t[b] = LiveJoin(g, t, b)
  <2>0. BlocksOf(p) = BlocksIn(g)
    BY <1>1
  <2> SUFFICES ASSUME NEW t
               PROVE  IsSolution(p, t) <=> \A b \in BlocksIn(g) : t[b] = LiveJoin(g, t, b)
    OBVIOUS
  <2> SUFFICES ASSUME NEW b \in BlocksIn(g)
               PROVE  UNION {Transfer(p, c, t[c]) : c \in p.sources[b]} = LiveJoin(g, t, b)
    BY <2>0 DEF IsSolution
  <2>1. p.sources[b] = g.succ[b] /\ g.succ[b] \subseteq BlocksIn(g)
    BY <1>2, <1>4
  <2>2. ASSUME NEW c \in g.succ[b] PROVE Transfer(p, c, t[c]) = GetLive(g, t[c], c, 0)
    <3>1. c \in BlocksIn(g)
      BY <2>1
    <3> QED
      BY <1>1, <1>2, <3>1, GetLiveStart DEF Transfer
  <2> QED
    BY <2>1, <2>2 DEF LiveJoin
<1>6. ASSUME NEW b \in BlocksIn(g)
      PROVE  GetLive(g, s[b], b, 0) = LiveSet(g, p.bits, <<b, 1>>)
  <2> DEFINE out == s[b]
  <2>1. out = LiveSet(g, p.bits, <<b, Len(g.insns[b]) + 1>>) /\ UsesWithin(g, b, p.bits)
    BY <1>1, <1>3
  <2>2. 0 \in 0 .. Len(g.insns[b]) /\ 0 + 1 = 1
    BY <1>4
  <2> HIDE DEF out
  <2>3. GetLive(g, out, b, 0) = LiveSet(g, p.bits, <<b, 0 + 1>>)
    BY ONLY <1>1, <2>1, <2>2, LiveInBlock
  <2> QED
    BY <2>2, <2>3 DEF out
<1>7. IsSolution(p, s)
  <2> SUFFICES ASSUME NEW b \in BlocksIn(g) PROVE s[b] = LiveJoin(g, s, b)
    BY <1>5
  <2>1. \A x : LiveAt(g, x, <<b, Len(g.insns[b]) + 1>>) <=>
                 \E c \in g.succ[b] : LiveAt(g, x, <<c, 1>>)
    BY <1>1, LiveAtEnd
  <2>2. \A c \in g.succ[b] : GetLive(g, s[c], c, 0) = LiveSet(g, p.bits, <<c, 1>>)
    BY <1>4, <1>6
  <2>3. LiveJoin(g, s, b) = UNION {LiveSet(g, p.bits, <<c, 1>>) : c \in g.succ[b]}
    BY ONLY <2>2 DEF LiveJoin
  <2>4. LiveSet(g, p.bits, <<b, Len(g.insns[b]) + 1>>)
          = UNION {LiveSet(g, p.bits, <<c, 1>>) : c \in g.succ[b]}
    <3> DEFINE end == <<b, Len(g.insns[b]) + 1>>
               At(c) == <<c, 1>>
    <3>1. \A x : LiveAt(g, x, end) <=> \E c \in g.succ[b] : LiveAt(g, x, At(c))
      BY <2>1
    <3> HIDE DEF end, At
    <3>2. \A x : x \in LiveSet(g, p.bits, end)
                   <=> x \in p.bits /\ \E c \in g.succ[b] : LiveAt(g, x, At(c))
      BY ONLY <3>1 DEF LiveSet
    <3>3. \A x : x \in UNION {LiveSet(g, p.bits, At(c)) : c \in g.succ[b]}
                   <=> x \in p.bits /\ \E c \in g.succ[b] : LiveAt(g, x, At(c))
      BY DEF LiveSet
    <3>4. LiveSet(g, p.bits, end) = UNION {LiveSet(g, p.bits, At(c)) : c \in g.succ[b]}
      BY ONLY <3>2, <3>3
    <3> QED
      BY <3>4 DEF end, At
  <2> QED
    BY <1>3, <2>3, <2>4
<1>8. s \in [BlocksOf(p) -> SUBSET p.bits]
  BY DEF LiveSet
<1>9. ASSUME NEW t, IsSolution(p, t), NEW b \in BlocksOf(p) PROVE s[b] \subseteq t[b]
  <2>1. \A c \in BlocksIn(g) : t[c] = LiveJoin(g, t, c)
    BY <1>5, <1>9
  <2> SUFFICES ASSUME NEW x \in s[b] PROVE x \in t[b]
    OBVIOUS
  <2>2. LiveAt(g, x, <<b, Len(g.insns[b]) + 1>>) /\ b \in BlocksIn(g)
    BY <1>1, <1>3 DEF LiveSet
  <2> QED
    BY <1>1, <2>1, <2>2, LiveBelow
<1> QED
  BY <1>7, <1>8, <1>9

\* What Solve returns for it is those sets, and GetLive makes the rest of them.
LEMMA LiveMeaning ==
  ASSUME problem \in Problems, entry \in [Blocks -> SUBSET problem.bits],
         SolvedIsSolution, BelowEverySolution
  PROVE  LiveIsPathLive
PROOF
<1> DEFINE g == problem.program
           s == [b \in BlocksOf(problem) |->
                   LiveSet(g, problem.bits, <<b, Len(g.insns[b]) + 1>>)]
<1> SUFFICES ASSUME status = "solved", problem.kind = "liveness", NEW p \in InsnsIn(g)
             PROVE  GetLive(g, entry[p[1]], p[1], p[2])
                      = LiveSet(g, problem.bits, <<p[1], p[2] + 1>>)
  BY DEF LiveIsPathLive, Solved, LiveSet
<1>1. /\ IsProgram(g) /\ Blocks = BlocksIn(g)
      /\ \A b \in BlocksIn(g) : UsesWithin(g, b, problem.bits)
  BY FlowProblemLemma DEF Blocks
<1>2. /\ IsSolution(problem, s) /\ s \in [Blocks -> SUBSET problem.bits]
      /\ \A t : IsSolution(problem, t) => \A b \in Blocks : s[b] \subseteq t[b]
  BY LiveSolution DEF Blocks
<1>3. \A b \in Blocks : entry[b] = s[b]
  <2>1. IsSolution(problem, entry)
    BY DEF SolvedIsSolution
  <2> HIDE DEF s
  <2>2. \A b \in Blocks : entry[b] \subseteq s[b]
    BY <1>2 DEF BelowEverySolution
  <2> QED
    BY <1>2, <2>1, <2>2
<1> DEFINE b == p[1]
           i == p[2]
           out == entry[b]
<1>4. b \in BlocksIn(g) /\ i \in 1 .. Len(g.insns[b]) /\ Len(g.insns[b]) \in Nat
  BY <1>1, PointLemma DEF IsProgram
<1>5. out = LiveSet(g, problem.bits, <<b, Len(g.insns[b]) + 1>>)
  BY <1>1, <1>3, <1>4 DEF Blocks
<1>6. UsesWithin(g, b, problem.bits)
  BY <1>1, <1>4
<1>7. i \in 0 .. Len(g.insns[b])
  BY <1>4
<1>8. IsProgram(g) /\ b \in BlocksIn(g)
  BY <1>1, <1>4
<1> HIDE DEF out, b, i, g, s
<1>9. GetLive(g, out, b, i) = LiveSet(g, problem.bits, <<b, i + 1>>)
  BY ONLY <1>5, <1>6, <1>7, <1>8, LiveInBlock
<1> QED
  BY <1>9 DEF out, b, i, g

-----------------------------------------------------------------------------
(* Reaching definitions.                                                   *)

\* The registers an instruction writes.
DefsAt(g, b, i) == g.insns[b][i].def

\* The definitions that reach a point, by the way from the place after them.
LEMMA DefsLemma ==
  ASSUME NEW g, IsProgram(g), NEW x, NEW p, NEW q
  PROVE  q \in DefsReaching(g, x, p) <=>
           /\ q \in InsnsIn(g) /\ x \in InsnAt(g, q).def
           /\ <<q[1], q[2] + 1>> \in Points(g)
           /\ p \in Flow(g, x, <<q[1], q[2] + 1>>)
PROOF
<1> SUFFICES ASSUME q \in InsnsIn(g)
             PROVE  /\ After(g, q) = {<<q[1], q[2] + 1>>}
                    /\ <<q[1], q[2] + 1>> \in Points(g)
  BY DEF DefsReaching
<1>1. /\ q[1] \in BlocksIn(g) /\ q[2] \in 1 .. Len(g.insns[q[1]]) /\ ~AtEnd(g, q)
      /\ Len(g.insns[q[1]]) \in Nat
  BY PointLemma DEF IsProgram
<1>2. q[2] + 1 \in 1 .. Len(g.insns[q[1]]) + 1
  BY <1>1
<1> QED
  BY <1>1, <1>2, PointLemma DEF After

\* Past an instruction: itself, if it is a definition, and otherwise what
\* reaches the instruction.
LEMMA DefsPastInsn ==
  ASSUME NEW g, IsProgram(g), NEW b \in BlocksIn(g), NEW i \in 1 .. Len(g.insns[b]),
         NEW x, NEW q
  PROVE  q \in DefsReaching(g, x, <<b, i + 1>>) <=>
           \/ q = <<b, i>> /\ x \in DefsAt(g, b, i)
           \/ x \notin DefsAt(g, b, i) /\ q \in DefsReaching(g, x, <<b, i>>)
PROOF
<1> DEFINE t == <<b, i + 1>>
           u == <<b, i>>
           a == <<q[1], q[2] + 1>>
<1>1. Len(g.insns[b]) \in Nat
  BY DEF IsProgram
<1>2. i \in 1 .. Len(g.insns[b]) + 1 /\ i # Len(g.insns[b]) + 1
  BY <1>1
<1>3. u \in Points(g) /\ u \in InsnsIn(g)
  BY <1>2, PointLemma
<1>4. InsnAt(g, u).def = DefsAt(g, b, i) /\ u[1] = b /\ u[2] = i
  BY DEF InsnAt, DefsAt
<1>5. /\ x \in DefsAt(g, b, i) => Onward(g, x)[u] = {}
      /\ x \notin DefsAt(g, b, i) => Onward(g, x)[u] = {t}
  <2> HIDE DEF u
  <2> QED
    BY <1>3, <1>4, OnwardType
<1>6. ASSUME q \in DefsReaching(g, x, t)
      PROVE  \/ q = u /\ x \in DefsAt(g, b, i)
             \/ x \notin DefsAt(g, b, i) /\ q \in DefsReaching(g, x, u)
  <2>1. /\ q \in InsnsIn(g) /\ x \in InsnAt(g, q).def
        /\ a \in Points(g) /\ t \in Flow(g, x, a)
    BY <1>6, DefsLemma
  <2>2. CASE t = a
    <3>1. q = <<q[1], q[2]>> /\ q[2] \in 1 .. Len(g.insns[q[1]])
      BY <2>1, PointLemma
    <3>2. q = u
      BY <2>2, <3>1
    <3> HIDE DEF u
    <3> QED
      BY <1>4, <2>1, <3>2
  <2>3. CASE t # a
    <3>1. PICK r \in Flow(g, x, a) : t \in Onward(g, x)[r]
      BY <2>1, <2>3, FlowLast
    <3>2. r \in Points(g)
      BY <2>1, FlowClosed
    <3>3. ~AtEnd(g, r)
      <4> SUFFICES ASSUME AtEnd(g, r) PROVE FALSE
        OBVIOUS
      <4>1. t \in g.succ[r[1]] \X {1}
        BY <3>1, <3>2, OnwardType
      <4> QED
        BY <4>1
    <3>4. r \in InsnsIn(g)
      BY <3>2, <3>3, PointLemma
    <3>5. t = <<r[1], r[2] + 1>> /\ x \notin InsnAt(g, r).def
      BY <3>1, <3>4, OnwardType
    <3>6. r = <<r[1], r[2]>> /\ r[2] \in 1 .. Len(g.insns[r[1]])
      BY <3>4, PointLemma
    <3>7. r = u
      BY <3>5, <3>6
    <3>8. q \in DefsReaching(g, x, r)
      BY <2>1, <3>1, DefsLemma
    <3> HIDE DEF u
    <3> QED
      BY <1>4, <3>5, <3>7, <3>8
  <2> QED
    BY <2>2, <2>3
<1>7. ASSUME q = u, x \in DefsAt(g, b, i) PROVE q \in DefsReaching(g, x, t)
  <2>1. a = t
    BY <1>7
  <2>2. t \in Points(g)
    <3>1. i + 1 \in 1 .. Len(g.insns[b]) + 1
      BY <1>1
    <3> QED
      BY <3>1, PointLemma
  <2>3. t \in Flow(g, x, t)
    BY <2>2, FlowClosed
  <2>4. q \in InsnsIn(g) /\ x \in InsnAt(g, q).def
    <3> HIDE DEF u
    <3> QED
      BY <1>3, <1>4, <1>7
  <2> QED
    BY <2>1, <2>2, <2>3, <2>4, DefsLemma
<1>8. ASSUME x \notin DefsAt(g, b, i), q \in DefsReaching(g, x, u)
      PROVE  q \in DefsReaching(g, x, t)
  <2>1. /\ q \in InsnsIn(g) /\ x \in InsnAt(g, q).def
        /\ a \in Points(g) /\ u \in Flow(g, x, a)
    BY <1>8, DefsLemma
  <2>2. Onward(g, x)[u] \subseteq Flow(g, x, a)
    BY <2>1, FlowClosed
  <2>3. t \in Flow(g, x, a)
    <3> HIDE DEF t, u, a
    <3> QED
      BY <1>5, <1>8, <2>2
  <2> QED
    BY <2>1, <2>3, DefsLemma
<1> QED
  BY <1>6, <1>7, <1>8

\* At the beginning of a block: what reaches the end of a predecessor.
LEMMA DefsAtStart ==
  ASSUME NEW g, IsProgram(g), NEW b \in BlocksIn(g), NEW x, NEW q
  PROVE  q \in DefsReaching(g, x, <<b, 1>>) <=>
           \E c \in Preds(g, b) : q \in DefsReaching(g, x, <<c, Len(g.insns[c]) + 1>>)
PROOF
<1> DEFINE t == <<b, 1>>
           a == <<q[1], q[2] + 1>>
           End(c) == <<c, Len(g.insns[c]) + 1>>
<1>1. ASSUME q \in DefsReaching(g, x, t)
      PROVE  \E c \in Preds(g, b) : q \in DefsReaching(g, x, End(c))
  <2>1. /\ q \in InsnsIn(g) /\ x \in InsnAt(g, q).def
        /\ a \in Points(g) /\ t \in Flow(g, x, a)
    BY <1>1, DefsLemma
  <2>2. t # a
    <3>1. q[2] \in 1 .. Len(g.insns[q[1]])
      BY <2>1, PointLemma
    <3> QED
      BY <3>1
  <2>3. PICK r \in Flow(g, x, a) : t \in Onward(g, x)[r]
    BY <2>1, <2>2, FlowLast
  <2>4. r \in Points(g)
    BY <2>1, FlowClosed
  <2>5. AtEnd(g, r)
    <3> SUFFICES ASSUME ~AtEnd(g, r) PROVE FALSE
      OBVIOUS
    <3>1. r \in InsnsIn(g)
      BY <2>4, PointLemma
    <3>2. t = <<r[1], r[2] + 1>>
      BY <2>3, <3>1, OnwardType
    <3>3. r[2] \in 1 .. Len(g.insns[r[1]])
      BY <3>1, PointLemma
    <3> QED
      BY <3>2, <3>3
  <2>6. t \in g.succ[r[1]] \X {1}
    BY <2>3, <2>4, <2>5, OnwardType
  <2>7. r = <<r[1], r[2]>> /\ r[1] \in BlocksIn(g) /\ r[2] = Len(g.insns[r[1]]) + 1
    BY <2>4, <2>5, PointLemma DEF AtEnd
  <2>8. r[1] \in Preds(g, b) /\ r = End(r[1])
    BY <2>6, <2>7 DEF Preds
  <2>9. q \in DefsReaching(g, x, r)
    BY <2>1, <2>3, DefsLemma
  <2> HIDE DEF End
  <2> QED
    BY <2>8, <2>9
<1>2. ASSUME NEW c \in Preds(g, b), q \in DefsReaching(g, x, End(c))
      PROVE  q \in DefsReaching(g, x, t)
  <2>1. c \in BlocksIn(g) /\ b \in g.succ[c] /\ Len(g.insns[c]) \in Nat
    BY DEF Preds, IsProgram
  <2>2. End(c) \in Points(g) /\ AtEnd(g, End(c)) /\ End(c)[1] = c
    <3>1. Len(g.insns[c]) + 1 \in 1 .. Len(g.insns[c]) + 1
      BY <2>1
    <3> QED
      BY <2>1, <3>1, PointLemma DEF AtEnd
  <2>3. /\ q \in InsnsIn(g) /\ x \in InsnAt(g, q).def
        /\ a \in Points(g) /\ End(c) \in Flow(g, x, a)
    BY <1>2, DefsLemma
  <2>4. Onward(g, x)[End(c)] \subseteq Flow(g, x, a)
    BY <2>3, FlowClosed
  <2>5. Onward(g, x)[End(c)] = g.succ[c] \X {1}
    <3> HIDE DEF End
    <3> QED
      BY <2>2, OnwardType
  <2>6. t \in Flow(g, x, a)
    BY <2>1, <2>4, <2>5
  <2> QED
    BY <2>3, <2>6, DefsLemma
<1> QED
  BY <1>1, <1>2

\* No instruction has been passed at the first.
LEMMA AtFirst ==
  ASSUME NEW g, NEW s, NEW b
  PROVE  AtInstruction(g, s, b, 1) = s
PROOF
<1>1. 1 - 1 = 0 /\ 0 \in Nat
  OBVIOUS
<1>2. Past(0, Sets(g, b), Clears(g, b), s) = s
  BY <1>1, PastLemma
<1> QED
  BY <1>1, <1>2 DEF AtInstruction

\* Each one sets its own bits and clears the others of the registers it writes.
LEMMA AtNext ==
  ASSUME NEW g, IsProgram(g), NEW b \in BlocksIn(g), NEW s, NEW i \in 1 .. Len(g.insns[b])
  PROVE  AtInstruction(g, s, b, i + 1)
           = OwnDefs(b, DefsAt(g, b, i))
               \cup (AtInstruction(g, s, b, i) \ OtherDefs(g, b, DefsAt(g, b, i)))
PROOF
<1> DEFINE k == i - 1
<1>1. Len(g.insns[b]) \in Nat
  BY DEF IsProgram
<1>2. k \in Nat /\ k + 1 = i /\ i + 1 - 1 = k + 1
  BY <1>1
<1>3. /\ Sets(g, b)[i] = OwnDefs(b, DefsAt(g, b, i))
      /\ Clears(g, b)[i] = OtherDefs(g, b, DefsAt(g, b, i))
  BY DEF Sets, Clears, DefsAt
<1>4. AtInstruction(g, s, b, i) = Past(k, Sets(g, b), Clears(g, b), s)
  BY DEF AtInstruction
<1>5. AtInstruction(g, s, b, i + 1) = Past(k + 1, Sets(g, b), Clears(g, b), s)
  BY <1>2 DEF AtInstruction
<1> HIDE DEF k
<1>6. Past(k + 1, Sets(g, b), Clears(g, b), s)
        = Sets(g, b)[k + 1] \cup (Past(k, Sets(g, b), Clears(g, b), s) \ Clears(g, b)[k + 1])
  <2>1. k \in Nat
    BY <1>2
  <2> QED
    BY ONLY <2>1, PastLemma
<1> QED
  BY <1>2, <1>3, <1>4, <1>5, <1>6

\* The registers that the first instructions of a block write.
DefsTo(g, b, n) == UNION {DefsAt(g, b, j) : j \in 1 .. n}

\* The bits after registers are written in b.
Written(g, b, set, s) == OwnDefs(b, set) \cup (s \ OtherDefs(g, b, set))

\* After n instructions they are as if one instruction wrote them all.
AllAtOnce(g, b, s, n) ==
  AtInstruction(g, s, b, n + 1) = Written(g, b, DefsTo(g, b, n), s)

\* One more instruction.
LEMMA DefsToStep ==
  ASSUME NEW g, NEW b, NEW n \in Nat
  PROVE  DefsTo(g, b, 0) = {} /\ DefsTo(g, b, n + 1) = DefsTo(g, b, n) \cup DefsAt(g, b, n + 1)
PROOF
<1>1. \A j : j \in 1 .. n + 1 <=> j \in 1 .. n \/ j = n + 1
  OBVIOUS
<1>2. \A j : j \notin 1 .. 0
  OBVIOUS
<1> QED
  BY <1>1, <1>2 DEF DefsTo

\* To write some registers and then others is to write both.
LEMMA WritesAgain ==
  ASSUME NEW g, NEW b, NEW s, NEW set, NEW also
  PROVE  Written(g, b, also, Written(g, b, set, s)) = Written(g, b, set \cup also, s)
PROOF
<1>1. \A d : d \in OwnDefs(b, set \cup also) <=> d \in OwnDefs(b, set) \/ d \in OwnDefs(b, also)
  BY DEF OwnDefs
<1>2. \A d : d \in OtherDefs(g, b, set \cup also)
               <=> d \in OtherDefs(g, b, set) \/ d \in OtherDefs(g, b, also)
  BY DEF OtherDefs, BitsOf
<1>3. \A d : d \in OwnDefs(b, set) => d \notin OtherDefs(g, b, also)
  BY DEF OwnDefs, OtherDefs
<1> QED
  BY ONLY <1>1, <1>2, <1>3 DEF Written

\* At the end of the block it is what the transfer of the problem makes.
LEMMA AtLast ==
  ASSUME NEW g, IsProgram(g), NEW b \in BlocksIn(g), NEW s
  PROVE  AtInstruction(g, s, b, Len(g.insns[b]) + 1)
           = OwnDefs(b, GetDefs(g, b)) \cup (s \ OtherDefs(g, b, GetDefs(g, b)))
PROOF
<1> DEFINE n == Len(g.insns[b])
           R == {k \in 0 .. n : AllAtOnce(g, b, s, k)}
<1>1. n \in Nat
  BY DEF IsProgram
<1>2. AllAtOnce(g, b, s, 0)
  <2>1. DefsTo(g, b, 0) = {}
    BY <1>1, DefsToStep
  <2>2. OwnDefs(b, {}) = {} /\ OtherDefs(g, b, {}) = {}
    BY DEF OwnDefs, OtherDefs, BitsOf
  <2>3. AtInstruction(g, s, b, 0 + 1) = s
    <3>1. 0 + 1 = 1
      OBVIOUS
    <3> QED
      BY <3>1, AtFirst
  <2> QED
    BY <2>1, <2>2, <2>3 DEF AllAtOnce, Written
<1>3. ASSUME NEW i \in 1 .. n, AllAtOnce(g, b, s, i - 1)
      PROVE  AllAtOnce(g, b, s, i)
  <2> DEFINE set == DefsTo(g, b, i - 1)
             also == DefsAt(g, b, i)
             before == AtInstruction(g, s, b, i)
  <2>1. i - 1 \in Nat /\ i - 1 + 1 = i
    BY <1>1
  <2>2. DefsTo(g, b, i) = set \cup also
    <3> DEFINE m == i - 1
    <3>1. m \in Nat /\ m + 1 = i
      BY <2>1
    <3> HIDE DEF m
    <3>2. DefsTo(g, b, m + 1) = DefsTo(g, b, m) \cup DefsAt(g, b, m + 1)
      BY ONLY <3>1, DefsToStep
    <3>3. DefsTo(g, b, i) = DefsTo(g, b, m) \cup DefsAt(g, b, i)
      BY ONLY <3>1, <3>2
    <3> QED
      BY <3>3 DEF m
  <2>3. before = Written(g, b, set, s)
    BY <1>3, <2>1 DEF AllAtOnce
  <2>4. AtInstruction(g, s, b, i + 1) = Written(g, b, also, before)
    BY AtNext DEF Written
  <2> HIDE DEF set, also, before
  <2>5. Written(g, b, also, before) = Written(g, b, set \cup also, s)
    BY ONLY <2>3, WritesAgain
  <2> QED
    BY <2>2, <2>4, <2>5 DEF AllAtOnce
<1>4. 0 \in R /\ \A i \in 1 .. n : i - 1 \in R => i \in R
  <2>1. 0 \in 0 .. n /\ \A i \in 1 .. n : i \in 0 .. n /\ i - 1 \in 0 .. n
    BY <1>1
  <2>2. \A i \in 1 .. n : AllAtOnce(g, b, s, i - 1) => AllAtOnce(g, b, s, i)
    BY <1>3
  <2> HIDE DEF n
  <2> QED
    BY ONLY <1>2, <2>1, <2>2, Zenon
<1>5. 0 .. n \subseteq R
  <2> HIDE DEF n, R
  <2> QED
    BY <1>1, <1>4, CountUp
<1>6. AllAtOnce(g, b, s, n)
  BY <1>1, <1>5
<1>7. DefsTo(g, b, n) = GetDefs(g, b)
  BY DEF DefsTo, GetDefs, DefsAt
<1> QED
  BY <1>6, <1>7 DEF AllAtOnce, Written

\* The bits of the definitions that reach a point.
ReachSet(g, p) ==
  {d \in DefBits(g) : \E q \in DefsReaching(g, d[2], p) : q[1] = d[1]}

\* A bit is a block and a register that an instruction of the block writes.
LEMMA BitLemma ==
  ASSUME NEW g, IsProgram(g)
  PROVE  /\ \A d \in DefBits(g) : d = <<d[1], d[2]>> /\ d[1] \in BlocksIn(g)
         /\ \A q \in InsnsIn(g) : \A x \in InsnAt(g, q).def : <<q[1], x>> \in DefBits(g)
PROOF
<1>1. ASSUME NEW d \in DefBits(g) PROVE d = <<d[1], d[2]>> /\ d[1] \in BlocksIn(g)
  <2>1. PICK b \in BlocksIn(g) : d \in {b} \X GetDefs(g, b)
    BY DEF DefBits
  <2> QED
    BY <2>1
<1>2. ASSUME NEW q \in InsnsIn(g), NEW x \in InsnAt(g, q).def
      PROVE  <<q[1], x>> \in DefBits(g)
  <2>1. q[1] \in BlocksIn(g) /\ q[2] \in 1 .. Len(g.insns[q[1]])
    BY PointLemma
  <2>2. x \in GetDefs(g, q[1])
    BY <2>1 DEF GetDefs, InsnAt
  <2>3. <<q[1], x>> \in {q[1]} \X GetDefs(g, q[1])
    BY <2>2
  <2> QED
    BY <2>1, <2>3 DEF DefBits
<1> QED
  BY <1>1, <1>2

\* From the bits that reach the beginning of a block, AtInstruction makes those
\* that reach every place in it.
AtRight(g, b, s, k) == AtInstruction(g, s, b, k + 1) = ReachSet(g, <<b, k + 1>>)

\* It goes on being right by one instruction at a time,
LEMMA AtRightStep ==
  ASSUME NEW g, IsProgram(g), NEW b \in BlocksIn(g), NEW s, NEW i \in 1 .. Len(g.insns[b]),
         AtInstruction(g, s, b, i) = ReachSet(g, <<b, i>>)
  PROVE  AtInstruction(g, s, b, i + 1) = ReachSet(g, <<b, i + 1>>)
PROOF
<1> DEFINE defs == DefsAt(g, b, i)
           here == <<b, i>>
           next == <<b, i + 1>>
<1>0. Len(g.insns[b]) \in Nat
  BY DEF IsProgram
<1>1. i \in 1 .. Len(g.insns[b]) + 1 /\ i # Len(g.insns[b]) + 1
  BY <1>0
<1>2. here \in InsnsIn(g) /\ InsnAt(g, here).def = defs /\ here[1] = b
  BY <1>1, PointLemma DEF InsnAt, DefsAt
<1>3. AtInstruction(g, s, b, i + 1)
        = OwnDefs(b, defs) \cup (AtInstruction(g, s, b, i) \ OtherDefs(g, b, defs))
  BY AtNext
<1>4. \A x, q : q \in DefsReaching(g, x, next) <=>
                  \/ q = here /\ x \in defs
                  \/ x \notin defs /\ q \in DefsReaching(g, x, here)
  BY DefsPastInsn
<1> HIDE DEF defs, here, next
<1>5. OwnDefs(b, defs) \subseteq DefBits(g)
  <2> SUFFICES ASSUME NEW x \in defs PROVE <<b, x>> \in DefBits(g)
    BY DEF OwnDefs
  <2> QED
    BY <1>2, BitLemma
<1>6. ASSUME NEW d \in DefBits(g)
      PROVE  d \in OwnDefs(b, defs) \cup (ReachSet(g, here) \ OtherDefs(g, b, defs))
               <=> d \in ReachSet(g, next)
  <2>1. d = <<d[1], d[2]>>
    BY BitLemma
  <2>2. d \in OwnDefs(b, defs) <=> d[1] = b /\ d[2] \in defs
    BY <2>1 DEF OwnDefs
  <2>3. d \in OtherDefs(g, b, defs) <=> d[1] # b /\ d[2] \in defs
    BY DEF OtherDefs, BitsOf
  <2>4. /\ d \in ReachSet(g, here) <=> \E q \in DefsReaching(g, d[2], here) : q[1] = d[1]
        /\ d \in ReachSet(g, next) <=> \E q \in DefsReaching(g, d[2], next) : q[1] = d[1]
    BY DEF ReachSet
  <2>5. CASE d[2] \in defs
    <3>1. d \in ReachSet(g, next) <=> d[1] = b
      BY <1>2, <1>4, <2>4, <2>5
    <3> QED
      BY <2>2, <2>3, <2>5, <3>1
  <2>6. CASE d[2] \notin defs
    <3>1. d \in ReachSet(g, next) <=> d \in ReachSet(g, here)
      BY <1>4, <2>4, <2>6
    <3> QED
      BY <2>2, <2>3, <2>6, <3>1
  <2> QED
    BY <2>5, <2>6
<1>7. ReachSet(g, here) \subseteq DefBits(g) /\ ReachSet(g, next) \subseteq DefBits(g)
  BY DEF ReachSet
<1>8. AtInstruction(g, s, b, i) = ReachSet(g, here)
  BY DEF here
<1>9. AtInstruction(g, s, b, i + 1) = ReachSet(g, next)
  BY <1>3, <1>5, <1>6, <1>7, <1>8
<1> QED
  BY <1>9 DEF next

\* and so all through the block.
LEMMA ReachInBlock ==
  ASSUME NEW g, IsProgram(g), NEW b \in BlocksIn(g),
         NEW s, s = ReachSet(g, <<b, 1>>), NEW i \in 1 .. Len(g.insns[b]) + 1
  PROVE  AtInstruction(g, s, b, i) = ReachSet(g, <<b, i>>)
PROOF
<1> DEFINE n == Len(g.insns[b])
           R == {k \in 0 .. n : AtRight(g, b, s, k)}
<1>1. n \in Nat
  BY DEF IsProgram
<1>2. AtRight(g, b, s, 0)
  <2>1. 0 + 1 = 1
    OBVIOUS
  <2>2. AtInstruction(g, s, b, 1) = ReachSet(g, <<b, 1>>)
    BY AtFirst
  <2> QED
    BY <2>1, <2>2 DEF AtRight
<1>3. ASSUME NEW j \in 1 .. n, AtRight(g, b, s, j - 1)
      PROVE  AtRight(g, b, s, j)
  <2>1. j - 1 + 1 = j
    BY <1>1
  <2>2. AtInstruction(g, s, b, j) = ReachSet(g, <<b, j>>)
    BY <1>3, <2>1 DEF AtRight
  <2>3. AtInstruction(g, s, b, j + 1) = ReachSet(g, <<b, j + 1>>)
    BY <2>2, AtRightStep
  <2> QED
    BY <2>3 DEF AtRight
<1>4. 0 \in R /\ \A j \in 1 .. n : j - 1 \in R => j \in R
  <2>1. 0 \in 0 .. n /\ \A j \in 1 .. n : j \in 0 .. n /\ j - 1 \in 0 .. n
    BY <1>1
  <2>2. \A j \in 1 .. n : AtRight(g, b, s, j - 1) => AtRight(g, b, s, j)
    BY <1>3
  <2> HIDE DEF n
  <2> QED
    BY ONLY <1>2, <2>1, <2>2, Zenon
<1>5. 0 .. n \subseteq R
  <2> HIDE DEF n, R
  <2> QED
    BY <1>1, <1>4, CountUp
<1>6. i - 1 \in 0 .. n /\ i - 1 + 1 = i
  BY <1>1
<1>7. AtRight(g, b, s, i - 1)
  BY <1>5, <1>6
<1> QED
  BY <1>6, <1>7 DEF AtRight

\* Those that the solution t would have at the beginning of a block.
ReachJoin(g, t, b) ==
  UNION {AtInstruction(g, t[c], c, Len(g.insns[c]) + 1) : c \in Preds(g, b)}

\* Whatever solves the equations holds the bits of the definitions that reach
\* a block.
LEMMA ReachBelow ==
  ASSUME NEW g, IsProgram(g), NEW t, \A b \in BlocksIn(g) : t[b] = ReachJoin(g, t, b),
         NEW b \in BlocksIn(g), NEW x, NEW q \in DefsReaching(g, x, <<b, 1>>)
  PROVE  <<q[1], x>> \in t[b]
PROOF
<1> DEFINE bit == <<q[1], x>>
           HoldsAt(c, i) == bit \in AtInstruction(g, t[c], c, i)
           S == {p \in Points(g) : HoldsAt(p[1], p[2])}
           a == <<q[1], q[2] + 1>>
           start == <<b, 1>>
<1>1. /\ q \in InsnsIn(g) /\ x \in InsnAt(g, q).def
      /\ a \in Points(g) /\ start \in Flow(g, x, a)
  BY DefsLemma
<1>2. \A c \in BlocksIn(g) : \A i \in 1 .. Len(g.insns[c]) :
        AtInstruction(g, t[c], c, i + 1)
          = OwnDefs(c, DefsAt(g, c, i))
              \cup (AtInstruction(g, t[c], c, i) \ OtherDefs(g, c, DefsAt(g, c, i)))
  BY AtNext
<1>3. \A c \in BlocksIn(g) : HoldsAt(c, 1) <=>
        \E e \in Preds(g, c) : HoldsAt(e, Len(g.insns[e]) + 1)
  <2> SUFFICES ASSUME NEW c \in BlocksIn(g)
               PROVE  HoldsAt(c, 1) <=> \E e \in Preds(g, c) : HoldsAt(e, Len(g.insns[e]) + 1)
    OBVIOUS
  <2>1. AtInstruction(g, t[c], c, 1) = ReachJoin(g, t, c)
    BY AtFirst
  <2> QED
    BY <2>1 DEF ReachJoin
<1>4. a \in S
  <2>1. q[1] \in BlocksIn(g) /\ q[2] \in 1 .. Len(g.insns[q[1]])
    BY <1>1, PointLemma
  <2>2. bit \in OwnDefs(q[1], DefsAt(g, q[1], q[2]))
    BY <1>1 DEF OwnDefs, DefsAt, InsnAt
  <2>3. HoldsAt(q[1], q[2] + 1)
    BY <1>2, <2>1, <2>2
  <2>4. a[1] = q[1] /\ a[2] = q[2] + 1
    OBVIOUS
  <2> HIDE DEF HoldsAt, a
  <2> QED
    BY <1>1, <2>3, <2>4
<1>5. ASSUME NEW p \in S PROVE Onward(g, x)[p] \subseteq S
  <2>1. p \in Points(g) /\ HoldsAt(p[1], p[2]) /\ Onward(g, x)[p] \subseteq Points(g)
    BY OnwardType
  <2>2. CASE AtEnd(g, p)
    <3>1. Onward(g, x)[p] = g.succ[p[1]] \X {1}
      BY <2>1, <2>2, OnwardType
    <3>2. p[1] \in BlocksIn(g) /\ p[2] = Len(g.insns[p[1]]) + 1
      BY <2>1, <2>2, PointLemma DEF AtEnd
    <3>3. ASSUME NEW c \in g.succ[p[1]] PROVE <<c, 1>> \in S
      <4>1. c \in BlocksIn(g) /\ p[1] \in Preds(g, c)
        BY <3>2 DEF Preds, IsProgram
      <4> HIDE DEF HoldsAt
      <4>2. HoldsAt(c, 1)
        BY <1>3, <2>1, <3>2, <4>1
      <4>3. <<c, 1>> \in Points(g)
        BY <2>1, <3>1
      <4> QED
        BY <4>2, <4>3
    <3> HIDE DEF S
    <3> QED
      BY <3>1, <3>3
  <2>3. CASE ~AtEnd(g, p)
    <3>1. p \in InsnsIn(g)
      BY <2>1, <2>3, PointLemma
    <3>2. p[1] \in BlocksIn(g) /\ p[2] \in 1 .. Len(g.insns[p[1]])
      BY <3>1, PointLemma
    <3>3. CASE x \in InsnAt(g, p).def
      <4>1. Onward(g, x)[p] = {}
        BY <3>1, <3>3, OnwardType
      <4> QED
        BY <4>1
    <3>4. CASE x \notin InsnAt(g, p).def
      <4>1. Onward(g, x)[p] = {<<p[1], p[2] + 1>>}
        BY <3>1, <3>4, OnwardType
      <4>2. bit \notin OtherDefs(g, p[1], DefsAt(g, p[1], p[2]))
        BY <3>4 DEF OtherDefs, BitsOf, DefsAt, InsnAt
      <4>3. HoldsAt(p[1], p[2] + 1)
        BY <1>2, <2>1, <3>2, <4>2
      <4> HIDE DEF HoldsAt
      <4> QED
        BY <2>1, <4>1, <4>3
    <3> QED
      BY <3>3, <3>4
  <2> QED
    BY <2>2, <2>3
<1>6. start \in S
  <2> HIDE DEF S, start
  <2> QED
    BY <1>1, <1>4, <1>5, FlowLeast
<1>7. HoldsAt(b, 1)
  BY <1>6
<1>8. AtInstruction(g, t[b], b, 1) = t[b]
  BY AtFirst
<1> QED
  BY <1>7, <1>8

\* The bits of the definitions that reach the blocks solve the equations.
LEMMA ReachSolution ==
  ASSUME NEW p \in Problems, p.kind = "reaching",
         NEW s, s = [b \in BlocksOf(p) |-> ReachSet(p.program, <<b, 1>>)]
  PROVE  /\ IsSolution(p, s) /\ s \in [BlocksOf(p) -> SUBSET p.bits]
         /\ \A t : IsSolution(p, t) => \A b \in BlocksOf(p) : s[b] \subseteq t[b]
PROOF
<1> DEFINE g == p.program
<1>1. IsProgram(g) /\ BlocksOf(p) = BlocksIn(g) /\ p = ReachingDefsProblem(g)
  BY FlowProblemLemma
<1>2. /\ p.bits = DefBits(g)
      /\ \A b \in BlocksIn(g) : /\ p.sources[b] = Preds(g, b)
                                /\ p.gen[b] = OwnDefs(b, GetDefs(g, b))
                                /\ p.kill[b] = OtherDefs(g, b, GetDefs(g, b))
  <2>1. /\ ReachingDefsProblem(g).bits = DefBits(g)
        /\ ReachingDefsProblem(g).sources = [b \in BlocksIn(g) |-> Preds(g, b)]
        /\ ReachingDefsProblem(g).gen = [b \in BlocksIn(g) |-> OwnDefs(b, GetDefs(g, b))]
        /\ ReachingDefsProblem(g).kill = [b \in BlocksIn(g) |-> OtherDefs(g, b, GetDefs(g, b))]
    BY DEF ReachingDefsProblem
  <2> QED
    BY <1>1, <2>1
<1>3. \A b \in BlocksIn(g) : s[b] = ReachSet(g, <<b, 1>>)
  BY <1>1
<1> HIDE DEF g
<1>4. \A b \in BlocksIn(g) : Preds(g, b) \subseteq BlocksIn(g) /\ Len(g.insns[b]) \in Nat
  BY <1>1 DEF IsProgram, Preds
<1>5. \A t : IsSolution(p, t) <=> \A b \in BlocksIn(g) : t[b] = ReachJoin(g, t, b)
  <2>0. BlocksOf(p) = BlocksIn(g)
    BY <1>1
  <2> SUFFICES ASSUME NEW t
               PROVE  IsSolution(p, t) <=> \A b \in BlocksIn(g) : t[b] = ReachJoin(g, t, b)
    OBVIOUS
  <2> SUFFICES ASSUME NEW b \in BlocksIn(g)
               PROVE  UNION {Transfer(p, c, t[c]) : c \in p.sources[b]} = ReachJoin(g, t, b)
    BY <2>0 DEF IsSolution
  <2>1. p.sources[b] = Preds(g, b) /\ Preds(g, b) \subseteq BlocksIn(g)
    BY <1>2, <1>4
  <2>2. ASSUME NEW c \in Preds(g, b)
        PROVE  Transfer(p, c, t[c]) = AtInstruction(g, t[c], c, Len(g.insns[c]) + 1)
    <3>1. c \in BlocksIn(g)
      BY <2>1
    <3> QED
      BY <1>1, <1>2, <3>1, AtLast DEF Transfer
  <2> QED
    BY <2>1, <2>2 DEF ReachJoin
<1>6. ASSUME NEW b \in BlocksIn(g)
      PROVE  AtInstruction(g, s[b], b, Len(g.insns[b]) + 1)
               = ReachSet(g, <<b, Len(g.insns[b]) + 1>>)
  <2> DEFINE in == s[b]
             last == Len(g.insns[b]) + 1
  <2>1. in = ReachSet(g, <<b, 1>>)
    BY <1>3
  <2>2. last \in 1 .. Len(g.insns[b]) + 1
    BY <1>4
  <2> HIDE DEF in, last
  <2>3. AtInstruction(g, in, b, last) = ReachSet(g, <<b, last>>)
    BY ONLY <1>1, <2>1, <2>2, ReachInBlock
  <2> QED
    BY <2>3 DEF in, last
<1>7. IsSolution(p, s)
  <2> SUFFICES ASSUME NEW b \in BlocksIn(g) PROVE s[b] = ReachJoin(g, s, b)
    BY <1>5
  <2> DEFINE start == <<b, 1>>
             End(c) == <<c, Len(g.insns[c]) + 1>>
  <2>1. \A x, q : q \in DefsReaching(g, x, start) <=>
                    \E c \in Preds(g, b) : q \in DefsReaching(g, x, End(c))
    BY <1>1, DefsAtStart
  <2>2. \A c \in Preds(g, b) :
          AtInstruction(g, s[c], c, Len(g.insns[c]) + 1) = ReachSet(g, End(c))
    BY <1>4, <1>6
  <2>3. s[b] = ReachSet(g, start)
    BY <1>3
  <2> HIDE DEF start, End
  <2>4. ReachJoin(g, s, b) = UNION {ReachSet(g, End(c)) : c \in Preds(g, b)}
    BY ONLY <2>2 DEF ReachJoin
  <2>5. \A d : d \in ReachSet(g, start) <=>
          d \in DefBits(g) /\ \E c \in Preds(g, b) :
                                \E q \in DefsReaching(g, d[2], End(c)) : q[1] = d[1]
    BY ONLY <2>1 DEF ReachSet
  <2>6. \A d : d \in UNION {ReachSet(g, End(c)) : c \in Preds(g, b)} <=>
          d \in DefBits(g) /\ \E c \in Preds(g, b) :
                                \E q \in DefsReaching(g, d[2], End(c)) : q[1] = d[1]
    BY DEF ReachSet
  <2>7. ReachSet(g, start) = UNION {ReachSet(g, End(c)) : c \in Preds(g, b)}
    BY ONLY <2>5, <2>6
  <2> QED
    BY <2>3, <2>4, <2>7
<1>8. s \in [BlocksOf(p) -> SUBSET p.bits]
  BY <1>1, <1>2 DEF ReachSet, g
<1>9. ASSUME NEW t, IsSolution(p, t), NEW b \in BlocksOf(p) PROVE s[b] \subseteq t[b]
  <2>1. \A c \in BlocksIn(g) : t[c] = ReachJoin(g, t, c)
    BY <1>5, <1>9
  <2> SUFFICES ASSUME NEW d \in s[b] PROVE d \in t[b]
    OBVIOUS
  <2>2. b \in BlocksIn(g) /\ d \in DefBits(g)
    BY <1>1, <1>3 DEF ReachSet
  <2>3. PICK q \in DefsReaching(g, d[2], <<b, 1>>) : q[1] = d[1]
    BY <1>3, <2>2 DEF ReachSet
  <2>4. d = <<d[1], d[2]>>
    BY <1>1, <2>2, BitLemma
  <2>5. <<q[1], d[2]>> \in t[b]
    BY <1>1, <2>1, <2>2, ReachBelow
  <2> QED
    BY <2>3, <2>4, <2>5
<1> QED
  BY <1>7, <1>8, <1>9

\* None of instructions j to k of c writes x.
NoWrites(g, c, x, j, k) == \A m \in j .. k : x \notin DefsAt(g, c, m)

\* Control gets on in a block past instructions that do not write x.
LEMMA FlowDirect ==
  ASSUME NEW g, IsProgram(g), NEW c \in BlocksIn(g), NEW x,
         NEW k \in 1 .. Len(g.insns[c]) + 1, NEW i \in k .. Len(g.insns[c]) + 1,
         NoWrites(g, c, x, k, i - 1)
  PROVE  <<c, i>> \in Flow(g, x, <<c, k>>)
PROOF
<1> DEFINE from == <<c, k>>
           Got(m) == <<c, k + m>> \in Flow(g, x, from)
           R == {m \in 0 .. i - k : Got(m)}
<1>1. Len(g.insns[c]) \in Nat /\ i - k \in Nat /\ k + 0 = k /\ k + (i - k) = i
  BY DEF IsProgram
<1>2. from \in Points(g)
  BY PointLemma
<1>3. from \in Flow(g, x, from) /\ \A q \in Flow(g, x, from) : Onward(g, x)[q] \subseteq Flow(g, x, from)
  <2> HIDE DEF from
  <2> QED
    BY <1>2, FlowClosed
<1> HIDE DEF from
<1>4. Got(0)
  BY <1>1, <1>3 DEF from
<1>5. ASSUME NEW m \in 1 .. i - k, Got(m - 1) PROVE Got(m)
  <2> DEFINE at == k + (m - 1)
             u == <<c, at>>
  <2>1. /\ at \in 1 .. Len(g.insns[c]) + 1 /\ at # Len(g.insns[c]) + 1
        /\ at \in k .. i - 1 /\ at + 1 = k + m
    BY <1>1
  <2>2. u \in Flow(g, x, from)
    BY <1>5
  <2> HIDE DEF at
  <2>3. u \in InsnsIn(g)
    BY <2>1, PointLemma
  <2>4. x \notin InsnAt(g, u).def
    BY <2>1 DEF NoWrites, DefsAt, InsnAt
  <2>5. Onward(g, x)[u] = {<<c, at + 1>>}
    <3>1. u[1] = c /\ u[2] = at
      OBVIOUS
    <3> HIDE DEF u
    <3> QED
      BY <2>3, <2>4, <3>1, OnwardType
  <2>6. <<c, at + 1>> \in Flow(g, x, from)
    <3> HIDE DEF u
    <3> QED
      BY <1>3, <2>2, <2>5
  <2> QED
    BY <2>1, <2>6
<1>6. 0 \in R /\ \A m \in 1 .. i - k : m - 1 \in R => m \in R
  <2>1. 0 \in 0 .. i - k /\ \A m \in 1 .. i - k : m \in 0 .. i - k /\ m - 1 \in 0 .. i - k
    BY <1>1
  <2>2. \A m \in 1 .. i - k : Got(m - 1) => Got(m)
    BY <1>5
  <2> HIDE DEF Got
  <2> QED
    BY ONLY <1>4, <2>1, <2>2, Zenon
<1>7. 0 .. i - k \subseteq R
  <2> DEFINE n == i - k
  <2>1. n \in Nat /\ 0 \in R /\ \A m \in 1 .. n : m - 1 \in R => m \in R
    BY <1>1, <1>6
  <2> HIDE DEF n, R
  <2>2. 0 .. n \subseteq R
    BY ONLY <2>1, CountUp
  <2> QED
    BY <2>2 DEF n
<1>8. i - k \in R
  <2>1. i - k \in 0 .. i - k
    BY ONLY <1>1
  <2> QED
    BY ONLY <1>7, <2>1
<1>9. Got(i - k)
  BY <1>8
<1> QED
  BY <1>1, <1>9 DEF from

\* To get anywhere, control goes on in the block it is in, or leaves it.
LEMMA FlowWithin ==
  ASSUME NEW g, IsProgram(g), NEW c \in BlocksIn(g), NEW x,
         NEW j \in 1 .. Len(g.insns[c]) + 1, NEW t \in Flow(g, x, <<c, j>>)
  PROVE  \/ t[1] = c /\ j <= t[2] /\ NoWrites(g, c, x, j, t[2] - 1)
         \/ NoWrites(g, c, x, j, Len(g.insns[c]))
PROOF
<1> DEFINE On(p) == p[1] = c /\ j <= p[2] /\ NoWrites(g, c, x, j, p[2] - 1)
           S == {p \in Points(g) : On(p)}
           from == <<c, j>>
<1>1. Len(g.insns[c]) \in Nat
  BY DEF IsProgram
<1> SUFFICES ASSUME ~ NoWrites(g, c, x, j, Len(g.insns[c])) PROVE On(t)
  OBVIOUS
<1>2. from \in S
  <2>1. from \in Points(g)
    BY PointLemma
  <2>2. NoWrites(g, c, x, j, j - 1)
    <3>1. \A m : m \notin j .. j - 1
      OBVIOUS
    <3> QED
      BY <3>1 DEF NoWrites
  <2> QED
    BY <2>1, <2>2
<1>3. ASSUME NEW p \in S PROVE Onward(g, x)[p] \subseteq S
  <2>1. p \in Points(g) /\ On(p) /\ Onward(g, x)[p] \subseteq Points(g)
    BY OnwardType
  <2>2. ~AtEnd(g, p)
    <3> SUFFICES ASSUME AtEnd(g, p) PROVE FALSE
      OBVIOUS
    <3>1. p[2] - 1 = Len(g.insns[c])
      BY <1>1, <2>1 DEF AtEnd
    <3> QED
      BY <2>1, <3>1
  <2>3. p \in InsnsIn(g)
    BY <2>1, <2>2, PointLemma
  <2>4. p[1] \in BlocksIn(g) /\ p[2] \in 1 .. Len(g.insns[p[1]])
    BY <2>3, PointLemma
  <2>5. CASE x \in InsnAt(g, p).def
    BY <2>3, <2>5, OnwardType
  <2>6. CASE x \notin InsnAt(g, p).def
    <3>1. Onward(g, x)[p] = {<<p[1], p[2] + 1>>}
      BY <2>3, <2>6, OnwardType
    <3> DEFINE q == <<p[1], p[2] + 1>>
    <3>2. q[1] = p[1] /\ q[2] = p[2] + 1 /\ q[2] - 1 = p[2]
      BY <2>4
    <3>3. x \notin DefsAt(g, c, p[2])
      BY <2>1, <2>6 DEF DefsAt, InsnAt
    <3>4. \A m : m \in j .. p[2] => m \in j .. p[2] - 1 \/ m = p[2]
      BY <2>4
    <3>5. NoWrites(g, c, x, j, p[2])
      BY <2>1, <3>3, <3>4 DEF NoWrites
    <3>6. j <= p[2] + 1
      BY <2>1, <2>4
    <3> HIDE DEF q
    <3>7. On(q)
      BY <2>1, <3>2, <3>5, <3>6
    <3> QED
      BY <2>1, <3>1, <3>7 DEF q
  <2> QED
    BY <2>5, <2>6
<1>4. t \in S
  <2> HIDE DEF S
  <2> QED
    BY <1>2, <1>3, FlowLeast
<1> QED
  BY <1>4

\* GetReachingDefs finds the definitions that reach the instruction, but for
\* those at or below it in its block.
LEMMA FoundDefs ==
  ASSUME NEW g, IsProgram(g), NEW p \in InsnsIn(g), NEW x, NEW in,
         AtInstruction(g, in, p[1], p[2]) = ReachSet(g, p)
  PROVE  GetReachingDefs(g, in, p[1], p[2], x)
           = {q \in DefsReaching(g, x, p) : ~ (q[1] = p[1] /\ q[2] >= p[2])}
PROOF
<1> DEFINE b == p[1]
           i == p[2]
           Start(c) == IF c = b THEN i - 1 ELSE Len(g.insns[c])
           found == ReachSet(g, p) \cap BitsOf(g, {x})
           result == UNION {{d[1]} \X Defining(g, d[1], x, Start(d[1])) : d \in found}
<1>1. GetReachingDefs(g, in, p[1], p[2], x) = result
  BY DEF GetReachingDefs
<1>2. /\ p = <<b, i>> /\ b \in BlocksIn(g) /\ i \in 1 .. Len(g.insns[b])
      /\ Len(g.insns[b]) \in Nat /\ p \in Points(g)
  BY PointLemma DEF IsProgram
<1>3. ASSUME NEW c \in BlocksIn(g)
      PROVE  Len(g.insns[c]) \in Nat /\ Start(c) \in 0 .. Len(g.insns[c])
  BY <1>2 DEF IsProgram
<1>4. \A c, k : k \in Defining(g, c, x, Start(c)) <=>
        /\ k \in 1 .. Start(c) /\ x \in DefsAt(g, c, k)
        /\ \A m \in 1 .. Start(c) : x \in DefsAt(g, c, m) => m <= k
  BY DEF Defining, DefsAt
<1>5. \A d : d \in found <=>
        d \in DefBits(g) /\ d[2] = x /\ \E q \in DefsReaching(g, x, p) : q[1] = d[1]
  BY DEF ReachSet, BitsOf
<1>6. \A q \in DefsReaching(g, x, p) :
        /\ q \in InsnsIn(g) /\ q = <<q[1], q[2]>> /\ q[1] \in BlocksIn(g)
        /\ q[2] \in 1 .. Len(g.insns[q[1]]) /\ x \in DefsAt(g, q[1], q[2])
        /\ q[2] + 1 \in 1 .. Len(g.insns[q[1]]) + 1
        /\ p \in Flow(g, x, <<q[1], q[2] + 1>>)
  <2> SUFFICES ASSUME NEW q \in DefsReaching(g, x, p)
               PROVE  /\ q \in InsnsIn(g) /\ q = <<q[1], q[2]>> /\ q[1] \in BlocksIn(g)
                      /\ q[2] \in 1 .. Len(g.insns[q[1]]) /\ x \in DefsAt(g, q[1], q[2])
                      /\ q[2] + 1 \in 1 .. Len(g.insns[q[1]]) + 1
                      /\ p \in Flow(g, x, <<q[1], q[2] + 1>>)
    OBVIOUS
  <2>1. /\ q \in InsnsIn(g) /\ x \in InsnAt(g, q).def
        /\ p \in Flow(g, x, <<q[1], q[2] + 1>>)
    BY DefsLemma
  <2>2. /\ q = <<q[1], q[2]>> /\ q[1] \in BlocksIn(g)
        /\ q[2] \in 1 .. Len(g.insns[q[1]]) /\ Len(g.insns[q[1]]) \in Nat
    BY <2>1, PointLemma DEF IsProgram
  <2>3. q[2] + 1 \in 1 .. Len(g.insns[q[1]]) + 1
    BY <2>2
  <2>4. x \in DefsAt(g, q[1], q[2])
    BY <2>1 DEF DefsAt, InsnAt
  <2> QED
    BY <2>1, <2>2, <2>3, <2>4
\* A definition that reaches is the last of its block up to the end, or the
\* last above the instruction.
<1>7. \A q \in DefsReaching(g, x, p) :
        \/ b = q[1] /\ q[2] + 1 <= i /\ NoWrites(g, b, x, q[2] + 1, i - 1)
        \/ NoWrites(g, q[1], x, q[2] + 1, Len(g.insns[q[1]]))
  BY <1>6, FlowWithin
<1> HIDE DEF b, i, Start, found
<1>8. ASSUME NEW z \in result
      PROVE  z \in DefsReaching(g, x, p) /\ ~ (z[1] = b /\ z[2] >= i)
  <2>1. PICK d \in found : z \in {d[1]} \X Defining(g, d[1], x, Start(d[1]))
    OBVIOUS
  <2>2. PICK c, k : z = <<c, k>> /\ c = d[1] /\ k \in Defining(g, c, x, Start(c))
    BY <2>1
  <2>3. PICK q \in DefsReaching(g, x, p) : q[1] = c
    BY <1>5, <2>2
  <2>4. /\ k \in 1 .. Start(c) /\ x \in DefsAt(g, c, k)
        /\ \A m \in 1 .. Start(c) : x \in DefsAt(g, c, m) => m <= k
    BY <1>4, <2>2
  <2>5. /\ q = <<c, q[2]>> /\ c \in BlocksIn(g) /\ q[2] \in 1 .. Len(g.insns[c])
        /\ x \in DefsAt(g, c, q[2]) /\ Len(g.insns[c]) \in Nat
        /\ Start(c) \in 0 .. Len(g.insns[c])
    BY <1>3, <1>6, <2>3
  <2>6. CASE c # b
    <3>1. Start(c) = Len(g.insns[c])
      BY <2>6 DEF Start
    <3>2. NoWrites(g, c, x, q[2] + 1, Len(g.insns[c]))
      BY <1>7, <2>3, <2>6
    <3>3. q[2] <= k
      BY <2>4, <2>5, <3>1
    <3>4. ~ (k > q[2])
      <4> SUFFICES ASSUME k > q[2] PROVE FALSE
        OBVIOUS
      <4>1. k \in q[2] + 1 .. Len(g.insns[c])
        BY <2>4, <2>5, <3>1
      <4> QED
        BY <2>4, <3>2, <4>1 DEF NoWrites
    <3>5. k = q[2]
      BY <2>4, <2>5, <3>3, <3>4
    <3>6. z = q
      BY <2>2, <2>5, <3>5
    <3> QED
      BY <2>2, <2>6, <3>6
  <2>7. CASE c = b
    <3>1. Start(c) = i - 1
      BY <2>7 DEF Start
    <3>2. k \in 1 .. i - 1 /\ k \in 1 .. Len(g.insns[c])
      BY <2>4, <2>5, <3>1
    <3>3. NoWrites(g, c, x, k + 1, i - 1)
      <4> SUFFICES ASSUME NEW m \in k + 1 .. i - 1 PROVE x \notin DefsAt(g, c, m)
        BY DEF NoWrites
      <4>1. m \in 1 .. Start(c) /\ ~ (m <= k)
        BY <1>2, <2>4, <3>1
      <4> QED
        BY <2>4, <4>1
    <3>4. k + 1 \in 1 .. Len(g.insns[c]) + 1 /\ i \in k + 1 .. Len(g.insns[c]) + 1
      BY <1>2, <2>5, <2>7, <3>2
    <3>5. <<c, i>> \in Flow(g, x, <<c, k + 1>>)
      BY <2>5, <3>3, <3>4, FlowDirect
    <3>6. z[1] = c /\ z[2] = k
      BY <2>2
    <3>7. z \in InsnsIn(g) /\ InsnAt(g, z).def = DefsAt(g, c, k)
      <4>1. k \in 1 .. Len(g.insns[c]) + 1 /\ k # Len(g.insns[c]) + 1
        BY <2>5, <3>2
      <4> QED
        BY <2>2, <2>5, <3>6, <4>1, PointLemma DEF InsnAt, DefsAt
    <3>8. <<c, k + 1>> \in Points(g)
      BY <2>5, <3>4, PointLemma
    <3>9. p = <<c, i>>
      BY <1>2, <2>7
    <3>10. z \in DefsReaching(g, x, p)
      BY <2>4, <3>5, <3>6, <3>7, <3>8, <3>9, DefsLemma
    <3>11. ~ (z[2] >= i)
      BY <1>2, <3>2, <3>6
    <3> QED
      BY <3>10, <3>11
  <2> QED
    BY <2>6, <2>7
<1>9. ASSUME NEW q \in DefsReaching(g, x, p), ~ (q[1] = b /\ q[2] >= i)
      PROVE  q \in result
  <2> DEFINE c == q[1]
             k == q[2]
  <2>1. /\ q \in InsnsIn(g) /\ q = <<c, k>> /\ c \in BlocksIn(g)
        /\ k \in 1 .. Len(g.insns[c]) /\ x \in DefsAt(g, c, k) /\ Len(g.insns[c]) \in Nat
    BY <1>3, <1>6
  <2>2. <<c, x>> \in found
    <3>1. <<c, x>> \in DefBits(g)
      BY <2>1, BitLemma DEF InsnAt, DefsAt
    <3> QED
      BY <1>5, <3>1
  <2>3. \/ b = c /\ k + 1 <= i /\ NoWrites(g, b, x, k + 1, i - 1)
        \/ NoWrites(g, c, x, k + 1, Len(g.insns[c]))
    BY <1>7
  <2>4. c # b \/ k < i
    BY <1>2, <1>9, <2>1
  <2> HIDE DEF c, k
  <2>5. Start(c) = IF c = b THEN i - 1 ELSE Len(g.insns[c])
    BY DEF Start
  <2>6. k \in 1 .. Start(c)
    BY <1>2, <2>1, <2>4, <2>5
  <2>7. ASSUME NEW m \in 1 .. Start(c), x \in DefsAt(g, c, m) PROVE m <= k
    <3> SUFFICES ASSUME m > k PROVE FALSE
      BY <2>1
    <3>1. CASE c = b /\ NoWrites(g, b, x, k + 1, i - 1)
      <4>1. m \in k + 1 .. i - 1
        BY <1>2, <2>1, <2>5, <3>1
      <4> QED
        BY <2>7, <3>1, <4>1 DEF NoWrites
    <3>2. CASE NoWrites(g, c, x, k + 1, Len(g.insns[c]))
      <4>1. m \in k + 1 .. Len(g.insns[c])
        BY <1>2, <2>1, <2>5
      <4> QED
        BY <2>7, <3>2, <4>1 DEF NoWrites
    <3> QED
      BY <2>3, <3>1, <3>2
  <2>8. k \in Defining(g, c, x, Start(c))
    BY <1>4, <2>1, <2>6, <2>7
  <2> DEFINE d == <<c, x>>
  <2>9. d[1] = c
    OBVIOUS
  <2> HIDE DEF d
  <2>10. q \in {d[1]} \X Defining(g, d[1], x, Start(d[1]))
    BY <2>1, <2>8, <2>9
  <2>11. d \in found
    BY <2>2 DEF d
  <2> QED
    BY <2>10, <2>11
<1> HIDE DEF result
<1>10. \A z : z \in result <=> z \in DefsReaching(g, x, p) /\ ~ (z[1] = b /\ z[2] >= i)
  BY <1>8, <1>9
<1> QED
  BY <1>1, <1>10 DEF b, i

\* What Solve returns for the problem is the bits of those that reach the
\* blocks, and AtInstruction makes the rest of them.
LEMMA ReachMeaning ==
  ASSUME problem \in Problems, entry \in [Blocks -> SUBSET problem.bits],
         SolvedIsSolution, BelowEverySolution
  PROVE  ReachingIsPathReaching
PROOF
<1> DEFINE g == problem.program
           s == [b \in BlocksOf(problem) |-> ReachSet(g, <<b, 1>>)]
<1> SUFFICES ASSUME status = "solved", problem.kind = "reaching",
                    NEW p \in InsnsIn(g), NEW x
             PROVE  LET found == AtInstruction(g, entry[p[1]], p[1], p[2]) IN
                    /\ {d[1] : d \in {e \in found : e[2] = x}}
                         = {q[1] : q \in DefsReaching(g, x, p)}
                    /\ GetReachingDefs(g, entry[p[1]], p[1], p[2], x)
                         = {q \in DefsReaching(g, x, p) : ~ (q[1] = p[1] /\ q[2] >= p[2])}
  BY DEF ReachingIsPathReaching, Solved
<1>1. IsProgram(g) /\ Blocks = BlocksIn(g)
  BY FlowProblemLemma DEF Blocks
<1>2. /\ IsSolution(problem, s) /\ s \in [Blocks -> SUBSET problem.bits]
      /\ \A t : IsSolution(problem, t) => \A b \in Blocks : s[b] \subseteq t[b]
  BY ReachSolution DEF Blocks
<1>3. \A b \in Blocks : entry[b] = s[b]
  <2>1. IsSolution(problem, entry)
    BY DEF SolvedIsSolution
  <2> HIDE DEF s
  <2>2. \A b \in Blocks : entry[b] \subseteq s[b]
    BY <1>2 DEF BelowEverySolution
  <2> QED
    BY <1>2, <2>1, <2>2
<1> DEFINE b == p[1]
           i == p[2]
           in == entry[b]
<1>4. /\ b \in BlocksIn(g) /\ i \in 1 .. Len(g.insns[b]) /\ Len(g.insns[b]) \in Nat
      /\ p = <<b, i>> /\ i \in 1 .. Len(g.insns[b]) + 1
  <2>1. /\ b \in BlocksIn(g) /\ i \in 1 .. Len(g.insns[b]) /\ Len(g.insns[b]) \in Nat
        /\ p = <<b, i>>
    BY <1>1, PointLemma DEF IsProgram
  <2> QED
    BY <2>1
<1>5. in = ReachSet(g, <<b, 1>>)
  BY <1>1, <1>3, <1>4 DEF Blocks
<1> HIDE DEF in, b, i, g, s
<1>6. AtInstruction(g, in, b, i) = ReachSet(g, p)
  BY ONLY <1>1, <1>4, <1>5, ReachInBlock
<1>7. {d[1] : d \in {e \in ReachSet(g, p) : e[2] = x}} = {q[1] : q \in DefsReaching(g, x, p)}
  <2>1. ASSUME NEW d \in ReachSet(g, p), d[2] = x
        PROVE  \E q \in DefsReaching(g, x, p) : q[1] = d[1]
    BY <2>1 DEF ReachSet
  <2>2. ASSUME NEW q \in DefsReaching(g, x, p)
        PROVE  <<q[1], x>> \in ReachSet(g, p)
    <3>1. q \in InsnsIn(g) /\ x \in InsnAt(g, q).def
      BY <1>1, DefsLemma
    <3>2. <<q[1], x>> \in DefBits(g)
      BY <1>1, <3>1, BitLemma
    <3> QED
      BY <3>2 DEF ReachSet
  <2>3. \A q \in DefsReaching(g, x, p) : \E d \in ReachSet(g, p) : d[2] = x /\ d[1] = q[1]
    <3> SUFFICES ASSUME NEW q \in DefsReaching(g, x, p)
                 PROVE  \E d \in ReachSet(g, p) : d[2] = x /\ d[1] = q[1]
      OBVIOUS
    <3>1. <<q[1], x>>[2] = x /\ <<q[1], x>>[1] = q[1]
      OBVIOUS
    <3> QED
      BY <2>2, <3>1
  <2> QED
    BY <2>1, <2>3
<1>8. GetReachingDefs(g, in, b, i, x)
        = {q \in DefsReaching(g, x, p) : ~ (q[1] = b /\ q[2] >= i)}
  <2>1. AtInstruction(g, in, p[1], p[2]) = ReachSet(g, p) /\ p \in InsnsIn(g)
    BY <1>6 DEF b, i
  <2>2. GetReachingDefs(g, in, p[1], p[2], x)
          = {q \in DefsReaching(g, x, p) : ~ (q[1] = p[1] /\ q[2] >= p[2])}
    BY <1>1, <2>1, FoundDefs
  <2> QED
    BY <2>2 DEF b, i
<1> QED
  BY <1>6, <1>7, <1>8 DEF in, b, i, g

-----------------------------------------------------------------------------
(* The theorems.                                                           *)

\* GetLive gives the registers that are live on some path, at every instruction
\* of every program.
THEOREM LiveTheorem == Spec => []LiveIsPathLive
PROOF
<1>1. IInv /\ SolvedIsSolution => LiveIsPathLive
  BY LiveMeaning DEF IInv, ProblemInv, TypeOK
<1> QED
  BY <1>1, InvariantTheorem, SolutionTheorem, PTL

\* GetReachingDefs returns the definitions that reach an instruction on some
\* path, but those at or below it in its own block, in every program.
THEOREM ReachingTheorem == Spec => []ReachingIsPathReaching
PROOF
<1>1. IInv /\ SolvedIsSolution => ReachingIsPathReaching
  BY ReachMeaning DEF IInv, ProblemInv, TypeOK
<1> QED
  BY <1>1, InvariantTheorem, SolutionTheorem, PTL

=============================================================================
