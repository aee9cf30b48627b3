------------------------------ MODULE Scheduler ------------------------------
(***************************************************************************)
(* SchedulerPass (plugins/MaoScheduler.cc) on one basic block: the         *)
(* dependence graph of its nodes (FormDependenceDag), their heights        *)
(* (ComputeDependenceHeights), and the list scheduling that moves one node *)
(* at a time to the place after the head (Schedule, ScheduleNode).         *)
(*                                                                         *)
(* A node is what CreateSchedulerNodes makes: an instruction with the      *)
(* entries that have to stay with it.  Of a node the scheduler asks        *)
(*   use, def  the masks of GetSrcRegisters and GetDestRegisters,          *)
(*   mem, ctrl, pred  HasMemOperation, HasControlOperation and             *)
(*             HasPredicateOperation.                                      *)
(* A block is                                                              *)
(*   nodes   its nodes in the order of the text,                           *)
(*   atEnd   no entry follows it in its section, so that EntryEnd() is     *)
(*           NULL,                                                         *)
(*   loop    it is in bbs_in_stline_loops_,                                *)
(*   budget  the scheduling steps that max_steps still allows.             *)
(***************************************************************************)
EXTENDS Integers, Sequences, FiniteSets, BlockEffect

CONSTANTS
  Regs,               \* the registers
  Rsp,                \* rsp_pointer_
  Blocks,             \* the blocks a run may be asked to schedule
  LcdAdjustment,      \* LCD_HEIGHT_ADJUSTMENT, 10 in the code
  HotBonus            \* HOT_REGISTER_BONUS, 1 in the code

NodeType == [use : SUBSET Regs, def : SUBSET Regs,
             mem : BOOLEAN, ctrl : BOOLEAN, pred : BOOLEAN]

\* A block of fewer than two nodes is not scheduled.
IsBlock(blk) ==
  /\ blk.nodes \in Seq(NodeType)
  /\ Len(blk.nodes) >= 2
  /\ blk.atEnd \in BOOLEAN
  /\ blk.loop \in BOOLEAN
  /\ blk.budget \in Int

ASSUME RegsAssumption == Rsp \in Regs
ASSUME BlocksAssumption == \A blk \in Blocks : IsBlock(blk)
ASSUME BonusAssumption == LcdAdjustment \in Nat /\ HotBonus \in Nat

NONE == 0             \* no node, in lastWriter and prevMem; -1 in the code
UNKNOWN == -1         \* the height of a node that has none yet

VARIABLES
  block, phase,
  next,               \* nodes_in_bb: the node the two scans are at
  edges,              \* of each type of dependence, its edges
  lastWriter, writers, prevMem, ctrlSources,
  lcd,                \* the nodes marked in is_lcd_source_
  work, visited, heights,
  ready,
  seen,               \* num_scheduled_predecessors
  order,              \* the nodes of the block as they are in the text now
  head,               \* how many nodes stand at or before the head entry
  steps               \* num_steps_

scanVars == <<next, edges, lastWriter, writers, prevMem, ctrlSources, lcd>>
heightVars == <<work, visited, heights>>
listVars == <<ready, seen, order, head, steps>>
vars == <<block, phase, scanVars, heightVars, listVars>>

Size == Len(block.nodes)
Node == 1 .. Size
Insn(n) == block.nodes[n]

-----------------------------------------------------------------------------
(* FormDependenceDag.                                                      *)

\* A predicated instruction is taken to read what it writes.
Sources(i) == IF i.pred THEN i.use \cup i.def ELSE i.use

\* Writers of the stack pointer are ordered with the accesses to memory.
InMemoryOrder(i) == i.mem \/ Rsp \in i.def

\* InitializeLastWriter: the writers that the previous iteration leaves.
LastWriterIn(nodes, x) ==
  LET ws == {n \in 1 .. Len(nodes) : x \in nodes[n].def} IN
  IF ws = {} THEN NONE ELSE CHOOSE n \in ws : \A m \in ws : m <= n

\* Slip: only a dependence of a reader on a writer is kept, none between writers.
OutputToSlip(x) == {}

\* The edges of a writer's predecessors to it, once its value is known to be used.
OutputTo(x) == {<<w, lastWriter[x]>> : w \in writers[x] \ {lastWriter[x]}}

Init ==
  /\ block \in Blocks
  /\ phase = "forward"
  /\ next = 1
  /\ edges = [true |-> {}, output |-> {}, anti |-> {}, mem |-> {}, ctrl |-> {}]
  /\ lastWriter = [x \in Regs |-> IF block.loop THEN LastWriterIn(block.nodes, x) ELSE NONE]
  /\ writers = [x \in Regs |-> {}]
  /\ prevMem = NONE
  /\ ctrlSources = {}
  /\ lcd = {}
  /\ work = <<>>
  /\ visited = {}
  /\ heights = [n \in Node |-> UNKNOWN]
  /\ ready = {}
  /\ seen = [n \in Node |-> 0]
  /\ order = [n \in Node |-> n]
  /\ head = 0
  /\ steps = 0

\* Where node i finds a value that its block has written before it.
Written(i) == {x \in Sources(i) : lastWriter[x] # NONE /\ lastWriter[x] < next}

\* Slip: a node does not carry to itself.
CarriedSlip(i) == {lastWriter[x] : x \in {y \in Sources(i) : lastWriter[y] > next}}

\* The writers whose value i reads in the next iteration of the loop.
Carried(i) == {lastWriter[x] : x \in {y \in Sources(i) : lastWriter[y] >= next}}

\* Slip: the next control operation waits for this node only.
CtrlSourcesSlip(i) == {next}

\* The nodes that the next control operation after i waits for.
CtrlSources(i) == (IF i.ctrl THEN {} ELSE ctrlSources) \cup {next}

\* The first loop of FormDependenceDag, for the node it is at.
FormNode ==
  LET i == Insn(next) IN
  /\ phase = "forward"
  /\ next <= Size
  /\ edges' = [edges EXCEPT
       !.mem = IF InMemoryOrder(i) /\ prevMem # NONE THEN @ \cup {<<prevMem, next>>} ELSE @,
       !.ctrl = IF i.ctrl THEN @ \cup {<<n, next>> : n \in ctrlSources} ELSE @,
       !.true = @ \cup {<<lastWriter[x], next>> : x \in Written(i)},
       !.output = @ \cup UNION {OutputTo(x) : x \in Written(i)}]
  /\ prevMem' = IF InMemoryOrder(i) THEN next ELSE prevMem
  /\ ctrlSources' = CtrlSources(i)
  /\ lcd' = lcd \cup Carried(i)
  /\ lastWriter' = [x \in Regs |-> IF x \in i.def THEN next ELSE lastWriter[x]]
  /\ writers' = [x \in Regs |-> (IF x \in Written(i) THEN {lastWriter[x]} ELSE writers[x])
                                  \cup (IF x \in i.def THEN {next} ELSE {})]
  /\ next' = next + 1
  /\ UNCHANGED <<block, phase, heightVars, listVars>>

\* After the loop: the writers that nothing has read, and whether the second
\* scan follows.
FinishForward ==
  /\ phase = "forward"
  /\ next > Size
  /\ edges' = [edges EXCEPT !.output = @ \cup UNION {OutputTo(x) : x \in Regs}]
  /\ writers' = [x \in Regs |-> {}]
  /\ next' = Size
  /\ phase' = IF block.atEnd THEN "formed" ELSE "backward"
  /\ UNCHANGED <<block, lastWriter, prevMem, ctrlSources, lcd, heightVars, listVars>>

\* From a reader to each writer that follows it in the block.
AntiEdges(i) == {next} \X UNION {writers[x] : x \in i.use}

\* The second scan, from the last node: a node precedes the later writers of
\* what it reads.  (last_writer is set again here, but not read.)
AntiNode ==
  LET i == Insn(next) IN
  /\ phase = "backward"
  /\ edges' = [edges EXCEPT !.anti = @ \cup AntiEdges(i)]
  /\ writers' = [x \in Regs |-> writers[x] \cup (IF x \in i.def THEN {next} ELSE {})]
  /\ next' = next - 1
  /\ phase' = IF next = 1 THEN "formed" ELSE "backward"
  /\ UNCHANGED <<block, lastWriter, prevMem, ctrlSources, lcd, heightVars, listVars>>

-----------------------------------------------------------------------------
(* ComputeDependenceHeights.                                               *)

AllEdges == edges.true \cup edges.output \cup edges.anti \cup edges.mem \cup edges.ctrl
HeightEdges == edges.true \cup edges.mem

Successors(es, n) == {m \in Node : <<n, m>> \in es}
Predecessors(es, n) == {m \in Node : <<m, n>> \in es}

\* The nodes of s from the lowest.
InOrder(s) ==
  LET upTo[n \in 0 .. Size] ==
        IF n = 0 THEN <<>>
        ELSE IF n \in s THEN Append(upTo[n - 1], n) ELSE upTo[n - 1]
  IN  upTo[Size]

\* Slip: the work begins at the top of the graph.
BottomSlip == {n \in Node : Predecessors(HeightEdges, n) = {}}

\* GetExits
Bottom == {n \in Node : Successors(HeightEdges, n) = {}}

StartHeights ==
  /\ phase = "formed"
  /\ work' = InOrder(Bottom)
  /\ phase' = "heights"
  /\ UNCHANGED <<block, scanVars, visited, heights, listVars>>

\* The heights below n are known.
Measurable(n) == \A m \in Successors(HeightEdges, n) : heights[m] # UNKNOWN

\* A node with a successor of unknown height goes back to the work list.
Postpone ==
  /\ phase = "heights"
  /\ work # <<>>
  /\ ~Measurable(Head(work))
  /\ work' = Append(Tail(work), Head(work))
  /\ UNCHANGED <<block, phase, scanVars, visited, heights, listVars>>

\* One more than the highest of s, or 0.
Above(h, s) ==
  IF s = {} THEN 0 ELSE 1 + h[CHOOSE m \in s : \A k \in s : h[k] <= h[m]]

Measure ==
  LET n == Head(work)
      found == Predecessors(HeightEdges, n) \ visited
  IN
  /\ phase = "heights"
  /\ work # <<>>
  /\ Measurable(n)
  /\ heights' = [heights EXCEPT ![n] = Above(heights, Successors(HeightEdges, n))]
  /\ work' = Tail(work) \o InOrder(found)
  /\ visited' = visited \cup found
  /\ UNCHANGED <<block, phase, scanVars, listVars>>

-----------------------------------------------------------------------------
(* Schedule.                                                               *)

\* The end of ComputeDependenceHeights, and what Schedule begins with.
StartSchedule ==
  /\ phase = "heights"
  /\ work = <<>>
  /\ heights' = [n \in Node |-> IF n \in lcd THEN heights[n] + LcdAdjustment ELSE heights[n]]
  /\ ready' = {n \in Node : Predecessors(AllEdges, n) = {}}
  /\ phase' = "schedule"
  /\ UNCHANGED <<block, scanVars, work, visited, seen, order, head, steps>>

\* RemoveTallest: of several tallest nodes, the first one of the block.
Tallest(n) ==
  \A m \in ready : heights[m] < heights[n] \/ (heights[m] = heights[n] /\ n <= m)

PlaceOf(n) == CHOOSE k \in Node : order[k] = n

\* ScheduleNode: n is unlinked and linked in after the head.
ScheduleNode(n) ==
  /\ order' = [k \in Node |-> IF k = head + 1 THEN n
                              ELSE IF head + 1 < k /\ k <= PlaceOf(n) THEN order[k - 1]
                              ELSE order[k]]
  /\ head' = head + 1

\* Slip: one predecessor is enough.
FreedSlip(succs, count) == succs

\* Slip: only values are waited for.
FreedReadersSlip(succs, count) ==
  {m \in succs : count[m] = Cardinality(Predecessors(edges.true, m))}

\* Of some nodes, those that are not waiting for another node.
Freed(succs, count) ==
  {m \in succs : count[m] = Cardinality(Predecessors(AllEdges, m))}

\* The successors of n that are not waiting for another node become ready.
Release(n) ==
  LET succs == Successors(AllEdges, n)
      count == [m \in Node |-> IF m \in succs THEN seen[m] + 1 ELSE seen[m]]
      free == Freed(succs, count)
      hot == {m \in free : ~Insn(n).mem /\ <<n, m>> \in edges.true}
  IN
  /\ seen' = count
  /\ ready' = (ready \ {n}) \cup free
  /\ heights' = [m \in Node |-> IF m \in hot THEN heights[m] + HotBonus ELSE heights[m]]

ScheduleNext ==
  /\ phase = "schedule"
  /\ \E n \in ready :
       /\ Tallest(n)
       /\ ScheduleNode(n)
       /\ \/ /\ steps + 1 < block.budget
             /\ Release(n)
             /\ phase' = phase
          \/ /\ steps + 1 >= block.budget
             /\ ready' = ready \ {n}
             /\ phase' = "done"
             /\ UNCHANGED <<seen, heights>>
  /\ steps' = steps + 1
  /\ UNCHANGED <<block, scanVars, work, visited>>

Finish ==
  /\ phase = "schedule"
  /\ ready = {}
  /\ phase' = "done"
  /\ UNCHANGED <<block, scanVars, heightVars, listVars>>

Next ==
  \/ FormNode \/ FinishForward \/ AntiNode
  \/ StartHeights \/ Postpone \/ Measure
  \/ StartSchedule \/ ScheduleNext \/ Finish

Spec == Init /\ [][Next]_vars

\* The pass is one call, and nothing else runs until it returns.
FairSpec == Spec /\ WF_vars(Next)

-----------------------------------------------------------------------------
(* Properties.                                                             *)

Edge == {e \in Node \X Node : e[1] < e[2]}

TypeOK ==
  /\ IsBlock(block)
  /\ phase \in {"forward", "backward", "formed", "heights", "schedule", "done"}
  /\ next \in 0 .. Size + 1
  /\ edges \in [true : SUBSET Edge, output : SUBSET Edge, anti : SUBSET Edge,
                mem : SUBSET Edge, ctrl : SUBSET Edge]
  /\ lastWriter \in [Regs -> 0 .. Size]
  /\ writers \in [Regs -> SUBSET Node]
  /\ prevMem \in 0 .. Size
  /\ ctrlSources \in SUBSET Node
  /\ lcd \in SUBSET Node
  /\ work \in Seq(Node)
  /\ visited \in SUBSET Node
  /\ heights \in [Node -> Nat \cup {UNKNOWN}]
  /\ ready \in SUBSET Node
  /\ seen \in [Node -> 0 .. Size]
  /\ order \in [Node -> Node]
  /\ head \in 0 .. Size
  /\ steps \in 0 .. Size

\* Moving nodes about neither loses one nor doubles one.
NoNodeLost == \A n \in Node : \E k \in Node : order[k] = n

Before(m, n) == PlaceOf(m) < PlaceOf(n)

\* After every single move the text respects every dependence that was found.
EdgesRespected ==
  phase \in {"schedule", "done"} => \A e \in AllEdges : Before(e[1], e[2])

\* What stood before a jump, a return, leave or hlt still does.
ControlStays ==
  \A m, n \in Node : m < n /\ Insn(n).ctrl => Before(m, n)

\* The ready list runs dry only when every node has been scheduled; the other
\* way out of the loop is the limit on the steps.
NothingLeftBehind == phase = "done" => head = Size \/ steps >= block.budget

\* When the heights are ready, each is that of the longest path below it.
HeightsAreLongest ==
  phase = "heights" /\ work = <<>> =>
    \A n \in Node : heights[n] = Above(heights, Successors(HeightEdges, n))

\* A node is marked as the source of a loop-carried dependence exactly when its
\* value is the one that the next iteration reads.
LcdIsLoopCarried ==
  phase = "formed" =>
    lcd = {n \in Node :
             /\ block.loop
             /\ \E x \in Insn(n).def :
                  /\ \A m \in Node : x \in Insn(m).def => m <= n
                  /\ \E j \in Node : /\ x \in Sources(Insn(j))
                                     /\ \A m \in Node : x \in Insn(m).def => m >= j}

\* Both of what decides which ready node goes first are as the heuristic means
\* them, in whichever order the work list was served.
PrioritiesAreRight == HeightsAreLongest /\ LcdIsLoopCarried

\* After every move the block computes what it did: the same values in the
\* registers, the same accesses to memory in the same order, and the same
\* values at each of them and at each transfer of control.
SameEffect ==
  phase \in {"schedule", "done"} =>
    EffectOf(block.nodes, order, Regs)
      = EffectOf(block.nodes, [n \in Node |-> n], Regs)

\* The three work lists run empty.
Terminates == <>(phase = "done")
=============================================================================
