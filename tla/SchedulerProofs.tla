-------------------------- MODULE SchedulerProofs --------------------------
(***************************************************************************)
(* The scheduler keeps every dependence it has found, in blocks of any     *)
(* number of nodes: the text respects the edges after each move, control   *)
(* operations keep what is before them, no node is lost, and the ready     *)
(* list runs dry only when every node has been moved.  And what decides    *)
(* which ready node goes first is right: every height is that of the       *)
(* longest path below the node, and the nodes marked as sources of a       *)
(* loop-carried dependence are those whose value the next iteration reads. *)
(* What all of it is for: wherever the moves stop, the block computes what *)
(* it did.                                                                 *)
(***************************************************************************)
EXTENDS Scheduler, FiniteSetTheorems, WellFoundedInduction, TLAPS

\* The nodes that have been moved: those at or before the head entry.
Scheduled == {order[k] : k \in 1 .. head}

BlockInv == block \in Blocks

\* Edges lead from a node to a later one of the original text.
EdgesForward ==
  edges \in [true : SUBSET Edge, output : SUBSET Edge, anti : SUBSET Edge,
             mem : SUBSET Edge, ctrl : SUBSET Edge]

\* What the two scans of FormDependenceDag remember lies behind them: writers
\* before the node of the forward scan, the last of them in lastWriter, and
\* after the node of the backward scan.
ScanInv ==
  /\ lastWriter \in [Regs -> 0 .. Size]
  /\ writers \in [Regs -> SUBSET Node]
  /\ phase = "forward" =>
       /\ next \in 1 .. Size + 1
       /\ prevMem \in 0 .. next - 1
       /\ ctrlSources \subseteq 1 .. next - 1
       /\ \A x \in Regs : \A w \in writers[x] : w <= lastWriter[x] /\ lastWriter[x] < next
  /\ phase = "backward" =>
       /\ next \in Node
       /\ \A x \in Regs : \A w \in writers[x] : next < w

\* order is a permutation of the nodes.
OrderInv ==
  /\ order \in [Node -> Node]
  /\ \A k, l \in Node : order[k] = order[l] => k = l
  /\ NoNodeLost
  /\ head \in 0 .. Size

\* Until Schedule begins nothing has moved.
Early == {"forward", "backward", "formed", "heights"}
EarlyInv ==
  /\ phase \in Early \cup {"schedule", "done"}
  /\ phase \in Early =>
       order = [n \in Node |-> n] /\ head = 0 /\ seen = [n \in Node |-> 0]

\* The ready nodes are those that wait for nothing but have not been moved,
\* and a counter has as many as have.
ReadyInv ==
  phase = "schedule" =>
    /\ ready = {m \in Node \ Scheduled : Predecessors(AllEdges, m) \subseteq Scheduled}
    /\ seen = [m \in Node |-> Cardinality(Predecessors(AllEdges, m) \cap Scheduled)]

\* A control operation has an edge from each node since the one before it.
NoControlBetween(m, n) == \A c \in m + 1 .. n - 1 : ~Insn(c).ctrl
ControlInv ==
  /\ phase = "forward" =>
       \A m \in 1 .. next - 1 : NoControlBetween(m, next) => m \in ctrlSources
  /\ \A m, n \in Node :
       /\ m < n /\ Insn(n).ctrl /\ NoControlBetween(m, n)
       /\ phase = "forward" => n < next
       => <<m, n>> \in edges.ctrl

IInv ==
  /\ BlockInv /\ EdgesForward /\ ScanInv /\ OrderInv /\ EarlyInv /\ ReadyInv
  /\ ControlInv /\ EdgesRespected /\ NothingLeftBehind

-----------------------------------------------------------------------------
(* The natural numbers, and the size of a block.                           *)

\* Every nonempty set of natural numbers has a least element.
LEMMA LeastElement ==
  ASSUME NEW T, T \subseteq Nat, T # {}
  PROVE  \E x \in T : \A y \in T : x <= y
<1>1. \E x \in T : \A y \in T : ~ (<<y, x>> \in OpToRel(<, Nat))
  BY NatLessThanWellFounded, WFMin, Zenon
<1>2. \A x, y \in T : <<y, x>> \notin OpToRel(<, Nat) => x <= y
  BY DEF OpToRel
<1> QED BY <1>1, <1>2

\* Every nonempty set of numbers up to N has a greatest element.
LEMMA GreatestElement ==
  ASSUME NEW N \in Nat, NEW T, T \subseteq 1 .. N, T # {}
  PROVE  \E x \in T : \A y \in T : y <= x
<1> DEFINE D == {N - x : x \in T}
<1>1. D \subseteq Nat /\ D # {}
  <2>1. \A x \in T : N - x \in Nat
    OBVIOUS
  <2> QED BY <2>1
<1>2. \E d \in D : \A e \in D : d <= e
  <2> HIDE DEF D
  <2> QED BY <1>1, LeastElement
<1>3. PICK x \in T : \A e \in D : N - x <= e
  BY <1>2
<1>4. \A y \in T : N - x <= N - y
  BY <1>3
<1> HIDE DEF D
<1>5. ASSUME NEW y \in T PROVE y <= x
  <2>1. x \in 1 .. N /\ y \in 1 .. N
    OBVIOUS
  <2> QED BY <2>1, <1>4
<1> QED BY <1>5

\* A block is a finite sequence of nodes.
LEMMA SizeLemma ==
  ASSUME BlockInv
  PROVE  /\ Size \in Nat
         /\ \A n \in Node : Insn(n) \in NodeType
BY BlocksAssumption DEF BlockInv, IsBlock, Size, Node, Insn

-----------------------------------------------------------------------------
(* Moving one node.                                                        *)

\* In a permutation PlaceOf is the inverse of order.
LEMMA PlaceLemma ==
  ASSUME OrderInv
  PROVE  /\ \A n \in Node : PlaceOf(n) \in Node /\ order[PlaceOf(n)] = n
         /\ \A k \in Node : PlaceOf(order[k]) = k
<1>1. \A n \in Node : PlaceOf(n) \in Node /\ order[PlaceOf(n)] = n
  BY DEF OrderInv, NoNodeLost, PlaceOf
<1> QED BY <1>1 DEF OrderInv

\* n goes to the place after the head, and the nodes it passes by move on.
LEMMA MoveLemma ==
  ASSUME BlockInv, OrderInv, NEW n \in Node, n \notin Scheduled,
         ScheduleNode(n), block' = block
  PROVE  /\ OrderInv'
         /\ Scheduled' = Scheduled \cup {n}
         /\ \A a, b \in Node :
              Before(a, b) /\ ~(b = n /\ a \notin Scheduled) => Before(a, b)'
<1> DEFINE p == PlaceOf(n)
           NewPlace(x) == IF x = n THEN head + 1
                          ELSE IF head < PlaceOf(x) /\ PlaceOf(x) < p
                               THEN PlaceOf(x) + 1 ELSE PlaceOf(x)
<1>0. Size \in Nat /\ Node' = Node /\ Node = 1 .. Size /\ Size' = Size
  BY SizeLemma DEF Node, Size
<1>1. /\ p \in Node /\ order[p] = n
      /\ \A x \in Node : PlaceOf(x) \in Node /\ order[PlaceOf(x)] = x
      /\ \A k \in Node : PlaceOf(order[k]) = k
  BY PlaceLemma
<1>2. head \in Nat /\ head < p /\ head + 1 \in Node /\ head' = head + 1
  BY <1>0, <1>1 DEF Scheduled, OrderInv, ScheduleNode
<1>3. order' = [k \in Node |-> IF k = head + 1 THEN n
                              ELSE IF head + 1 < k /\ k <= p THEN order[k - 1]
                              ELSE order[k]]
  BY DEF ScheduleNode
<1> HIDE DEF p
<1>4. ASSUME NEW k \in Node
      PROVE  order'[k] \in Node /\ NewPlace(order'[k]) = k
  <2>1. CASE k = head + 1
    BY <2>1, <1>2, <1>3
  <2>2. CASE head + 1 < k /\ k <= p
    <3>1. k - 1 \in Node /\ order'[k] = order[k - 1]
      BY <2>2, <1>0, <1>1, <1>2, <1>3
    <3>2. PlaceOf(order[k - 1]) = k - 1 /\ order[k - 1] # n /\ order[k - 1] \in Node
      BY <3>1, <2>2, <1>0, <1>1, <1>2 DEF OrderInv
    <3> QED BY <3>1, <3>2, <2>2, <1>0, <1>1, <1>2
  <2>3. CASE k # head + 1 /\ ~(head + 1 < k /\ k <= p)
    <3>1. order'[k] = order[k] /\ k # p
      BY <2>3, <1>0, <1>1, <1>2, <1>3
    <3>2. PlaceOf(order[k]) = k /\ order[k] # n /\ order[k] \in Node
      BY <3>1, <1>0, <1>1 DEF OrderInv
    <3> QED BY <3>1, <3>2, <2>3, <1>0, <1>1, <1>2
  <2> QED BY <2>1, <2>2, <2>3
<1>5. ASSUME NEW x \in Node
      PROVE  NewPlace(x) \in Node /\ order'[NewPlace(x)] = x
  <2>1. CASE x = n
    BY <2>1, <1>2, <1>3
  <2>2. CASE x # n /\ head < PlaceOf(x) /\ PlaceOf(x) < p
    <3> DEFINE q == PlaceOf(x)
    <3>1. q \in 1 .. Size /\ p \in 1 .. Size /\ order[q] = x /\ head < q /\ q < p
      BY <2>2, <1>0, <1>1
    <3>2. NewPlace(x) = q + 1
      BY <2>2
    <3> HIDE DEF q
    <3>3. q + 1 \in Node /\ head + 1 < q + 1 /\ q + 1 <= p /\ (q + 1) - 1 = q
      BY <3>1, <1>0, <1>2
    <3>4. order'[q + 1] = order[q]
      BY <3>3, <1>2, <1>3
    <3> QED BY <3>1, <3>2, <3>3, <3>4
  <2>3. CASE x # n /\ ~(head < PlaceOf(x) /\ PlaceOf(x) < p)
    <3>1. NewPlace(x) = PlaceOf(x) /\ PlaceOf(x) # p
      BY <2>3, <1>1
    <3>2. PlaceOf(x) \in 1 .. Size /\ p \in 1 .. Size
      BY <1>0, <1>1
    <3>3. PlaceOf(x) # head + 1 /\ ~(head + 1 < PlaceOf(x) /\ PlaceOf(x) <= p)
      BY <3>1, <3>2, <2>3, <1>2
    <3> QED BY <3>1, <3>3, <1>1, <1>3
  <2> QED BY <2>1, <2>2, <2>3
<1> HIDE DEF NewPlace
<1>6. OrderInv'
  <2>1. order' \in [Node -> Node]
    BY <1>3, <1>4
  <2>2. \A k, l \in Node : order'[k] = order'[l] => k = l
    BY <1>4
  <2>3. \A m \in Node : \E k \in Node : order'[k] = m
    BY <1>5
  <2>4. head' \in 0 .. Size
    BY <1>0, <1>2
  <2>5. NoNodeLost'
    BY <2>3, <1>0 DEF NoNodeLost
  <2> QED BY <2>1, <2>2, <2>4, <2>5, <1>0 DEF OrderInv
<1>7. \A x \in Node : PlaceOf(x)' = NewPlace(x)
  <2>1. \A x \in Node : PlaceOf(x)' = CHOOSE k \in Node : order'[k] = x
    BY <1>0 DEF PlaceOf
  <2> QED BY <2>1, <1>4, <1>5
<1>8. Scheduled' = Scheduled \cup {n}
  <2>1. \A k \in 1 .. head : k \in Node /\ order'[k] = order[k]
    BY <1>0, <1>1, <1>2, <1>3
  <2>2. order'[head + 1] = n
    BY <1>2, <1>3
  <2>3. 1 .. head' = (1 .. head) \cup {head + 1}
    BY <1>2
  <2> QED BY <2>1, <2>2, <2>3 DEF Scheduled
<1>9. ASSUME NEW a \in Node, NEW b \in Node, Before(a, b), ~(b = n /\ a \notin Scheduled)
      PROVE  Before(a, b)'
  <2>1. PlaceOf(a) < PlaceOf(b) /\ PlaceOf(a) \in Node /\ PlaceOf(b) \in Node
    BY <1>9, <1>1 DEF Before
  <2>2. a = n <=> PlaceOf(a) = p
    BY <1>1 DEF p
  <2>3. b = n <=> PlaceOf(b) = p
    BY <1>1 DEF p
  <2>4. b = n => PlaceOf(a) <= head
    <3> SUFFICES ASSUME b = n PROVE PlaceOf(a) <= head
      OBVIOUS
    <3>1. PICK k \in 1 .. head : a = order[k]
      BY <1>9 DEF Scheduled
    <3>2. k \in Node
      BY <1>0, <1>2
    <3> QED BY <3>1, <3>2, <1>1, <1>2
  <2>5. PlaceOf(a) \in 1 .. Size /\ PlaceOf(b) \in 1 .. Size /\ p \in 1 .. Size
    BY <2>1, <1>0, <1>1
  <2>6. NewPlace(a) < NewPlace(b)
    BY <2>1, <2>2, <2>3, <2>4, <2>5, <1>2 DEF NewPlace
  <2> QED BY <2>6, <1>7 DEF Before
<1> QED BY <1>6, <1>8, <1>9

-----------------------------------------------------------------------------
(* The initial state, and the two scans.                                   *)

\* InitializeLastWriter finds a node of the block, or none.
LEMMA LastWriterLemma ==
  ASSUME BlockInv, NEW x \in Regs
  PROVE  LastWriterIn(block.nodes, x) \in 0 .. Size
<1> DEFINE ws == {n \in 1 .. Len(block.nodes) : x \in block.nodes[n].def}
<1>1. Size \in Nat /\ ws \subseteq 1 .. Size
  BY SizeLemma DEF Size
<1>2. CASE ws = {}
  BY <1>1, <1>2 DEF LastWriterIn, NONE
<1>3. CASE ws # {}
  <2>1. \E n \in ws : \A m \in ws : m <= n
    <3> HIDE DEF ws
    <3> QED BY <1>1, <1>3, GreatestElement
  <2>2. LastWriterIn(block.nodes, x) = CHOOSE n \in ws : \A m \in ws : m <= n
    BY <1>3 DEF LastWriterIn
  <2>3. LastWriterIn(block.nodes, x) \in ws
    <3> HIDE DEF ws
    <3> QED BY <2>1, <2>2
  <2> QED BY <2>3, <1>1
<1> QED BY <1>2, <1>3

\* While nothing has moved the text respects the edges because they lead
\* forward.
LEMMA EarlyLemma ==
  BlockInv /\ EdgesForward /\ order = [n \in Node |-> n] /\ head = 0
    => OrderInv /\ EdgesRespected /\ Scheduled = {}
<1> SUFFICES ASSUME BlockInv, EdgesForward, order = [n \in Node |-> n], head = 0
             PROVE  OrderInv /\ EdgesRespected /\ Scheduled = {}
  OBVIOUS
<1>1. Size \in Nat /\ Node = 1 .. Size
  BY SizeLemma DEF Node
<1>2. OrderInv
  BY <1>1 DEF OrderInv, NoNodeLost
<1>3. \A n \in Node : PlaceOf(n) = n
  BY <1>2, PlaceLemma
<1>4. AllEdges \subseteq Edge
  BY DEF EdgesForward, AllEdges
<1>5. EdgesRespected
  BY <1>3, <1>4 DEF EdgesRespected, Before, Edge
<1> QED BY <1>1, <1>2, <1>5 DEF Scheduled

\* FormDependenceDag begins with no edge and nothing behind its scan.
LEMMA InitLemma == Init => IInv
<1> SUFFICES ASSUME Init PROVE IInv
  OBVIOUS
<1>1. BlockInv
  BY DEF Init, BlockInv
<1>2. Size \in Nat /\ Node = 1 .. Size
  BY <1>1, SizeLemma DEF Node
<1>3. EdgesForward
  BY DEF Init, EdgesForward
<1>4. ScanInv
  <2>1. lastWriter \in [Regs -> 0 .. Size]
    BY <1>1, <1>2, LastWriterLemma DEF Init, NONE
  <2>2. writers = [x \in Regs |-> {}] /\ phase = "forward" /\ next = 1 /\ prevMem = 0
         /\ ctrlSources = {}
    BY DEF Init, NONE
  <2> QED BY <2>1, <2>2, <1>2 DEF ScanInv
<1>5. phase = "forward" /\ order = [n \in Node |-> n] /\ head = 0 /\ seen = [n \in Node |-> 0]
  BY DEF Init
<1>6. OrderInv /\ EdgesRespected
  BY <1>1, <1>3, <1>5, EarlyLemma
<1>7. EarlyInv /\ ReadyInv /\ NothingLeftBehind
  BY <1>5 DEF EarlyInv, Early, ReadyInv, NothingLeftBehind
<1>8. ControlInv
  BY <1>2, <1>5 DEF ControlInv, Init
<1> QED BY <1>1, <1>3, <1>4, <1>6, <1>7, <1>8 DEF IInv

\* An early step that adds forward edges only leaves the rest as it is.
LEMMA EarlyStep ==
  ASSUME IInv, block' = block, order' = order, head' = head, seen' = seen,
         phase \in Early, phase' \in Early, EdgesForward', ScanInv', ControlInv'
  PROVE  IInv'
<1>1. BlockInv' /\ Node' = Node
  BY DEF IInv, BlockInv, Node, Size
<1>2. (order = [n \in Node |-> n] /\ head = 0 /\ seen = [n \in Node |-> 0])'
  BY <1>1 DEF IInv, EarlyInv
<1>3. (OrderInv /\ EdgesRespected)'
  BY <1>1, <1>2, EarlyLemma, PTL
<1>4. (EarlyInv /\ ReadyInv /\ NothingLeftBehind)'
  BY <1>1, <1>2 DEF EarlyInv, Early, ReadyInv, NothingLeftBehind
<1> QED BY <1>1, <1>3, <1>4 DEF IInv

\* The forward scan adds edges from behind it to the node it is at.
LEMMA FormNodeLemma == IInv /\ FormNode => IInv'
<1> SUFFICES ASSUME IInv, FormNode PROVE IInv'
  OBVIOUS
<1> DEFINE i == Insn(next)
<1>1. /\ Size \in Nat /\ Node = 1 .. Size /\ next \in Node /\ phase = "forward"
      /\ i \in NodeType /\ Size' = Size /\ Node' = Node /\ next' = next + 1
      /\ phase' = "forward" /\ block' = block
  BY SizeLemma DEF IInv, FormNode, ScanInv, Node, Size
<1>2. /\ lastWriter \in [Regs -> 0 .. Size] /\ writers \in [Regs -> SUBSET Node]
      /\ prevMem \in 0 .. next - 1 /\ ctrlSources \subseteq 1 .. next - 1
      /\ \A x \in Regs : \A w \in writers[x] : w <= lastWriter[x] /\ lastWriter[x] < next
  BY <1>1 DEF IInv, ScanInv
<1>3. \A x \in Written(i) : x \in Regs /\ lastWriter[x] \in 1 .. next - 1
  BY <1>1, <1>2 DEF Written, NONE, NodeType, Sources
<1>4. EdgesForward'
  <2>1. \A x \in Written(i) : <<lastWriter[x], next>> \in Edge
    BY <1>1, <1>3 DEF Edge
  <2>2. \A x \in Regs : OutputTo(x) \subseteq Edge
    BY <1>1, <1>2 DEF OutputTo, Edge
  <2>3. prevMem # NONE => <<prevMem, next>> \in Edge
    BY <1>1, <1>2 DEF NONE, Edge
  <2>4. \A n \in ctrlSources : <<n, next>> \in Edge
    BY <1>1, <1>2 DEF Edge
  <2>5. Edge' = Edge
    BY <1>1 DEF Edge
  <2>6. edges \in [true : SUBSET Edge, output : SUBSET Edge, anti : SUBSET Edge,
                   mem : SUBSET Edge, ctrl : SUBSET Edge]
    BY DEF IInv, EdgesForward
  <2>7. /\ {<<lastWriter[x], next>> : x \in Written(i)} \subseteq Edge
        /\ UNION {OutputTo(x) : x \in Written(i)} \subseteq Edge
        /\ {<<n, next>> : n \in ctrlSources} \subseteq Edge
    BY <1>3, <2>1, <2>2, <2>4
  <2>8. edges' = [edges EXCEPT
         !.mem = IF InMemoryOrder(i) /\ prevMem # NONE THEN @ \cup {<<prevMem, next>>} ELSE @,
         !.ctrl = IF i.ctrl THEN @ \cup {<<n, next>> : n \in ctrlSources} ELSE @,
         !.true = @ \cup {<<lastWriter[x], next>> : x \in Written(i)},
         !.output = @ \cup UNION {OutputTo(x) : x \in Written(i)}]
    BY DEF FormNode
  <2> HIDE DEF i
  <2> QED BY <2>3, <2>5, <2>6, <2>7, <2>8 DEF EdgesForward
<1>5. ScanInv'
  <2>1. lastWriter' = [x \in Regs |-> IF x \in i.def THEN next ELSE lastWriter[x]]
    BY DEF FormNode
  <2>2. writers' = [x \in Regs |-> (IF x \in Written(i) THEN {lastWriter[x]} ELSE writers[x])
                                     \cup (IF x \in i.def THEN {next} ELSE {})]
    BY DEF FormNode
  <2>3. prevMem' \in 0 .. next /\ ctrlSources' \subseteq 1 .. next
    BY <1>1, <1>2 DEF FormNode, CtrlSources
  <2> HIDE DEF i
  <2>4. lastWriter' \in [Regs -> 0 .. Size]
    BY <2>1, <1>1, <1>2
  <2>5. writers' \in [Regs -> SUBSET Node]
    BY <2>2, <1>1, <1>2, <1>3
  <2>6. \A x \in Regs : \A w \in writers'[x] : w <= lastWriter'[x] /\ lastWriter'[x] < next + 1
    BY <2>1, <2>2, <1>1, <1>2, <1>3
  <2> QED BY <2>3, <2>4, <2>5, <2>6, <1>1 DEF ScanInv
<1>6. ControlInv'
  <2>1. edges'.ctrl = IF i.ctrl THEN edges.ctrl \cup {<<n, next>> : n \in ctrlSources} ELSE edges.ctrl
    BY DEF FormNode, IInv, EdgesForward
  <2>2. ctrlSources' = (IF i.ctrl THEN {} ELSE ctrlSources) \cup {next}
    BY DEF FormNode, CtrlSources
  <2>3. \A n : Insn(n)' = Insn(n)
    BY <1>1 DEF Insn
  <2>4. \A m \in 1 .. next - 1 : NoControlBetween(m, next) => m \in ctrlSources
    BY <1>1 DEF IInv, ControlInv
  <2>5. ASSUME NEW m \in 1 .. next, \A c \in m + 1 .. next : ~Insn(c).ctrl
        PROVE  m \in ctrlSources'
    <3>1. m # next => m \in ctrlSources /\ ~i.ctrl
      BY <2>4, <2>5, <1>1 DEF NoControlBetween
    <3> QED BY <3>1, <2>2
  <2>6. ASSUME NEW m \in Node, NEW n \in Node, m < n, Insn(n).ctrl, NoControlBetween(m, n),
               n < next + 1
        PROVE  <<m, n>> \in edges'.ctrl
    <3>1. CASE n < next
      <4>1. <<m, n>> \in edges.ctrl
        BY <3>1, <2>6 DEF IInv, ControlInv
      <4> QED BY <4>1, <2>1
    <3>2. CASE n = next
      <4>1. m \in ctrlSources
        BY <3>2, <2>4, <2>6, <1>1
      <4> QED BY <4>1, <3>2, <2>1, <2>6
    <3> QED BY <3>1, <3>2, <2>6, <1>1
  <2> QED BY <2>3, <2>5, <2>6, <1>1 DEF ControlInv, NoControlBetween
<1> QED BY <1>1, <1>4, <1>5, <1>6, EarlyStep DEF FormNode, listVars, heightVars, Early

\* The two loops over all registers at the end of the forward scan.
LEMMA FinishForwardLemma == IInv /\ FinishForward => IInv'
<1> SUFFICES ASSUME IInv, FinishForward PROVE IInv'
  OBVIOUS
<1>1. /\ Size \in Nat /\ Node = 1 .. Size /\ next = Size + 1 /\ phase = "forward"
      /\ Size >= 2 /\ Size' = Size /\ Node' = Node /\ next' = Size /\ block' = block
      /\ phase' \in {"formed", "backward"}
  BY SizeLemma, BlocksAssumption DEF IInv, FinishForward, ScanInv, Node, Size, BlockInv, IsBlock
<1>2. /\ lastWriter \in [Regs -> 0 .. Size] /\ writers \in [Regs -> SUBSET Node]
      /\ \A x \in Regs : \A w \in writers[x] : w <= lastWriter[x] /\ lastWriter[x] < next
  BY <1>1 DEF IInv, ScanInv
<1>3. EdgesForward'
  <2>1. \A x \in Regs : OutputTo(x) \subseteq Edge
    BY <1>1, <1>2 DEF OutputTo, Edge
  <2>2. Edge' = Edge
    BY <1>1 DEF Edge
  <2>3. edges' = [edges EXCEPT !.output = @ \cup UNION {OutputTo(x) : x \in Regs}]
    BY DEF FinishForward
  <2> QED BY <2>1, <2>2, <2>3 DEF IInv, EdgesForward
<1>4. ScanInv'
  BY <1>1, <1>2 DEF ScanInv, FinishForward
<1>5. ControlInv'
  <2>1. edges'.ctrl = edges.ctrl
    BY DEF FinishForward, IInv, EdgesForward
  <2>2. \A n : Insn(n)' = Insn(n)
    BY <1>1 DEF Insn
  <2>3. \A n \in Node : n < next
    BY <1>1
  <2> QED BY <1>1, <2>1, <2>2, <2>3 DEF IInv, ControlInv, NoControlBetween
<1> QED BY <1>1, <1>3, <1>4, <1>5, EarlyStep DEF FinishForward, listVars, heightVars, Early

\* The backward scan adds edges from the node it is at to later writers.
LEMMA AntiNodeLemma == IInv /\ AntiNode => IInv'
<1> SUFFICES ASSUME IInv, AntiNode PROVE IInv'
  OBVIOUS
<1> DEFINE i == Insn(next)
<1>1. /\ Size \in Nat /\ Node = 1 .. Size /\ next \in Node /\ phase = "backward"
      /\ i \in NodeType /\ Size' = Size /\ Node' = Node /\ next' = next - 1
      /\ phase' = IF next = 1 THEN "formed" ELSE "backward"
      /\ block' = block /\ lastWriter' = lastWriter
  BY SizeLemma DEF IInv, AntiNode, ScanInv, Node, Size
<1>2. /\ lastWriter \in [Regs -> 0 .. Size] /\ writers \in [Regs -> SUBSET Node]
      /\ \A x \in Regs : \A w \in writers[x] : next < w
  BY <1>1 DEF IInv, ScanInv
<1>3. EdgesForward'
  <2>1. AntiEdges(i) \subseteq Edge
    BY <1>1, <1>2 DEF AntiEdges, Edge, NodeType
  <2>2. Edge' = Edge
    BY <1>1 DEF Edge
  <2>3. edges' = [edges EXCEPT !.anti = @ \cup AntiEdges(i)]
    BY DEF AntiNode
  <2> HIDE DEF i
  <2> QED BY <2>1, <2>2, <2>3 DEF IInv, EdgesForward
<1>4. ScanInv'
  <2>1. writers' = [x \in Regs |-> writers[x] \cup (IF x \in i.def THEN {next} ELSE {})]
    BY DEF AntiNode
  <2> HIDE DEF i
  <2>2. writers' \in [Regs -> SUBSET Node]
    BY <2>1, <1>1, <1>2
  <2>3. \A x \in Regs : \A w \in writers'[x] : next - 1 < w
    BY <2>1, <1>1, <1>2
  <2> QED BY <2>2, <2>3, <1>1, <1>2 DEF ScanInv
<1>5. ControlInv'
  <2>1. edges'.ctrl = edges.ctrl
    BY DEF AntiNode, IInv, EdgesForward
  <2>2. \A n : Insn(n)' = Insn(n)
    BY <1>1 DEF Insn
  <2> QED BY <1>1, <2>1, <2>2 DEF IInv, ControlInv, NoControlBetween
<1> QED BY <1>1, <1>3, <1>4, <1>5, EarlyStep DEF AntiNode, listVars, heightVars, Early

\* The height computation touches nothing that the invariant speaks of.
LEMMA HeightsLemma == IInv /\ (StartHeights \/ Postpone \/ Measure) => IInv'
<1> SUFFICES ASSUME IInv, StartHeights \/ Postpone \/ Measure PROVE IInv'
  OBVIOUS
<1>1. /\ block' = block /\ UNCHANGED <<scanVars, listVars>>
      /\ phase \in {"formed", "heights"} /\ phase' = "heights"
  BY DEF StartHeights, Postpone, Measure
<1>2. Node' = Node /\ Size' = Size /\ Edge' = Edge
  BY <1>1 DEF Node, Size, Edge
<1>3. (EdgesForward /\ ScanInv)'
  BY <1>1, <1>2 DEF IInv, EdgesForward, ScanInv, scanVars
<1>4. ControlInv'
  BY <1>1, <1>2 DEF IInv, ControlInv, NoControlBetween, Insn, scanVars
<1> QED BY <1>1, <1>3, <1>4, EarlyStep DEF Early, listVars

-----------------------------------------------------------------------------
(* List scheduling.                                                        *)

\* A late step changes neither the block nor its edges.
LEMMA LateStep ==
  ASSUME IInv, block' = block, UNCHANGED scanVars, phase \notin {"forward", "backward"},
         phase' \in {"schedule", "done"}
  PROVE  BlockInv' /\ EdgesForward' /\ ScanInv' /\ ControlInv'
<1>1. Node' = Node /\ Size' = Size /\ Edge' = Edge
  BY DEF Node, Size, Edge
<1>2. (BlockInv /\ EdgesForward /\ ScanInv)'
  BY <1>1 DEF IInv, BlockInv, EdgesForward, ScanInv, scanVars
<1>3. ControlInv'
  BY <1>1 DEF IInv, ControlInv, NoControlBetween, Insn, scanVars
<1> QED BY <1>2, <1>3

\* At the start of Schedule the roots are ready and every counter is 0.
LEMMA StartScheduleLemma == IInv /\ StartSchedule => IInv'
<1> SUFFICES ASSUME IInv, StartSchedule PROVE IInv'
  OBVIOUS
<1>1. /\ phase = "heights" /\ phase' = "schedule" /\ block' = block
      /\ UNCHANGED <<scanVars, order, head, seen>>
      /\ ready' = {n \in Node : Predecessors(AllEdges, n) = {}}
      /\ order = [n \in Node |-> n] /\ head = 0 /\ seen = [n \in Node |-> 0]
  BY DEF StartSchedule, IInv, EarlyInv, Early
<1>2. BlockInv' /\ EdgesForward' /\ ScanInv' /\ ControlInv'
  BY <1>1, LateStep
<1>3. Node' = Node /\ AllEdges' = AllEdges
  BY <1>1 DEF Node, Size, AllEdges, scanVars
<1>4. (OrderInv /\ EdgesRespected /\ Scheduled = {})'
  <2>1. (order = [n \in Node |-> n] /\ head = 0)'
    BY <1>1, <1>3
  <2> QED BY <2>1, <1>2, EarlyLemma, PTL
<1>5. ReadyInv'
  <2>1. \A m \in Node : Predecessors(AllEdges, m)' = Predecessors(AllEdges, m)
    BY <1>3 DEF Predecessors
  <2>2. \A m \in Node : Cardinality(Predecessors(AllEdges, m) \cap {}) = 0
    BY FS_EmptySet
  <2>3. ready' = {m \in Node' \ Scheduled' : Predecessors(AllEdges, m)' \subseteq Scheduled'}
    BY <1>1, <1>3, <1>4, <2>1
  <2>4. seen' = [m \in Node' |-> Cardinality(Predecessors(AllEdges, m)' \cap Scheduled')]
    BY <1>1, <1>3, <1>4, <2>1, <2>2
  <2> QED BY <2>3, <2>4 DEF ReadyInv
<1>6. (EarlyInv /\ NothingLeftBehind)'
  BY <1>1 DEF EarlyInv, Early, NothingLeftBehind
<1> QED BY <1>2, <1>4, <1>5, <1>6 DEF IInv

\* What precedes a moved node has been moved.
LEMMA ClosedLemma ==
  ASSUME IInv, phase = "schedule", NEW a \in Node, NEW b \in Scheduled, <<a, b>> \in AllEdges
  PROVE  a \in Scheduled
<1>1. Size \in Nat /\ Node = 1 .. Size /\ head \in 0 .. Size
  BY SizeLemma DEF IInv, Node, OrderInv
<1>2. PICK k \in 1 .. head : b = order[k]
  BY DEF Scheduled
<1>3. PlaceOf(b) = k /\ PlaceOf(a) \in Node /\ order[PlaceOf(a)] = a
  BY <1>1, <1>2, PlaceLemma DEF IInv
<1>4. PlaceOf(a) < PlaceOf(b)
  BY DEF IInv, EdgesRespected, Before
<1>5. PlaceOf(a) \in 1 .. head
  BY <1>1, <1>2, <1>3, <1>4
<1> QED BY <1>3, <1>5 DEF Scheduled

\* A counter reaches the number of a node's predecessors when the last of them
\* has been moved, and not before.
LEMMA ReleaseLemma ==
  ASSUME IInv, phase = "schedule", NEW n \in ready, Release(n),
         UNCHANGED <<block, scanVars>>, Scheduled' = Scheduled \cup {n}
  PROVE  ReadyInv'
<1> DEFINE P(m) == Predecessors(AllEdges, m)
           S == Scheduled
           succs == Successors(AllEdges, n)
           count == [m \in Node |-> IF m \in succs THEN seen[m] + 1 ELSE seen[m]]
<1>1. /\ Size \in Nat /\ Node = 1 .. Size /\ Node' = Node /\ AllEdges' = AllEdges
      /\ \A m \in Node : P(m)' = P(m)
  BY SizeLemma DEF IInv, Node, Size, AllEdges, scanVars, Predecessors
<1>2. /\ ready = {m \in Node \ S : P(m) \subseteq S}
      /\ seen = [m \in Node |-> Cardinality(P(m) \cap S)]
  BY DEF IInv, ReadyInv
<1>3. n \in Node /\ n \notin S
  BY <1>2
<1>4. seen' = count /\ ready' = (ready \ {n}) \cup Freed(succs, count)
  BY DEF Release
<1>5. \A m \in Node : m \in succs <=> n \in P(m)
  BY <1>3 DEF Successors, Predecessors
<1>6. \A m \in Node : IsFiniteSet(P(m)) /\ IsFiniteSet(P(m) \cap S)
  <2>1. IsFiniteSet(Node)
    BY <1>1, FS_Interval
  <2>2. \A m \in Node : P(m) \subseteq Node
    BY DEF Predecessors
  <2> HIDE DEF P, S
  <2>3. \A m \in Node : IsFiniteSet(P(m))
    BY <2>1, <2>2, FS_Subset
  <2> QED BY <2>3, FS_Intersection
<1>7. ASSUME NEW m \in Node
      PROVE  count[m] = Cardinality(P(m) \cap (S \cup {n}))
  <2> HIDE DEF P, S, succs
  <2>1. CASE m \in succs
    <3>1. P(m) \cap (S \cup {n}) = (P(m) \cap S) \cup {n}
      BY <2>1, <1>5
    <3>2. Cardinality((P(m) \cap S) \cup {n}) = Cardinality(P(m) \cap S) + 1
      BY <1>3, <1>6, FS_AddElement
    <3> QED BY <2>1, <3>1, <3>2, <1>2
  <2>2. CASE m \notin succs
    <3>1. P(m) \cap (S \cup {n}) = P(m) \cap S
      BY <2>2, <1>5
    <3> QED BY <2>2, <3>1, <1>2
  <2> QED BY <2>1, <2>2
<1>8. Freed(succs, count) = {m \in succs : P(m) \subseteq S \cup {n}}
  <2>1. ASSUME NEW m \in succs
        PROVE  count[m] = Cardinality(P(m)) <=> P(m) \subseteq S \cup {n}
    <3>1. m \in Node
      BY DEF Successors
    <3> HIDE DEF P, S, succs, count
    <3>2. P(m) \cap (S \cup {n}) \in SUBSET P(m)
      OBVIOUS
    <3>3. Cardinality(P(m)) = Cardinality(P(m) \cap (S \cup {n}))
            => P(m) = P(m) \cap (S \cup {n})
      BY <3>1, <3>2, <1>6, FS_Subset
    <3>4. P(m) \subseteq S \cup {n} => P(m) \cap (S \cup {n}) = P(m)
      OBVIOUS
    <3> QED BY <3>1, <3>3, <3>4, <1>7
  <2> HIDE DEF count, succs, S
  <2> QED BY <2>1 DEF Freed
<1>9. ready' = {m \in Node \ (S \cup {n}) : P(m) \subseteq S \cup {n}}
  <2>1. \A m \in Node : P(m) \subseteq S \cup {n} /\ m \notin succs => P(m) \subseteq S
    BY <1>5
  <2>2. \A m \in succs : m \in Node /\ m \notin S /\ m # n
    <3>1. AllEdges \subseteq Edge
      BY DEF IInv, EdgesForward, AllEdges
    <3>2. \A m \in succs : m \in Node /\ n < m
      BY <3>1, <1>1 DEF Successors, Edge
    <3>3. \A m \in succs : m \notin S
      BY <1>3, ClosedLemma DEF Successors
    <3> QED BY <3>2, <3>3, <1>1, <1>3
  <2> HIDE DEF P, S, succs, count
  <2> QED BY <1>2, <1>4, <1>8, <2>1, <2>2
<1> QED BY <1>1, <1>4, <1>7, <1>9 DEF ReadyInv

\* Moving a ready node keeps the invariant, whether or not max_steps stops there.
LEMMA ScheduleNextLemma == IInv /\ ScheduleNext => IInv'
<1> SUFFICES ASSUME IInv, ScheduleNext PROVE IInv'
  OBVIOUS
<1>1. /\ phase = "schedule" /\ phase' \in {"schedule", "done"} /\ block' = block
      /\ UNCHANGED scanVars
  BY DEF ScheduleNext
<1>2. PICK n \in ready :
        /\ ScheduleNode(n)
        /\ \/ Release(n) /\ phase' = "schedule"
           \/ steps + 1 >= block.budget /\ phase' = "done"
  BY <1>1 DEF ScheduleNext
<1>3. BlockInv' /\ EdgesForward' /\ ScanInv' /\ ControlInv'
  BY <1>1, LateStep
<1>4. n \in Node /\ n \notin Scheduled /\ Predecessors(AllEdges, n) \subseteq Scheduled
  BY <1>1 DEF IInv, ReadyInv
<1>5. /\ OrderInv'
      /\ Scheduled' = Scheduled \cup {n}
      /\ \A a, b \in Node :
           Before(a, b) /\ ~(b = n /\ a \notin Scheduled) => Before(a, b)'
  BY <1>1, <1>2, <1>4, MoveLemma DEF IInv
<1>6. EdgesRespected'
  <2>1. AllEdges' = AllEdges /\ AllEdges \subseteq Edge
    BY <1>1 DEF IInv, EdgesForward, AllEdges, scanVars
  <2>2. ASSUME NEW e \in AllEdges PROVE Before(e[1], e[2])'
    <3>1. e[1] \in Node /\ e[2] \in Node /\ e = <<e[1], e[2]>>
      BY <2>1 DEF Edge
    <3>2. Before(e[1], e[2])
      BY <1>1 DEF IInv, EdgesRespected
    <3>3. e[2] = n => e[1] \in Scheduled
      BY <3>1, <1>4 DEF Predecessors
    <3> QED BY <3>1, <3>2, <3>3, <1>5
  <2> QED BY <2>1, <2>2 DEF EdgesRespected
<1>7. ReadyInv'
  <2>1. CASE Release(n) /\ phase' = "schedule"
    BY <2>1, <1>1, <1>5, ReleaseLemma
  <2>2. CASE phase' = "done"
    BY <2>2 DEF ReadyInv
  <2> QED BY <2>1, <2>2, <1>2
<1>8. EarlyInv'
  BY <1>1 DEF EarlyInv, Early
<1>9. NothingLeftBehind'
  BY <1>1, <1>2 DEF NothingLeftBehind, ScheduleNext
<1> QED BY <1>3, <1>5, <1>6, <1>7, <1>8, <1>9 DEF IInv

\* If nothing is ready everything has been moved: the first node that has not
\* would be ready.
LEMMA FinishLemma == IInv /\ Finish => IInv'
<1> SUFFICES ASSUME IInv, Finish PROVE IInv'
  OBVIOUS
<1>1. /\ phase = "schedule" /\ phase' = "done" /\ block' = block
      /\ UNCHANGED <<scanVars, order, head, seen>> /\ ready = {}
  BY DEF Finish, listVars
<1>2. Size \in Nat /\ Node = 1 .. Size /\ head \in 0 .. Size
  BY SizeLemma DEF IInv, Node, OrderInv
<1>3. head = Size
  <2> SUFFICES ASSUME head # Size PROVE FALSE
    OBVIOUS
  <2>1. head + 1 \in Node
    BY <1>2
  <2>2. order[head + 1] \in Node /\ order[head + 1] \notin Scheduled
    BY <2>1, <1>2 DEF IInv, OrderInv, Scheduled
  <2>3. PICK u \in Node \ Scheduled : \A m \in Node \ Scheduled : u <= m
    <3> DEFINE T == Node \ Scheduled
    <3>1. T # {} /\ T \subseteq Nat
      BY <2>2, <1>2
    <3>2. \E x \in T : \A y \in T : x <= y
      <4> HIDE DEF T
      <4> QED BY <3>1, LeastElement
    <3> QED BY <3>2
  <2>4. AllEdges \subseteq Edge
    BY DEF IInv, EdgesForward, AllEdges
  <2>5. \A m \in Predecessors(AllEdges, u) : m \in Node /\ m < u
    BY <2>4 DEF Predecessors, Edge
  <2>6. Predecessors(AllEdges, u) \subseteq Scheduled
    BY <2>3, <2>5, <1>2
  <2> QED BY <2>3, <2>6, <1>1 DEF IInv, ReadyInv
<1>4. BlockInv' /\ EdgesForward' /\ ScanInv' /\ ControlInv'
  BY <1>1, LateStep
<1>5. Node' = Node /\ Size' = Size /\ AllEdges' = AllEdges
  BY <1>1 DEF Node, Size, AllEdges, scanVars
<1>6. OrderInv'
  BY <1>1, <1>5 DEF IInv, OrderInv, NoNodeLost
<1>7. EdgesRespected'
  BY <1>1, <1>5 DEF IInv, EdgesRespected, Before, PlaceOf
<1>8. (EarlyInv /\ ReadyInv /\ NothingLeftBehind)'
  BY <1>1, <1>3, <1>5 DEF EarlyInv, Early, ReadyInv, NothingLeftBehind
<1> QED BY <1>4, <1>6, <1>7, <1>8 DEF IInv

\* Steps that change nothing.
LEMMA StutterLemma == IInv /\ UNCHANGED vars => IInv'
<1> SUFFICES ASSUME IInv, UNCHANGED vars PROVE IInv'
  OBVIOUS
<1>1. UNCHANGED <<block, phase, next, edges, lastWriter, writers, prevMem, ctrlSources,
                  ready, seen, order, head, steps>>
  BY DEF vars, scanVars, listVars
<1>2. Node' = Node /\ Size' = Size /\ Edge' = Edge /\ AllEdges' = AllEdges /\ Scheduled' = Scheduled
  BY <1>1 DEF Node, Size, Edge, AllEdges, Scheduled
<1>3. (BlockInv /\ EdgesForward /\ ScanInv)'
  BY <1>1, <1>2 DEF IInv, BlockInv, EdgesForward, ScanInv
<1>4. (OrderInv /\ EarlyInv /\ NothingLeftBehind)'
  BY <1>1, <1>2 DEF IInv, OrderInv, NoNodeLost, EarlyInv, NothingLeftBehind
<1>5. ReadyInv'
  BY <1>1, <1>2 DEF IInv, ReadyInv, Predecessors
<1>6. EdgesRespected'
  BY <1>1, <1>2 DEF IInv, EdgesRespected, Before, PlaceOf
<1>7. ControlInv'
  BY <1>1, <1>2 DEF IInv, ControlInv, NoControlBetween, Insn
<1> QED BY <1>3, <1>4, <1>5, <1>6, <1>7 DEF IInv

\* The invariant holds in every state of every block.
THEOREM Invariance == Spec => []IInv
<1>1. IInv /\ [Next]_vars => IInv'
  BY FormNodeLemma, FinishForwardLemma, AntiNodeLemma, HeightsLemma, StartScheduleLemma,
     ScheduleNextLemma, FinishLemma, StutterLemma DEF Next
<1> QED BY InitLemma, <1>1, PTL DEF Spec

-----------------------------------------------------------------------------
(* What follows from the invariant.                                        *)

\* What stands before a control operation has a path of control edges to it:
\* of the pairs that changed places, take one whose nodes are closest.
LEMMA ControlLemma == IInv => ControlStays
<1> SUFFICES ASSUME IInv PROVE ControlStays
  OBVIOUS
<1>1. Size \in Nat /\ Node = 1 .. Size
  BY SizeLemma DEF IInv, Node
<1>2. \A n \in Node : PlaceOf(n) \in Node
  BY PlaceLemma DEF IInv
<1>3. CASE phase \in Early
  <2>1. \A n \in Node : PlaceOf(n) = n
    BY <1>3, PlaceLemma DEF IInv, EarlyInv
  <2> QED BY <2>1 DEF ControlStays, Before
<1>4. CASE phase \in {"schedule", "done"}
  <2> DEFINE Wrong(m, n) == m < n /\ Insn(n).ctrl /\ ~Before(m, n)
             D == {d \in Nat : \E m, n \in Node : Wrong(m, n) /\ d = n - m}
  <2> SUFFICES ASSUME ~ControlStays PROVE FALSE
    OBVIOUS
  <2>1. D # {} /\ D \subseteq Nat
    <3>1. PICK m \in Node, n \in Node : Wrong(m, n)
      BY DEF ControlStays
    <3>2. n - m \in Nat
      BY <3>1, <1>1
    <3> QED BY <3>1, <3>2
  <2>2. PICK d \in D : \A e \in D : d <= e
    <3> HIDE DEF D
    <3> QED BY <2>1, LeastElement
  <2>3. PICK m \in Node, n \in Node : Wrong(m, n) /\ d = n - m
    BY <2>2
  <2>4. ASSUME NEW a \in Node, NEW b \in Node, Wrong(a, b) PROVE n - m <= b - a
    <3>1. b - a \in Nat
      BY <2>4, <1>1
    <3> QED BY <3>1, <2>2, <2>3, <2>4
  <2> HIDE DEF D
  <2>5. CASE NoControlBetween(m, n)
    <3>1. <<m, n>> \in AllEdges
      BY <2>3, <2>5, <1>4 DEF IInv, ControlInv, AllEdges
    <3> QED BY <3>1, <2>3, <1>4 DEF IInv, EdgesRespected
  <2>6. CASE ~NoControlBetween(m, n)
    <3>1. PICK c \in m + 1 .. n - 1 : Insn(c).ctrl
      BY <2>6 DEF NoControlBetween
    <3>2. c \in Node /\ m < c /\ c < n /\ c - m < n - m /\ n - c < n - m
      BY <1>1
    <3>3. Before(m, c) /\ Before(c, n)
      BY <3>1, <3>2, <2>3, <2>4, <1>1
    <3>4. PlaceOf(m) \in Int /\ PlaceOf(c) \in Int /\ PlaceOf(n) \in Int
      BY <3>2, <1>1, <1>2
    <3> QED BY <3>3, <3>4, <2>3 DEF Before
  <2> QED BY <2>5, <2>6
<1> QED BY <1>3, <1>4 DEF IInv, EarlyInv

\* After every move the text respects every dependence FormDependenceDag found.
THEOREM DependenceTheorem == Spec => []EdgesRespected
<1>1. IInv => EdgesRespected
  BY DEF IInv
<1> QED BY <1>1, Invariance, PTL

\* What stood before a jump, a return, leave or hlt still does.
THEOREM ControlTheorem == Spec => []ControlStays
BY ControlLemma, Invariance, PTL

\* Moving nodes about neither loses one nor doubles one.
THEOREM PermutationTheorem == Spec => []NoNodeLost
<1>1. IInv => NoNodeLost
  BY DEF IInv, OrderInv
<1> QED BY <1>1, Invariance, PTL

\* The ready list runs dry only when every node has been moved.
THEOREM CompleteTheorem == Spec => []NothingLeftBehind
<1>1. IInv => NothingLeftBehind
  BY DEF IInv
<1> QED BY <1>1, Invariance, PTL

-----------------------------------------------------------------------------
(* What decides which ready node goes first: heights and marked sources.   *)

WritersOf(x) == {m \in Node : x \in Insn(m).def}

\* lastWriter has the last writer behind the forward scan, or else the one that
\* the previous iteration leaves.
LatestInv ==
  phase = "forward" =>
    \A x \in Regs :
      IF \E m \in WritersOf(x) : m < next
        THEN /\ lastWriter[x] \in WritersOf(x) /\ lastWriter[x] < next
             /\ \A m \in WritersOf(x) : m < next => m <= lastWriter[x]
        ELSE IF block.loop /\ WritersOf(x) # {}
          THEN lastWriter[x] \in WritersOf(x) /\ \A m \in WritersOf(x) : m <= lastWriter[x]
          ELSE lastWriter[x] = NONE

\* The value of n is read by the next iteration, by a node before k.
CarriedBefore(n, k) ==
  /\ block.loop
  /\ \E x \in Insn(n).def :
       /\ \A m \in WritersOf(x) : m <= n
       /\ \E j \in 1 .. k - 1 : x \in Sources(Insn(j)) /\ \A m \in WritersOf(x) : m >= j

LcdInv ==
  /\ phase = "forward" => lcd = {n \in Node : CarriedBefore(n, next)}
  /\ phase \in {"backward", "formed"} => lcd = {n \in Node : CarriedBefore(n, Size + 1)}

\* The height of n is known, and that of all that lies below it.
Known(n) ==
  /\ \A m \in Successors(HeightEdges, n) : heights[m] # UNKNOWN
  /\ heights[n] = Above(heights, Successors(HeightEdges, n))
  /\ Predecessors(HeightEdges, n) \subseteq visited

\* A node is on the work list, once, from when its first successor is measured
\* to when it is measured itself.
InWork(n) == \E i \in DOMAIN work : work[i] = n
WorkInv ==
  /\ phase \in {"forward", "backward", "formed"} =>
       work = <<>> /\ visited = {} /\ heights = [n \in Node |-> UNKNOWN]
  /\ phase = "heights" =>
       /\ work \in Seq(Node)
       /\ visited \subseteq Node
       /\ heights \in [Node -> Nat \cup {UNKNOWN}]
       /\ \A i, j \in DOMAIN work : work[i] = work[j] => i = j
       /\ \A n \in Node : heights[n] # UNKNOWN => Known(n)
       /\ \A n \in Node : heights[n] = UNKNOWN => (InWork(n) <=> n \in visited \cup Bottom)
       /\ \A n \in Node : InWork(n) => heights[n] = UNKNOWN

PriorityInv == LatestInv /\ LcdInv /\ WorkInv

-----------------------------------------------------------------------------
(* The nodes of a set in order.                                            *)

IsInOrder(f, k, s) ==
  f = [n \in 0 .. k |-> IF n = 0 THEN <<>>
                        ELSE IF n \in s THEN Append(f[n - 1], n) ELSE f[n - 1]]

\* The recursion of InOrder has a solution.
LEMMA InOrderExists ==
  ASSUME NEW s, NEW N \in Nat
  PROVE  \E f : IsInOrder(f, N, s)
<1> DEFINE D == {k \in Nat : ~ \E f : IsInOrder(f, k, s)}
<1> SUFFICES ASSUME D # {} PROVE FALSE
  OBVIOUS
<1>1. PICK k \in D : \A j \in D : k <= j
  <2>1. D \subseteq Nat /\ D # {}
    OBVIOUS
  <2> HIDE DEF D
  <2> QED BY <2>1, LeastElement
<1>2. CASE k = 0
  <2>1. IsInOrder([n \in 0 .. 0 |-> <<>>], 0, s)
    BY DEF IsInOrder
  <2> QED BY <2>1, <1>2
<1>3. CASE k # 0
  <2>1. k - 1 \in Nat /\ k - 1 \notin D
    BY <1>1, <1>3
  <2>2. PICK f : IsInOrder(f, k - 1, s)
    BY <2>1
  <2> DEFINE last == IF k \in s THEN Append(f[k - 1], k) ELSE f[k - 1]
             g == [n \in 0 .. k |-> IF n = k THEN last ELSE f[n]]
  <2>3. \A n \in 0 .. k - 1 : f[n] = IF n = 0 THEN <<>>
                               ELSE IF n \in s THEN Append(f[n - 1], n) ELSE f[n - 1]
    BY ONLY <2>1, <2>2 DEF IsInOrder
  <2>4. ASSUME NEW n \in 0 .. k
        PROVE  g[n] = IF n = 0 THEN <<>>
                      ELSE IF n \in s THEN Append(g[n - 1], n) ELSE g[n - 1]
    <3>1. CASE n = k
      <4>1. k - 1 \in 0 .. k /\ g[k - 1] = f[k - 1] /\ g[k] = last
        BY <1>3, <2>1
      <4> QED BY <4>1, <3>1, <1>3
    <3>2. CASE n # k /\ n # 0
      <4>1. n \in 0 .. k - 1 /\ n - 1 \in 0 .. k /\ n - 1 # k /\ g[n] = f[n]
        BY <3>2, <2>1
      <4>2. g[n - 1] = f[n - 1]
        BY <4>1
      <4> QED BY <4>1, <4>2, <2>3, <3>2
    <3>3. CASE n # k /\ n = 0
      <4>1. n \in 0 .. k - 1 /\ g[n] = f[n]
        BY <3>3, <2>1
      <4> QED BY <4>1, <2>3, <3>3
    <3> QED BY <3>1, <3>2, <3>3
  <2>5. IsInOrder(g, k, s)
    <3>1. g = [n \in 0 .. k |-> g[n]]
      OBVIOUS
    <3> HIDE DEF g
    <3> QED BY <3>1, <2>4 DEF IsInOrder
  <2> QED BY <2>5, <1>1
<1> QED BY <1>2, <1>3

\* q lists the members of s up to n, each once.
Lists(q, n, s) ==
  /\ q \in Seq(1 .. n)
  /\ \A m \in 1 .. n : m \in s <=> \E i \in DOMAIN q : q[i] = m
  /\ \A i, j \in DOMAIN q : q[i] = q[j] => i = j

LEMMA ListsStep ==
  ASSUME NEW s, NEW n \in Nat \ {0}, NEW q, Lists(q, n - 1, s)
  PROVE  Lists(IF n \in s THEN Append(q, n) ELSE q, n, s)
<1>1. /\ q \in Seq(1 .. n - 1)
      /\ \A m \in 1 .. n - 1 : m \in s <=> \E i \in DOMAIN q : q[i] = m
      /\ \A i, j \in DOMAIN q : q[i] = q[j] => i = j
  BY DEF Lists
<1>2. Len(q) \in Nat /\ DOMAIN q = 1 .. Len(q) /\ \A i \in DOMAIN q : q[i] \in 1 .. n - 1
  BY <1>1
<1>3. q \in Seq(1 .. n)
  BY <1>1
<1>4. CASE n \in s
  <2> DEFINE t == Append(q, n)
  <2>1. /\ DOMAIN t = 1 .. Len(q) + 1 /\ t[Len(q) + 1] = n
        /\ \A i \in DOMAIN q : t[i] = q[i]
        /\ t \in Seq(1 .. n)
    BY <1>1, <1>2, <1>3
  <2> HIDE DEF t
  <2>2. ASSUME NEW m \in 1 .. n
        PROVE  m \in s <=> \E i \in DOMAIN t : t[i] = m
    <3>1. CASE m = n
      BY <3>1, <2>1, <1>2, <1>4
    <3>2. CASE m # n
      <4>1. m \in 1 .. n - 1
        BY <3>2
      <4>2. \A i \in DOMAIN t : t[i] = m => i \in DOMAIN q
        BY <3>2, <2>1, <1>2
      <4>3. \A i \in DOMAIN q : i \in DOMAIN t
        BY <2>1, <1>2
      <4> QED BY <4>1, <4>2, <4>3, <2>1, <1>1
    <3> QED BY <3>1, <3>2
  <2>3. ASSUME NEW i \in DOMAIN t, NEW j \in DOMAIN t, t[i] = t[j]
        PROVE  i = j
    <3>1. \A k \in DOMAIN t : k \in DOMAIN q \/ k = Len(q) + 1
      BY <2>1, <1>2
    <3>2. \A k \in DOMAIN q : t[k] # n
      BY <2>1, <1>2
    <3> QED BY <3>1, <3>2, <2>1, <2>3, <1>1
  <2> QED BY <2>1, <2>2, <2>3, <1>4 DEF Lists, t
<1>5. CASE n \notin s
  <2>1. ASSUME NEW m \in 1 .. n
        PROVE  m \in s <=> \E i \in DOMAIN q : q[i] = m
    <3>1. m = n \/ m \in 1 .. n - 1
      OBVIOUS
    <3> QED BY <3>1, <1>1, <1>2, <1>5
  <2> QED BY <2>1, <1>1, <1>3, <1>5 DEF Lists
<1> QED BY <1>4, <1>5

\* InOrder lists every node of s once, and nothing else.
LEMMA InOrderLemma ==
  ASSUME BlockInv, NEW s
  PROVE  Lists(InOrder(s), Size, s)
<1> DEFINE f == CHOOSE g : IsInOrder(g, Size, s)
<1>1. Size \in Nat
  BY SizeLemma
<1>2. IsInOrder(f, Size, s)
  BY <1>1, InOrderExists
<1>3. InOrder(s) = f[Size]
  BY DEF InOrder, IsInOrder
<1> HIDE DEF f
<1>4. \A n \in 0 .. Size : f[n] = IF n = 0 THEN <<>>
                             ELSE IF n \in s THEN Append(f[n - 1], n) ELSE f[n - 1]
  BY ONLY <1>1, <1>2 DEF IsInOrder
<1> DEFINE D == {n \in 0 .. Size : ~ Lists(f[n], n, s)}
<1>5. D = {}
  <2> SUFFICES ASSUME D # {} PROVE FALSE
    OBVIOUS
  <2>1. PICK n \in D : \A m \in D : n <= m
    <3>1. D \subseteq Nat /\ D # {}
      BY <1>1
    <3> HIDE DEF D
    <3> QED BY <3>1, LeastElement
  <2>2. CASE n = 0
    <3>1. f[0] = <<>>
      BY <1>1, <1>4
    <3>2. Lists(<<>>, 0, s)
      BY DEF Lists
    <3> QED BY <3>1, <3>2, <2>1, <2>2
  <2>3. CASE n # 0
    <3>1. n \in Nat \ {0} /\ n \in 0 .. Size /\ n - 1 \in 0 .. Size /\ n - 1 \notin D
      BY <2>1, <2>3, <1>1
    <3>2. Lists(f[n - 1], n - 1, s)
      BY <3>1
    <3>3. Lists(f[n], n, s)
      <4>1. f[n] = IF n \in s THEN Append(f[n - 1], n) ELSE f[n - 1]
        BY <3>1, <1>4
      <4> QED BY <4>1, <3>1, <3>2, ListsStep
    <3> QED BY <3>3, <2>1
  <2> QED BY <2>2, <2>3
<1> QED BY <1>1, <1>3, <1>5

-----------------------------------------------------------------------------
(* The heights.                                                            *)

\* Above is one more than the height of a highest node.
LEMMA AboveLemma ==
  ASSUME NEW N \in Nat, NEW h, NEW S \in SUBSET (1 .. N), S # {}, \A m \in S : h[m] \in Nat
  PROVE  \E m \in S : (\A k \in S : h[k] <= h[m]) /\ Above(h, S) = 1 + h[m]
<1> DEFINE Highest(m, k) == m \in S /\ \A j \in S : j <= k => h[j] <= h[m]
           D == {k \in Nat : (\E j \in S : j <= k) /\ ~ \E m \in S : Highest(m, k)}
<1>0. \A j \in S : j \in 1 .. N
  OBVIOUS
<1>1. D = {}
  <2> SUFFICES ASSUME D # {} PROVE FALSE
    OBVIOUS
  <2>1. PICK k \in D : \A j \in D : k <= j
    <3>1. D \subseteq Nat /\ D # {}
      OBVIOUS
    <3> HIDE DEF D
    <3> QED BY <3>1, LeastElement
  <2>2. k \in Nat /\ (\E j \in S : j <= k) /\ ~ \E m \in S : Highest(m, k)
    BY <2>1
  <2>3. k - 1 \in Nat /\ k - 1 \notin D
    <3>1. k # 0
      BY <2>2, <1>0
    <3>2. k - 1 \in Nat
      BY <3>1, <2>2
    <3>3. ASSUME k - 1 \in D PROVE FALSE
      <4>1. k <= k - 1
        BY <3>3, <2>1
      <4> QED BY <4>1, <2>2
    <3> QED BY <3>2, <3>3
  <2>4. CASE \E j \in S : j <= k - 1
    <3>1. PICK m \in S : Highest(m, k - 1)
      BY <2>3, <2>4
    <3>2. CASE k \in S /\ h[m] < h[k]
      <4>1. ASSUME NEW j \in S, j <= k PROVE h[j] <= h[k]
        <5>1. j = k \/ j <= k - 1
          BY <4>1, <2>2, <1>0
        <5>2. h[j] \in Nat /\ h[m] \in Nat /\ h[k] \in Nat
          BY <3>2
        <5> QED BY <5>1, <5>2, <3>1, <3>2
      <4> QED BY <4>1, <3>2, <2>2
    <3>3. CASE ~(k \in S /\ h[m] < h[k])
      <4>1. ASSUME NEW j \in S, j <= k PROVE h[j] <= h[m]
        <5>1. j = k \/ j <= k - 1
          BY <4>1, <2>2, <1>0
        <5>2. h[j] \in Nat /\ h[m] \in Nat
          OBVIOUS
        <5> QED BY <5>1, <5>2, <3>1, <3>3
      <4> QED BY <4>1, <2>2
    <3> QED BY <3>2, <3>3
  <2>5. CASE ~ \E j \in S : j <= k - 1
    <3>1. \A j \in S : j <= k => j = k
      BY <2>2, <2>5, <1>0
    <3>2. k \in S
      BY <3>1, <2>2
    <3>3. Highest(k, k)
      BY <3>1, <3>2
    <3> QED BY <3>2, <3>3, <2>2
  <2> QED BY <2>4, <2>5
<1>2. PICK m \in S : Highest(m, N)
  <2>1. PICK j \in S : TRUE
    OBVIOUS
  <2>2. j <= N /\ N \notin D
    <3>1. j <= N
      BY <1>0
    <3> HIDE DEF D
    <3> QED BY <3>1, <1>1
  <2> QED BY <2>2
<1>3. \A k \in S : h[k] <= h[m]
  BY <1>0, <1>2
<1> HIDE DEF D
<1> QED BY <1>3 DEF Above

\* So it depends on the heights of the nodes only.
LEMMA AboveAgrees ==
  ASSUME NEW N \in Nat, NEW S \in SUBSET (1 .. N), NEW g, NEW h,
         \A m \in S : h[m] \in Nat /\ g[m] = h[m]
  PROVE  Above(g, S) = Above(h, S) /\ Above(h, S) \in Nat
<1>1. CASE S = {}
  BY <1>1 DEF Above
<1>2. CASE S # {}
  <2>1. PICK m \in S : (\A k \in S : h[k] <= h[m]) /\ Above(h, S) = 1 + h[m]
    BY <1>2, AboveLemma
  <2>2. PICK l \in S : (\A k \in S : g[k] <= g[l]) /\ Above(g, S) = 1 + g[l]
    BY <1>2, AboveLemma
  <2>3. /\ h[l] <= h[m] /\ g[m] <= g[l] /\ g[l] = h[l] /\ g[m] = h[m]
        /\ h[l] \in Nat /\ h[m] \in Nat
    BY <2>1, <2>2
  <2>4. h[l] = h[m]
    BY <2>3
  <2> QED BY <2>1, <2>2, <2>3, <2>4
<1> QED BY <1>1, <1>2

LEMMA MeasuredAgrees ==
  ASSUME Size \in Nat, NEW S \in SUBSET (1 .. Size),
         \A m \in S : heights[m] \in Nat, \A m \in S : heights'[m] = heights[m]
  PROVE  Above(heights', S) = Above(heights, S) /\ Above(heights, S) \in Nat
<1> DEFINE g == heights'
           h == heights
           N == Size
<1>1. \A m \in S : h[m] \in Nat /\ g[m] = h[m]
  OBVIOUS
<1>2. S \in SUBSET (1 .. N) /\ N \in Nat
  OBVIOUS
<1> HIDE DEF g, h, N
<1>3. Above(g, S) = Above(h, S) /\ Above(h, S) \in Nat
  BY ONLY <1>1, <1>2, AboveAgrees
<1> QED BY <1>3 DEF g, h

-----------------------------------------------------------------------------
(* PriorityInv through the steps.                                          *)

\* HeightEdges lead forward.
LEMMA HeightEdgesLemma ==
  ASSUME IInv, NEW n \in Node
  PROVE  /\ \A m \in Successors(HeightEdges, n) : m \in Node /\ n < m
         /\ \A m \in Predecessors(HeightEdges, n) : m \in Node /\ m < n
BY DEF IInv, EdgesForward, HeightEdges, Successors, Predecessors, Edge

LEMMA PostponeLemma == IInv /\ PriorityInv /\ Postpone => PriorityInv'
<1> SUFFICES ASSUME IInv, PriorityInv, Postpone PROVE PriorityInv'
  OBVIOUS
<1>1. /\ phase = "heights" /\ phase' = "heights" /\ work # <<>>
      /\ work' = Append(Tail(work), Head(work))
      /\ UNCHANGED <<block, edges, visited, heights>>
  BY DEF Postpone, scanVars
<1>2. Node' = Node /\ Bottom' = Bottom /\ HeightEdges' = HeightEdges /\ UNKNOWN' = UNKNOWN
  BY <1>1 DEF Node, Size, Bottom, HeightEdges, Successors, UNKNOWN
<1>3. \A n : Known(n)' <=> Known(n)
  BY <1>1, <1>2 DEF Known, Successors, Predecessors
<1>4. work \in Seq(Node) /\ \A i, j \in DOMAIN work : work[i] = work[j] => i = j
  BY <1>1 DEF PriorityInv, WorkInv
<1> DEFINE N == Len(work)
<1>5. /\ N \in Nat \ {0} /\ DOMAIN work = 1 .. N /\ DOMAIN work' = 1 .. N
      /\ work'[N] = work[1] /\ \A i \in 1 .. N - 1 : work'[i] = work[i + 1]
      /\ work' \in Seq(Node)
  BY <1>1, <1>4
<1> HIDE DEF N
<1>6. \A n : InWork(n)' <=> InWork(n)
  <2>1. ASSUME NEW n, InWork(n) PROVE InWork(n)'
    <3>1. PICK i \in 1 .. N : work[i] = n
      BY <2>1, <1>5 DEF InWork
    <3>2. CASE i = 1
      BY <3>1, <3>2, <1>5 DEF InWork
    <3>3. CASE i # 1
      <4>1. i - 1 \in 1 .. N - 1 /\ i - 1 \in 1 .. N /\ (i - 1) + 1 = i
        BY <3>3, <1>5
      <4>2. work'[i - 1] = n
        BY <4>1, <3>1, <1>5
      <4> QED BY <4>1, <4>2, <1>5 DEF InWork
    <3> QED BY <3>2, <3>3
  <2>2. ASSUME NEW n, InWork(n)' PROVE InWork(n)
    <3>1. PICK i \in 1 .. N : work'[i] = n
      BY <2>2, <1>5 DEF InWork
    <3>2. CASE i = N
      BY <3>1, <3>2, <1>5 DEF InWork
    <3>3. CASE i # N
      <4>1. i \in 1 .. N - 1 /\ i + 1 \in 1 .. N
        BY <3>3, <1>5
      <4> QED BY <4>1, <3>1, <1>5 DEF InWork
    <3> QED BY <3>2, <3>3
  <2> QED BY <2>1, <2>2
<1>7. ASSUME NEW i \in DOMAIN work', NEW j \in DOMAIN work', work'[i] = work'[j]
      PROVE  i = j
  <2> DEFINE Was(k) == IF k = N THEN 1 ELSE k + 1
  <2>1. \A k \in 1 .. N : Was(k) \in 1 .. N /\ work'[k] = work[Was(k)]
    BY <1>5
  <2>2. Was(i) = Was(j)
    BY <2>1, <1>7, <1>4, <1>5
  <2> QED BY <2>2, <1>5
<1>8. WorkInv'
  BY <1>1, <1>2, <1>3, <1>5, <1>6, <1>7 DEF PriorityInv, WorkInv
<1>9. (LatestInv /\ LcdInv)'
  BY <1>1 DEF LatestInv, LcdInv
<1> QED BY <1>8, <1>9 DEF PriorityInv

LEMMA StartHeightsLemma == IInv /\ PriorityInv /\ StartHeights => PriorityInv'
<1> SUFFICES ASSUME IInv, PriorityInv, StartHeights PROVE PriorityInv'
  OBVIOUS
<1>1. /\ phase = "formed" /\ phase' = "heights" /\ work' = InOrder(Bottom)
      /\ UNCHANGED <<block, edges, visited, heights>>
      /\ visited = {} /\ heights = [n \in Node |-> UNKNOWN]
  BY DEF StartHeights, scanVars, PriorityInv, WorkInv
<1>2. /\ Node' = Node /\ Bottom' = Bottom /\ HeightEdges' = HeightEdges
      /\ Node = 1 .. Size /\ Bottom \subseteq Node
  BY <1>1 DEF Node, Size, Bottom, HeightEdges, Successors
<1>3. Lists(work', Size, Bottom)
  BY <1>1, InOrderLemma DEF IInv
<1>4. /\ work' \in Seq(Node)
      /\ \A n \in Node : InWork(n)' <=> n \in Bottom
      /\ \A i, j \in DOMAIN work' : work'[i] = work'[j] => i = j
  BY <1>2, <1>3 DEF Lists, InWork
<1>5. WorkInv'
  BY <1>1, <1>2, <1>4 DEF WorkInv
<1>6. (LatestInv /\ LcdInv)'
  BY <1>1 DEF LatestInv, LcdInv
<1> QED BY <1>5, <1>6 DEF PriorityInv

LEMMA MeasureLemma == IInv /\ PriorityInv /\ Measure => PriorityInv'
<1> SUFFICES ASSUME IInv, PriorityInv, Measure PROVE PriorityInv'
  OBVIOUS
<1>0. PICK n \in Node : n = Head(work)
  BY DEF Measure, PriorityInv, WorkInv
<1> DEFINE below == Successors(HeightEdges, n)
           found == Predecessors(HeightEdges, n) \ visited
           new == InOrder(found)
<1>1. /\ phase = "heights" /\ phase' = "heights" /\ work # <<>>
      /\ \A m \in below : heights[m] # UNKNOWN
      /\ heights' = [heights EXCEPT ![n] = Above(heights, below)]
      /\ work' = Tail(work) \o new
      /\ visited' = visited \cup found
      /\ UNCHANGED <<block, edges>>
  BY <1>0 DEF Measure, Measurable, scanVars
<1>2. /\ Node' = Node /\ Bottom' = Bottom /\ HeightEdges' = HeightEdges
      /\ Node = 1 .. Size /\ Size \in Nat
  BY <1>1, SizeLemma DEF IInv, Node, Size, Bottom, HeightEdges, Successors
<1>3. /\ work \in Seq(Node) /\ visited \subseteq Node
      /\ heights \in [Node -> Nat \cup {UNKNOWN}]
      /\ \A i, j \in DOMAIN work : work[i] = work[j] => i = j
      /\ \A m \in Node : heights[m] # UNKNOWN => Known(m)
      /\ \A m \in Node : heights[m] = UNKNOWN => (InWork(m) <=> m \in visited \cup Bottom)
      /\ \A m \in Node : InWork(m) => heights[m] = UNKNOWN
  BY <1>1 DEF PriorityInv, WorkInv
<1>4. /\ Len(work) \in Nat \ {0} /\ DOMAIN work = 1 .. Len(work)
      /\ n \in Node /\ n = work[1]
  BY <1>0, <1>1, <1>3
<1>5. InWork(n) /\ heights[n] = UNKNOWN
  BY <1>3, <1>4 DEF InWork
<1>6. /\ below \in SUBSET (1 .. Size) /\ n \notin below
      /\ \A m \in below : heights[m] \in Nat /\ heights'[m] = heights[m]
  <2>1. \A m \in below : m \in Node /\ n < m
    BY <1>4, HeightEdgesLemma
  <2> QED BY <2>1, <1>1, <1>2, <1>3, <1>4
<1>7. found \subseteq Node /\ \A m \in found : m # n
  <2>1. \A m \in Predecessors(HeightEdges, n) : m \in Node /\ m < n
    BY <1>4, HeightEdgesLemma
  <2> QED BY <2>1, <1>2
<1>8. Lists(new, Size, found)
  BY InOrderLemma DEF IInv
<1> DEFINE v == Above(heights, below)
<1>9. v \in Nat /\ Above(heights', below) = v
  <2>1. \A m \in below : heights[m] \in Nat
    BY <1>6
  <2>2. \A m \in below : heights'[m] = heights[m]
    BY <1>6
  <2>3. Size \in Nat /\ below \in SUBSET (1 .. Size)
    BY <1>2, <1>6
  <2> HIDE DEF below
  <2> QED BY <2>1, <2>2, <2>3, MeasuredAgrees
<1> HIDE DEF below, found, new, v
<1>10. /\ heights'[n] = v
       /\ \A m \in Node : m # n => heights'[m] = heights[m]
       /\ heights' \in [Node -> Nat \cup {UNKNOWN}]
  BY <1>1, <1>3, <1>4, <1>9 DEF v
<1>11. \A m : Successors(HeightEdges, m)' = Successors(HeightEdges, m)
  BY <1>2 DEF Successors
<1>12. \A m : Predecessors(HeightEdges, m)' = Predecessors(HeightEdges, m)
  BY <1>2 DEF Predecessors
<1>13. ASSUME NEW m \in Node, heights[m] # UNKNOWN
       PROVE  Known(m)'
  <2>1. Known(m)
    BY <1>3, <1>13
  <2> DEFINE T == Successors(HeightEdges, m)
  <2>2. \A k \in T : k \in Node /\ heights[k] # UNKNOWN
    BY <2>1, HeightEdgesLemma DEF Known
  <2>3. T \subseteq 1 .. Size /\ \A k \in T : heights[k] \in Nat /\ heights'[k] = heights[k]
    BY <2>2, <1>2, <1>3, <1>5, <1>10
  <2>4. Above(heights', T) = Above(heights, T)
    <3>1. T \in SUBSET (1 .. Size)
      BY <2>3
    <3>2. \A k \in T : heights[k] \in Nat
      BY <2>3
    <3>3. \A k \in T : heights'[k] = heights[k]
      BY <2>3
    <3>4. Size \in Nat
      BY <1>2
    <3> HIDE DEF T
    <3> QED BY <3>1, <3>2, <3>3, <3>4, MeasuredAgrees
  <2>5. heights'[m] = heights[m]
    BY <1>5, <1>10, <1>13
  <2>6. \A k \in T : heights'[k] # UNKNOWN
    BY <2>2, <2>3
  <2>7. heights[m] = Above(heights, T) /\ Predecessors(HeightEdges, m) \subseteq visited
    BY <2>1 DEF Known
  <2> HIDE DEF T
  <2>8. UNKNOWN' = UNKNOWN
    BY DEF UNKNOWN
  <2>9. Successors(HeightEdges, m)' = T
    BY <1>11 DEF T
  <2> QED BY <2>4, <2>5, <2>6, <2>7, <2>8, <2>9, <1>1, <1>12 DEF Known
<1>14. Known(n)'
  <2>1. Successors(HeightEdges, n)' = below
    BY <1>11 DEF below
  <2>2. Predecessors(HeightEdges, n)' \subseteq visited'
    BY <1>1, <1>12 DEF found
  <2>3. \A m \in below : heights'[m] # UNKNOWN
    BY <1>1, <1>6
  <2>4. heights'[n] = Above(heights', below)
    BY <1>9, <1>10
  <2> QED BY <2>1, <2>2, <2>3, <2>4 DEF Known, UNKNOWN
<1>15. ASSUME NEW m \in found
       PROVE  m \in Node /\ heights[m] = UNKNOWN /\ ~InWork(m) /\ m \notin Bottom
  <2>1. m \in Node /\ m \notin visited /\ n \in Successors(HeightEdges, m)
    BY <1>4, <1>7 DEF found, Predecessors, Successors
  <2>2. heights[m] = UNKNOWN
    BY <2>1, <1>3, <1>5 DEF Known
  <2> QED BY <2>1, <2>2, <1>3 DEF Bottom
<1> DEFINE N == Len(work) - 1
           K == Len(new)
<1>16. /\ new \in Seq(Node) /\ K \in Nat /\ DOMAIN new = 1 .. K
       /\ \A m \in Node : m \in found <=> \E i \in 1 .. K : new[i] = m
       /\ \A i, j \in 1 .. K : new[i] = new[j] => i = j
  BY <1>2, <1>8 DEF Lists
<1>17. /\ work' \in Seq(Node) /\ N \in Nat /\ DOMAIN work' = 1 .. N + K
       /\ \A i \in 1 .. N : work'[i] = work[i + 1]
       /\ \A i \in 1 .. K : work'[N + i] = new[i]
  <2>1. /\ Tail(work) \in Seq(Node) /\ Len(Tail(work)) = N /\ N \in Nat
        /\ \A i \in 1 .. N : Tail(work)[i] = work[i + 1]
    BY <1>3, <1>4
  <2> QED BY <2>1, <1>1, <1>16
<1> HIDE DEF N, K
<1>18. \A i \in 1 .. N + K : i \in 1 .. N \/ (i - N \in 1 .. K /\ i = N + (i - N))
  BY <1>16, <1>17
<1>19. \A i \in 1 .. N : i + 1 \in DOMAIN work /\ i + 1 # 1
  BY <1>4 DEF N
<1>20. ASSUME NEW m \in Node
       PROVE  InWork(m)' <=> (InWork(m) /\ m # n) \/ m \in found
  <2>1. ASSUME InWork(m), m # n PROVE InWork(m)'
    <3>1. PICK i \in DOMAIN work : work[i] = m
      BY <2>1 DEF InWork
    <3>2. i - 1 \in 1 .. N /\ (i - 1) + 1 = i /\ i - 1 \in 1 .. N + K
      BY <3>1, <2>1, <1>4, <1>16 DEF N
    <3> QED BY <3>1, <3>2, <1>17 DEF InWork
  <2>2. ASSUME m \in found PROVE InWork(m)'
    <3>1. PICK i \in 1 .. K : new[i] = m
      BY <2>2, <1>16
    <3>2. N + i \in 1 .. N + K /\ work'[N + i] = m
      BY <3>1, <1>16, <1>17
    <3> QED BY <3>2, <1>17 DEF InWork
  <2>3. ASSUME InWork(m)' PROVE (InWork(m) /\ m # n) \/ m \in found
    <3>1. PICK i \in 1 .. N + K : work'[i] = m
      BY <2>3, <1>17 DEF InWork
    <3>2. CASE i \in 1 .. N
      <4>1. work[i + 1] = m /\ i + 1 \in DOMAIN work /\ i + 1 # 1 /\ 1 \in DOMAIN work
        BY <3>1, <3>2, <1>4, <1>17, <1>19
      <4>2. m # n
        BY <4>1, <1>3, <1>4
      <4> QED BY <4>1, <4>2 DEF InWork
    <3>3. CASE i - N \in 1 .. K /\ i = N + (i - N)
      BY <3>1, <3>3, <1>16, <1>17
    <3> QED BY <3>2, <3>3, <1>18
  <2> QED BY <2>1, <2>2, <2>3
<1>21. ASSUME NEW i \in DOMAIN work', NEW j \in DOMAIN work', work'[i] = work'[j]
       PROVE  i = j
  <2>1. \A k \in 1 .. N : \E l \in DOMAIN work : work[l] = work'[k]
    BY <1>17, <1>19
  <2>2. ASSUME NEW k \in 1 .. K PROVE ~ \E l \in DOMAIN work : work[l] = work'[N + k]
    <3>1. new[k] \in found /\ work'[N + k] = new[k]
      BY <1>16, <1>17
    <3> QED BY <3>1, <1>15 DEF InWork
  <2>3. CASE i \in 1 .. N /\ j \in 1 .. N
    <3>1. i + 1 = j + 1
      BY <2>3, <1>3, <1>17, <1>19, <1>21
    <3> QED BY <3>1, <2>3
  <2>4. CASE i - N \in 1 .. K /\ j - N \in 1 .. K
    <3>1. work'[i] = new[i - N] /\ work'[j] = new[j - N]
      BY <2>4, <1>17, <1>18
    <3>2. i - N = j - N
      BY <3>1, <2>4, <1>16, <1>21
    <3> QED BY <3>2, <1>17
  <2> QED BY <2>1, <2>2, <2>3, <2>4, <1>17, <1>18, <1>21
<1>22. WorkInv'
  <2>1. phase' = "heights" /\ UNKNOWN' = UNKNOWN
    BY <1>1 DEF UNKNOWN
  <2>2. visited' \subseteq Node
    BY <1>1, <1>3, <1>7
  <2>3. ASSUME NEW m \in Node, heights'[m] # UNKNOWN PROVE Known(m)'
    <3>1. CASE m = n
      BY <3>1, <1>14
    <3>2. CASE m # n
      <4>1. heights[m] # UNKNOWN
        BY <3>2, <2>3, <1>10
      <4> QED BY <4>1, <1>13
    <3> QED BY <3>1, <3>2
  <2>4. ASSUME NEW m \in Node, heights'[m] = UNKNOWN
        PROVE  InWork(m)' <=> m \in visited' \cup Bottom
    <3>1. m # n /\ heights[m] = UNKNOWN
      BY <2>4, <1>9, <1>10 DEF UNKNOWN
    <3> QED BY <3>1, <1>1, <1>3, <1>20
  <2>5. ASSUME NEW m \in Node, InWork(m)' PROVE heights'[m] = UNKNOWN
    <3>1. m # n /\ heights[m] = UNKNOWN
      BY <2>5, <1>3, <1>5, <1>15, <1>20
    <3> QED BY <3>1, <1>10
  <2> QED BY <2>1, <2>2, <2>3, <2>4, <2>5, <1>2, <1>10, <1>17, <1>21 DEF WorkInv
<1>23. (LatestInv /\ LcdInv)'
  BY <1>1 DEF LatestInv, LcdInv
<1> QED BY <1>22, <1>23 DEF PriorityInv

\* The registers of a node.
LEMMA InsnLemma ==
  ASSUME IInv, NEW n \in Node
  PROVE  Insn(n).def \subseteq Regs /\ Sources(Insn(n)) \subseteq Regs
<1>1. IsBlock(block)
  BY BlocksAssumption DEF IInv, BlockInv
<1>2. Insn(n) \in NodeType
  BY <1>1 DEF IsBlock, Insn, Node, Size
<1> QED BY <1>2 DEF NodeType, Sources

LEMMA PriorityInit == Init => PriorityInv
<1> SUFFICES ASSUME Init PROVE PriorityInv
  OBVIOUS
<1>1. /\ BlockInv /\ phase = "forward" /\ next = 1 /\ lcd = {}
      /\ lastWriter = [x \in Regs |-> IF block.loop THEN LastWriterIn(block.nodes, x) ELSE NONE]
      /\ work = <<>> /\ visited = {} /\ heights = [n \in Node |-> UNKNOWN]
  BY DEF Init, BlockInv
<1>2. Size \in Nat /\ Node = 1 .. Size
  BY <1>1, SizeLemma DEF Node
<1>3. ASSUME NEW x \in Regs
      PROVE  /\ ~ \E m \in WritersOf(x) : m < next
             /\ IF block.loop /\ WritersOf(x) # {}
                  THEN lastWriter[x] \in WritersOf(x) /\ \A m \in WritersOf(x) : m <= lastWriter[x]
                  ELSE lastWriter[x] = NONE
  <2> DEFINE W == WritersOf(x)
  <2>1. W \subseteq 1 .. Size
    BY <1>2 DEF WritersOf
  <2>2. LastWriterIn(block.nodes, x) =
          IF W = {} THEN NONE ELSE CHOOSE n \in W : \A m \in W : m <= n
    BY DEF LastWriterIn, WritersOf, Insn, Node, Size
  <2>3. W # {} => \E n \in W : \A m \in W : m <= n
    <3> HIDE DEF W
    <3> QED BY <1>2, <2>1, GreatestElement
  <2>4. lastWriter[x] = IF block.loop THEN LastWriterIn(block.nodes, x) ELSE NONE
    BY <1>1
  <2>5. ~ \E m \in W : m < next
    BY <2>1, <1>1, <1>2
  <2> HIDE DEF W
  <2>6. W # {} => LastWriterIn(block.nodes, x) \in W
                  /\ \A m \in W : m <= LastWriterIn(block.nodes, x)
    BY <2>2, <2>3
  <2> QED BY <2>2, <2>4, <2>5, <2>6 DEF W
<1>4. LatestInv
  BY <1>3 DEF LatestInv
<1>5. LcdInv
  BY <1>1 DEF LcdInv, CarriedBefore
<1>6. WorkInv
  BY <1>1 DEF WorkInv
<1> QED BY <1>4, <1>5, <1>6 DEF PriorityInv

\* What a node finds at the top of the block is what the previous iteration
\* leaves.
LEMMA CarriedLemma ==
  ASSUME IInv, LatestInv, phase = "forward", next \in Node, NEW n \in Node
  PROVE  n \in Carried(Insn(next)) <=>
           /\ block.loop
           /\ \E x \in Insn(n).def :
                /\ \A m \in WritersOf(x) : m <= n
                /\ x \in Sources(Insn(next)) /\ \A m \in WritersOf(x) : m >= next
<1>1. Size \in Nat /\ Node = 1 .. Size
  BY SizeLemma DEF IInv, Node
<1>2. Sources(Insn(next)) \subseteq Regs /\ Insn(n).def \subseteq Regs
  BY InsnLemma
<1>3. \A x : WritersOf(x) \subseteq Node
  BY DEF WritersOf
<1>4. \A x \in Regs :
        IF \E m \in WritersOf(x) : m < next
          THEN lastWriter[x] \in WritersOf(x) /\ lastWriter[x] < next
          ELSE IF block.loop /\ WritersOf(x) # {}
            THEN lastWriter[x] \in WritersOf(x) /\ \A m \in WritersOf(x) : m <= lastWriter[x]
            ELSE lastWriter[x] = NONE
  BY DEF LatestInv
<1>5. ASSUME n \in Carried(Insn(next))
      PROVE  /\ block.loop
             /\ \E x \in Insn(n).def :
                  /\ \A m \in WritersOf(x) : m <= n
                  /\ x \in Sources(Insn(next)) /\ \A m \in WritersOf(x) : m >= next
  <2>1. PICK x \in Sources(Insn(next)) : n = lastWriter[x] /\ lastWriter[x] >= next
    BY <1>5 DEF Carried
  <2>2. ~ lastWriter[x] < next /\ lastWriter[x] # NONE
    BY <2>1, <1>1 DEF NONE
  <2>3. /\ ~ \E m \in WritersOf(x) : m < next
        /\ block.loop /\ n \in WritersOf(x) /\ \A m \in WritersOf(x) : m <= n
    BY <2>1, <2>2, <1>2, <1>4
  <2>4. \A m \in WritersOf(x) : m >= next
    BY <2>3, <1>1, <1>3
  <2>5. x \in Insn(n).def
    BY <2>3 DEF WritersOf
  <2> QED BY <2>1, <2>3, <2>4, <2>5
<1>6. ASSUME block.loop,
             NEW x \in Insn(n).def,
             \A m \in WritersOf(x) : m <= n,
             x \in Sources(Insn(next)), \A m \in WritersOf(x) : m >= next
      PROVE  n \in Carried(Insn(next))
  <2>1. n \in WritersOf(x)
    BY DEF WritersOf
  <2>2. ~ \E m \in WritersOf(x) : m < next
    BY <1>1, <1>3, <1>6
  <2>3. lastWriter[x] \in WritersOf(x) /\ \A m \in WritersOf(x) : m <= lastWriter[x]
    BY <2>1, <2>2, <1>2, <1>4, <1>6
  <2>4. lastWriter[x] = n /\ n >= next
    BY <2>1, <2>3, <1>1, <1>3, <1>6
  <2> QED BY <2>4, <1>6 DEF Carried
<1> QED BY <1>5, <1>6

LEMMA FormPriorities == IInv /\ PriorityInv /\ FormNode => PriorityInv'
<1> SUFFICES ASSUME IInv, PriorityInv, FormNode PROVE PriorityInv'
  OBVIOUS
<1> DEFINE i == Insn(next)
<1>1. /\ phase = "forward" /\ phase' = "forward" /\ next <= Size /\ next' = next + 1
      /\ lcd' = lcd \cup Carried(i)
      /\ lastWriter' = [x \in Regs |-> IF x \in i.def THEN next ELSE lastWriter[x]]
      /\ UNCHANGED <<block, work, visited, heights>>
  BY DEF FormNode, heightVars
<1>2. /\ Size \in Nat /\ Node = 1 .. Size /\ Node' = Node /\ next \in Node
      /\ lastWriter \in [Regs -> 0 .. Size]
  BY <1>1, SizeLemma DEF IInv, ScanInv, Node, Size
<1>3. \A m : Insn(m)' = Insn(m)
  BY <1>1 DEF Insn
<1>4. \A x : WritersOf(x)' = WritersOf(x) /\ WritersOf(x) \subseteq Node
  BY <1>2, <1>3 DEF WritersOf
<1>5. LatestInv'
  <2>1. ASSUME NEW x \in Regs
        PROVE  IF \E m \in WritersOf(x) : m < next'
                 THEN /\ lastWriter'[x] \in WritersOf(x) /\ lastWriter'[x] < next'
                      /\ \A m \in WritersOf(x) : m < next' => m <= lastWriter'[x]
                 ELSE IF block.loop /\ WritersOf(x) # {}
                   THEN /\ lastWriter'[x] \in WritersOf(x)
                        /\ \A m \in WritersOf(x) : m <= lastWriter'[x]
                   ELSE lastWriter'[x] = NONE
    <3>1. CASE x \in i.def
      <4>1. next \in WritersOf(x) /\ lastWriter'[x] = next
        BY <3>1, <1>1, <1>2 DEF WritersOf
      <4>2. next < next' /\ \A m \in WritersOf(x) : m < next' => m <= next
        BY <1>1, <1>2, <1>4
      <4> QED BY <4>1, <4>2
    <3>2. CASE x \notin i.def
      <4>1. next \notin WritersOf(x) /\ lastWriter'[x] = lastWriter[x]
        BY <3>2, <1>1 DEF WritersOf
      <4>2. \A m \in WritersOf(x) : m < next' <=> m < next
        BY <4>1, <1>1, <1>2, <1>4
      <4>3. lastWriter[x] < next => lastWriter[x] < next'
        BY <1>1, <1>2
      <4>4. IF \E m \in WritersOf(x) : m < next
              THEN /\ lastWriter[x] \in WritersOf(x) /\ lastWriter[x] < next
                   /\ \A m \in WritersOf(x) : m < next => m <= lastWriter[x]
              ELSE IF block.loop /\ WritersOf(x) # {}
                THEN lastWriter[x] \in WritersOf(x) /\ \A m \in WritersOf(x) : m <= lastWriter[x]
                ELSE lastWriter[x] = NONE
        BY <1>1 DEF PriorityInv, LatestInv
      <4> QED BY <4>1, <4>2, <4>3, <4>4
    <3> QED BY <3>1, <3>2
  <2> QED BY <2>1, <1>1, <1>4 DEF LatestInv, NONE
<1>6. LcdInv'
  <2>1. \A n \in Node : CarriedBefore(n, next + 1) <=>
          CarriedBefore(n, next) \/ n \in Carried(i)
    <3> TAKE n \in Node
    <3>1. \A j : j \in 1 .. (next + 1) - 1 <=> j \in 1 .. next - 1 \/ j = next
      BY <1>2
    <3>2. n \in Carried(i) <=>
            /\ block.loop
            /\ \E x \in Insn(n).def :
                 /\ \A m \in WritersOf(x) : m <= n
                 /\ x \in Sources(i) /\ \A m \in WritersOf(x) : m >= next
      BY <1>1, <1>2, CarriedLemma DEF PriorityInv
    <3> HIDE DEF i
    <3> QED BY <3>1, <3>2 DEF CarriedBefore, i
  <2>2. lcd = {n \in Node : CarriedBefore(n, next)}
    BY <1>1 DEF PriorityInv, LcdInv
  <2>3. Carried(i) \subseteq Node
    <3>1. \A x \in Sources(i) : x \in Regs
      BY <1>2, InsnLemma
    <3> QED BY <3>1, <1>2 DEF Carried
  <2>4. lcd' = {n \in Node : CarriedBefore(n, next + 1)}
    BY <1>1, <2>1, <2>2, <2>3
  <2>5. ASSUME NEW n PROVE CarriedBefore(n, next)' <=> CarriedBefore(n, next + 1)
    BY <1>1, <1>3, <1>4 DEF CarriedBefore
  <2> QED BY <2>4, <2>5, <1>1, <1>2 DEF LcdInv
<1>7. WorkInv'
  BY <1>1, <1>2 DEF PriorityInv, WorkInv, UNKNOWN
<1> QED BY <1>5, <1>6, <1>7 DEF PriorityInv

\* The steps between the forward scan and the heights.
LEMMA BetweenPriorities == IInv /\ PriorityInv /\ (FinishForward \/ AntiNode) => PriorityInv'
<1> SUFFICES ASSUME IInv, PriorityInv, FinishForward \/ AntiNode PROVE PriorityInv'
  OBVIOUS
<1>1. /\ phase \in {"forward", "backward"} /\ phase' \in {"backward", "formed"}
      /\ phase = "forward" => next > Size
      /\ UNCHANGED <<block, lcd, work, visited, heights>>
  BY DEF FinishForward, AntiNode, heightVars
<1>2. /\ Size \in Nat /\ Size' = Size /\ Node' = Node
      /\ phase = "forward" => next \in 1 .. Size + 1
  BY <1>1, SizeLemma DEF IInv, ScanInv, Node, Size
<1>3. lcd = {n \in Node : CarriedBefore(n, Size + 1)}
  <2>1. CASE phase = "forward"
    <3>1. next = Size + 1
      BY <2>1, <1>1, <1>2
    <3> QED BY <3>1, <2>1 DEF PriorityInv, LcdInv
  <2>2. CASE phase = "backward"
    BY <2>2 DEF PriorityInv, LcdInv
  <2> QED BY <2>1, <2>2, <1>1
<1>4. ASSUME NEW n PROVE CarriedBefore(n, Size + 1)' <=> CarriedBefore(n, Size + 1)
  BY <1>1, <1>2 DEF CarriedBefore, WritersOf, Insn, Node
<1>5. LcdInv'
  BY <1>1, <1>2, <1>3, <1>4 DEF LcdInv
<1>6. (LatestInv /\ WorkInv)'
  BY <1>1, <1>2 DEF PriorityInv, LatestInv, WorkInv, UNKNOWN
<1> QED BY <1>5, <1>6 DEF PriorityInv

\* Once the list scheduling begins the three have nothing more to say.
LEMMA LatePriorities ==
  PriorityInv /\ (StartSchedule \/ ScheduleNext \/ Finish) => PriorityInv'
<1> SUFFICES ASSUME StartSchedule \/ ScheduleNext \/ Finish PROVE PriorityInv'
  OBVIOUS
<1>1. phase' \in {"schedule", "done"}
  BY DEF StartSchedule, ScheduleNext, Finish
<1> QED BY <1>1 DEF PriorityInv, LatestInv, LcdInv, WorkInv

LEMMA StutterPriorities == PriorityInv /\ UNCHANGED vars => PriorityInv'
<1> SUFFICES ASSUME PriorityInv, UNCHANGED vars PROVE PriorityInv'
  OBVIOUS
<1>1. UNCHANGED <<block, phase, next, edges, lastWriter, lcd, work, visited, heights>>
  BY DEF vars, scanVars, heightVars
<1>2. LatestInv'
  BY <1>1 DEF PriorityInv, LatestInv, WritersOf, Insn, Node, Size, NONE
<1>3. LcdInv'
  BY <1>1 DEF PriorityInv, LcdInv, CarriedBefore, WritersOf, Insn, Node, Size
<1>4. WorkInv'
  <2>1. \A n : Known(n)' <=> Known(n)
    BY <1>1 DEF Known, Successors, Predecessors, HeightEdges, Node, Size, UNKNOWN
  <2>2. \A n : InWork(n)' <=> InWork(n)
    BY <1>1 DEF InWork
  <2>3. Node' = Node /\ Bottom' = Bottom
    BY <1>1 DEF Node, Size, Bottom, Successors, HeightEdges
  <2> QED BY <1>1, <2>1, <2>2, <2>3 DEF PriorityInv, WorkInv, UNKNOWN
<1> QED BY <1>2, <1>3, <1>4 DEF PriorityInv

LEMMA PriorityInvariance == Spec => []PriorityInv
<1>1. IInv /\ PriorityInv /\ [Next]_vars => PriorityInv'
  BY FormPriorities, BetweenPriorities, StartHeightsLemma, PostponeLemma, MeasureLemma,
     LatePriorities, StutterPriorities DEF Next
<1> QED BY PriorityInit, Invariance, <1>1, PTL DEF Spec

\* When the work list is empty every height is known, so each is what it should
\* be: the greatest node without one would have a measured successor, which put
\* it on the list.
LEMMA LongestLemma == IInv /\ PriorityInv => HeightsAreLongest
<1> SUFFICES ASSUME IInv, PriorityInv, phase = "heights", work = <<>>,
                    NEW n \in Node
             PROVE  heights[n] = Above(heights, Successors(HeightEdges, n))
  BY DEF HeightsAreLongest
<1>1. /\ \A m \in Node : heights[m] # UNKNOWN => Known(m)
      /\ \A m \in Node : heights[m] = UNKNOWN => m \notin visited \cup Bottom
  <2>1. \A m : ~InWork(m)
    BY DEF InWork
  <2> QED BY <2>1 DEF PriorityInv, WorkInv
<1> DEFINE D == {m \in Node : heights[m] = UNKNOWN}
<1>2. D = {}
  <2> SUFFICES ASSUME D # {} PROVE FALSE
    OBVIOUS
  <2>1. Size \in Nat /\ Node = 1 .. Size
    BY SizeLemma DEF IInv, Node
  <2>2. PICK m \in D : \A k \in D : k <= m
    <3>1. D \subseteq 1 .. Size
      BY <2>1
    <3> HIDE DEF D
    <3> QED BY <3>1, <2>1, GreatestElement
  <2>3. m \in Node /\ heights[m] = UNKNOWN /\ m \notin visited /\ m \notin Bottom
    BY <2>2, <1>1
  <2>4. PICK k \in Successors(HeightEdges, m) : k \in Node /\ m < k
    BY <2>3, HeightEdgesLemma DEF Bottom
  <2>5. heights[k] # UNKNOWN
    BY <2>1, <2>2, <2>4
  <2>6. m \in Predecessors(HeightEdges, k)
    BY <2>3, <2>4 DEF Successors, Predecessors
  <2> QED BY <2>3, <2>4, <2>5, <2>6, <1>1 DEF Known
<1>3. Known(n)
  BY <1>1, <1>2
<1> QED BY <1>3 DEF Known

LEMMA LcdLemma == IInv /\ PriorityInv => LcdIsLoopCarried
<1> SUFFICES ASSUME IInv, PriorityInv, phase = "formed" PROVE LcdIsLoopCarried
  BY DEF LcdIsLoopCarried
<1>1. Size \in Nat /\ Node = 1 .. Size /\ (Size + 1) - 1 = Size
  BY SizeLemma DEF IInv, Node
<1>2. lcd = {n \in Node : CarriedBefore(n, Size + 1)}
  BY DEF PriorityInv, LcdInv
<1>3. ASSUME NEW n \in Node
      PROVE  CarriedBefore(n, Size + 1) <=>
               /\ block.loop
               /\ \E x \in Insn(n).def :
                    /\ \A m \in Node : x \in Insn(m).def => m <= n
                    /\ \E j \in Node : /\ x \in Sources(Insn(j))
                                       /\ \A m \in Node : x \in Insn(m).def => m >= j
  BY <1>1 DEF CarriedBefore, WritersOf
<1> QED BY <1>2, <1>3 DEF LcdIsLoopCarried

\* What decides which ready node goes first is as the heuristic means it, in
\* whichever order the work list of ComputeDependenceHeights is served.
THEOREM PrioritiesTheorem == Spec => []PrioritiesAreRight
<1>1. IInv /\ PriorityInv => PrioritiesAreRight
  BY LongestLemma, LcdLemma DEF PrioritiesAreRight
<1> QED BY <1>1, Invariance, PriorityInvariance, PTL

-----------------------------------------------------------------------------
(* What the edges are enough for: a block computes what it did.            *)

\* A placement of the nodes that respects the edges.
Fits(pos) == pos \in [Node -> Node] /\ \A e \in AllEdges : pos[e[1]] < pos[e[2]]

\* v is the last writer of x before n.
LastBefore(v, x, n) ==
  v \in WritersOf(x) /\ v < n /\ \A m \in WritersOf(x) : m < n => m <= v

\* Of the writers of x before n, pos has v last.
LeadsTo(pos, v, x, n) == \A m \in WritersOf(x) : m < n => pos[m] <= pos[v]

\* Among the nodes before k, a reader comes after the last writer before it, and
\* that one after the writers before it.
ReadsAfter(pos, k) ==
  \A n \in Node : n < k =>
    \A x \in Sources(Insn(n)) : \A v \in Node :
      LastBefore(v, x, n) => pos[v] < pos[n] /\ LeadsTo(pos, v, x, n)

MemoryInOrder(pos, k) ==
  \A m, n \in Node :
    m < n /\ n < k /\ InMemoryOrder(Insn(m)) /\ InMemoryOrder(Insn(n)) => pos[m] < pos[n]

\* The last writer of the block comes after the others.
LastWins(pos) ==
  \A x \in Regs : \A v \in Node : LastBefore(v, x, Size + 1) => LeadsTo(pos, v, x, Size + 1)

\* Among the nodes after k, a reader comes before the later writers.
ReadsBefore(pos, k) ==
  \A n \in Node : n > k =>
    \A x \in Insn(n).use : \A m \in WritersOf(x) : n < m => pos[n] < pos[m]

\* Each writer of x before n comes no later than one that is remembered.
Remembered(pos, x, n) ==
  \A m \in WritersOf(x) : m < n => \E v \in writers[x] : pos[m] <= pos[v]

\* The forward scan has ordered the nodes behind it; the backward scan has
\* ordered a reader and the writers after it, and remembers all of these.
OrderedInv ==
  /\ phase = "forward" =>
       \A pos : Fits(pos) =>
         /\ ReadsAfter(pos, next) /\ MemoryInOrder(pos, next)
         /\ \A x \in Regs : Remembered(pos, x, next)
         /\ \A m \in Node : m < next /\ InMemoryOrder(Insn(m)) =>
              prevMem \in Node /\ InMemoryOrder(Insn(prevMem)) /\ pos[m] <= pos[prevMem]
  /\ phase # "forward" =>
       \A pos : Fits(pos) =>
         /\ ReadsAfter(pos, Size + 1) /\ MemoryInOrder(pos, Size + 1) /\ LastWins(pos)
         /\ ~block.atEnd => ReadsBefore(pos, IF phase = "backward" THEN next ELSE 0)
  /\ phase = "backward" => \A x \in Regs : \A m \in WritersOf(x) : m > next => m \in writers[x]

\* A node finds the last writer before it in lastWriter.
LEMMA WrittenLemma ==
  ASSUME IInv, LatestInv, phase = "forward", NEW x \in Regs, NEW v \in Node,
         LastBefore(v, x, next)
  PROVE  lastWriter[x] = v /\ v # NONE
<1>1. Size \in Nat /\ Node = 1 .. Size /\ WritersOf(x) \subseteq Node /\ next \in Int
  BY SizeLemma DEF IInv, ScanInv, Node, WritersOf
<1>2. /\ v \in WritersOf(x) /\ v < next
      /\ \A m \in WritersOf(x) : m < next => m <= v
  BY DEF LastBefore
<1>3. /\ lastWriter[x] \in WritersOf(x) /\ lastWriter[x] < next
      /\ \A m \in WritersOf(x) : m < next => m <= lastWriter[x]
  BY <1>2 DEF LatestInv
<1> QED BY <1>1, <1>2, <1>3 DEF NONE

\* Once the edges of a writer's predecessors to it are there, it comes after
\* all that were remembered.
LEMMA OutputLemma ==
  ASSUME IInv, LatestInv, phase = "forward", NEW x \in Regs, NEW v \in Node,
         LastBefore(v, x, next),
         NEW pos \in [Node -> Node], Remembered(pos, x, next),
         \A e \in OutputTo(x) : pos[e[1]] < pos[e[2]]
  PROVE  LeadsTo(pos, v, x, next)
<1>1. lastWriter[x] = v
  BY WrittenLemma
<1>2. Size \in Nat /\ Node = 1 .. Size /\ WritersOf(x) \subseteq Node /\ writers[x] \subseteq Node
  BY SizeLemma DEF IInv, ScanInv, Node, WritersOf
<1>3. \A w \in writers[x] : pos[w] <= pos[v]
  <2> TAKE w \in writers[x]
  <2>1. pos[w] \in Int /\ pos[v] \in Int
    BY <1>2
  <2>2. CASE w = v
    BY <2>1, <2>2
  <2>3. CASE w # v
    <3>1. <<w, v>> \in OutputTo(x)
      BY <1>1, <2>3 DEF OutputTo
    <3>2. <<w, v>>[1] = w /\ <<w, v>>[2] = v
      OBVIOUS
    <3> QED BY <3>1, <3>2, <2>1
  <2> QED BY <2>2, <2>3
<1>4. ASSUME NEW m \in WritersOf(x), m < next PROVE pos[m] <= pos[v]
  <2>1. PICK w \in writers[x] : pos[m] <= pos[w]
    BY <1>4 DEF Remembered
  <2>2. pos[m] \in Int /\ pos[w] \in Int /\ pos[v] \in Int
    BY <1>2
  <2> QED BY <2>1, <2>2, <1>3
<1> QED BY <1>4 DEF LeadsTo

\* Nothing of this looks at the rest of the state.
LEMMA OrderedSame ==
  ASSUME block' = block
  PROVE  /\ Size' = Size /\ Node' = Node /\ \A n : Insn(n)' = Insn(n)
         /\ \A x : WritersOf(x)' = WritersOf(x)
         /\ \A v, x, n : LastBefore(v, x, n)' <=> LastBefore(v, x, n)
         /\ \A pos, v, x, n : LeadsTo(pos, v, x, n)' <=> LeadsTo(pos, v, x, n)
         /\ \A pos, k : ReadsAfter(pos, k)' <=> ReadsAfter(pos, k)
         /\ \A pos, k : MemoryInOrder(pos, k)' <=> MemoryInOrder(pos, k)
         /\ \A pos : LastWins(pos)' <=> LastWins(pos)
         /\ \A pos, k : ReadsBefore(pos, k)' <=> ReadsBefore(pos, k)
<1>1. Size' = Size /\ Node' = Node /\ \A n : Insn(n)' = Insn(n)
  BY DEF Size, Node, Insn
<1>2. \A x : WritersOf(x)' = WritersOf(x)
  BY <1>1 DEF WritersOf
<1>3. \A v, x, n : LastBefore(v, x, n)' <=> LastBefore(v, x, n)
  BY ONLY <1>2 DEF LastBefore
<1>4. \A pos, v, x, n : LeadsTo(pos, v, x, n)' <=> LeadsTo(pos, v, x, n)
  BY ONLY <1>2 DEF LeadsTo
<1>5. \A pos, k : ReadsAfter(pos, k)' <=> ReadsAfter(pos, k)
  BY ONLY <1>1, <1>3, <1>4 DEF ReadsAfter
<1>6. \A pos, k : MemoryInOrder(pos, k)' <=> MemoryInOrder(pos, k)
  BY ONLY <1>1 DEF MemoryInOrder
<1>7. \A pos : LastWins(pos)' <=> LastWins(pos)
  BY ONLY <1>1, <1>3, <1>4 DEF LastWins
<1>8. \A pos, k : ReadsBefore(pos, k)' <=> ReadsBefore(pos, k)
  BY ONLY <1>1, <1>2 DEF ReadsBefore
<1> QED BY <1>1, <1>2, <1>3, <1>4, <1>5, <1>6, <1>7, <1>8

LEMMA OrderedInit == Init => OrderedInv
<1> SUFFICES ASSUME Init PROVE OrderedInv
  OBVIOUS
<1>1. BlockInv /\ phase = "forward" /\ next = 1
  BY DEF Init, BlockInv
<1>2. Size \in Nat /\ Node = 1 .. Size
  BY <1>1, SizeLemma DEF Node
<1>3. \A n \in Node : ~ n < 1
  BY <1>2
<1>4. \A pos : ReadsAfter(pos, 1) /\ MemoryInOrder(pos, 1)
  BY ONLY <1>3 DEF ReadsAfter, MemoryInOrder
<1>5. \A pos, x : Remembered(pos, x, 1)
  BY ONLY <1>3 DEF Remembered, WritersOf
<1> QED BY <1>1, <1>3, <1>4, <1>5 DEF OrderedInv

\* The forward scan orders the node it is at.
LEMMA FormOrdered == IInv /\ LatestInv /\ OrderedInv /\ FormNode => OrderedInv'
<1> SUFFICES ASSUME IInv, LatestInv, OrderedInv, FormNode PROVE OrderedInv'
  OBVIOUS
<1> DEFINE i == Insn(next)
<1>1. /\ phase = "forward" /\ phase' = "forward" /\ next <= Size /\ next' = next + 1
      /\ edges' = [edges EXCEPT
           !.mem = IF InMemoryOrder(i) /\ prevMem # NONE THEN @ \cup {<<prevMem, next>>} ELSE @,
           !.ctrl = IF i.ctrl THEN @ \cup {<<n, next>> : n \in ctrlSources} ELSE @,
           !.true = @ \cup {<<lastWriter[x], next>> : x \in Written(i)},
           !.output = @ \cup UNION {OutputTo(x) : x \in Written(i)}]
      /\ prevMem' = IF InMemoryOrder(i) THEN next ELSE prevMem
      /\ writers' = [x \in Regs |-> (IF x \in Written(i) THEN {lastWriter[x]} ELSE writers[x])
                                  \cup (IF x \in i.def THEN {next} ELSE {})]
      /\ block' = block
  BY DEF FormNode
<1>2. /\ Size \in Nat /\ Node = 1 .. Size /\ next \in Node /\ next \in Int
      /\ writers \in [Regs -> SUBSET Node]
  BY <1>1, SizeLemma DEF IInv, ScanInv, Node
<1>3. EdgesForward
  BY DEF IInv
<1>4. /\ edges.true \subseteq edges'.true /\ edges.output \subseteq edges'.output
      /\ edges.anti \subseteq edges'.anti /\ edges.mem \subseteq edges'.mem
      /\ edges.ctrl \subseteq edges'.ctrl
      /\ {<<lastWriter[x], next>> : x \in Written(i)} \subseteq edges'.true
      /\ UNION {OutputTo(x) : x \in Written(i)} \subseteq edges'.output
      /\ InMemoryOrder(i) /\ prevMem # NONE => <<prevMem, next>> \in edges'.mem
  BY <1>1, <1>3 DEF EdgesForward
<1>5. AllEdges \subseteq AllEdges'
  BY ONLY <1>4 DEF AllEdges
<1>6. \A n : Insn(n)' = Insn(n)
  BY <1>1, OrderedSame
<1>7. i \in NodeType /\ Sources(i) \subseteq Regs
  BY <1>2, SizeLemma, InsnLemma DEF IInv
<1>8. \A x : WritersOf(x) \subseteq Node
  BY DEF WritersOf
<1>9. ASSUME NEW pos, Fits(pos)'
      PROVE  /\ ReadsAfter(pos, next + 1) /\ MemoryInOrder(pos, next + 1)
             /\ \A x \in Regs : Remembered(pos, x, next)'
             /\ \A m \in Node : m < next + 1 /\ InMemoryOrder(Insn(m)) =>
                  prevMem' \in Node /\ InMemoryOrder(Insn(prevMem')) /\ pos[m] <= pos[prevMem']
  <2>1. pos \in [Node -> Node] /\ \A e \in AllEdges' : pos[e[1]] < pos[e[2]]
    BY <1>9, <1>1, OrderedSame DEF Fits
  <2>2. Fits(pos)
    BY <2>1, <1>5 DEF Fits
  <2>3. /\ ReadsAfter(pos, next) /\ MemoryInOrder(pos, next)
        /\ \A x \in Regs : Remembered(pos, x, next)
        /\ \A m \in Node : m < next /\ InMemoryOrder(Insn(m)) =>
             prevMem \in Node /\ InMemoryOrder(Insn(prevMem)) /\ pos[m] <= pos[prevMem]
    BY <2>2, <1>1 DEF OrderedInv
  <2>4. \A n \in Node : n < next + 1 <=> n < next \/ n = next
    BY <1>2
  <2>5. \A m \in Node : pos[m] \in Int
    BY <2>1, <1>2
  <2>6. ASSUME NEW x \in Sources(i), NEW v \in Node, LastBefore(v, x, next)
        PROVE  x \in Written(i) /\ lastWriter[x] = v /\ pos[v] < pos[next] /\ LeadsTo(pos, v, x, next)
    <3>1. lastWriter[x] = v /\ v # NONE /\ v < next
      BY <2>6, <1>1, <1>7, WrittenLemma DEF LastBefore
    <3>2. x \in Written(i)
      BY <3>1 DEF Written
    <3>3. <<v, next>> \in AllEdges'
      BY <3>1, <3>2, <1>4 DEF AllEdges
    <3>4. \A e \in OutputTo(x) : e \in AllEdges'
      BY <3>2, <1>4 DEF AllEdges
    <3>5. pos[<<v, next>>[1]] < pos[<<v, next>>[2]]
      BY ONLY <3>3, <2>1
    <3>6. <<v, next>>[1] = v /\ <<v, next>>[2] = next
      OBVIOUS
    <3>7. LeadsTo(pos, v, x, next)
      BY <3>4, <2>1, <2>3, <2>6, <1>1, <1>7, OutputLemma
    <3> QED BY <3>1, <3>2, <3>5, <3>6, <3>7
  <2>7. ReadsAfter(pos, next + 1)
    BY <2>3, <2>4, <2>6 DEF ReadsAfter
  <2>8. \A m \in Node : m < next /\ InMemoryOrder(Insn(m)) /\ InMemoryOrder(i) =>
          pos[m] < pos[next]
    <3> TAKE m \in Node
    <3> HAVE m < next /\ InMemoryOrder(Insn(m)) /\ InMemoryOrder(i)
    <3>1. prevMem \in Node /\ pos[m] <= pos[prevMem]
      BY <2>3
    <3>2. <<prevMem, next>> \in AllEdges'
      BY <3>1, <1>2, <1>4 DEF AllEdges, NONE
    <3>3. pos[<<prevMem, next>>[1]] < pos[<<prevMem, next>>[2]]
      BY ONLY <3>2, <2>1
    <3>4. <<prevMem, next>>[1] = prevMem /\ <<prevMem, next>>[2] = next
      OBVIOUS
    <3> QED BY <3>1, <3>3, <3>4, <2>5, <1>2
  <2>9. MemoryInOrder(pos, next + 1)
    <3> SUFFICES ASSUME NEW m \in Node, NEW n \in Node, m < n, n < next + 1,
                        InMemoryOrder(Insn(m)), InMemoryOrder(Insn(n))
                 PROVE  pos[m] < pos[n]
      BY DEF MemoryInOrder
    <3>1. CASE n < next
      BY <3>1, <2>3 DEF MemoryInOrder
    <3>2. CASE n = next
      BY <3>2, <2>8
    <3> QED BY <3>1, <3>2, <2>4
  <2>10. ASSUME NEW x \in Regs, NEW m \in WritersOf(x), m < next'
         PROVE  \E v \in writers'[x] : pos[m] <= pos[v]
    <3>1. m \in Node /\ (m < next \/ m = next) /\ pos[m] <= pos[m]
      BY <2>4, <2>5, <2>10, <1>1, <1>8
    <3>2. CASE m = next
      <4>1. m \in writers'[x]
        BY <3>2, <1>1 DEF WritersOf
      <4> QED BY <4>1, <3>1
    <3>3. CASE m < next /\ x \notin Written(i)
      <4>1. PICK v \in writers[x] : pos[m] <= pos[v]
        BY <3>3, <2>3 DEF Remembered
      <4>2. v \in writers'[x]
        BY <4>1, <3>3, <1>1
      <4> QED BY <4>1, <4>2
    <3>4. CASE m < next /\ x \in Written(i)
      <4>1. lastWriter[x] \in writers'[x]
        BY <3>4, <1>1
      <4>2. x \in Sources(i) /\ lastWriter[x] \in Node /\ LastBefore(lastWriter[x], x, next)
        BY <3>1, <3>4, <1>1, <1>8 DEF LatestInv, LastBefore, Written
      <4>3. LeadsTo(pos, lastWriter[x], x, next)
        BY <4>2, <2>6
      <4> QED BY <4>1, <4>3, <3>4 DEF LeadsTo
    <3> QED BY <3>1, <3>2, <3>3, <3>4
  <2>11. \A x \in Regs : Remembered(pos, x, next)'
    BY <2>10, <1>1, OrderedSame DEF Remembered
  <2>12. ASSUME NEW m \in Node, m < next + 1, InMemoryOrder(Insn(m))
         PROVE  prevMem' \in Node /\ InMemoryOrder(Insn(prevMem')) /\ pos[m] <= pos[prevMem']
    <3>1. CASE InMemoryOrder(i)
      <4>1. prevMem' = next
        BY <3>1, <1>1
      <4>2. pos[m] <= pos[next]
        BY <3>1, <2>4, <2>5, <2>8, <2>12, <1>2
      <4> QED BY <3>1, <4>1, <4>2, <1>2
    <3>2. CASE ~InMemoryOrder(i)
      <4>1. prevMem' = prevMem /\ m < next
        BY <3>2, <2>4, <2>12, <1>1
      <4> QED BY <4>1, <2>3, <2>12
    <3> QED BY <3>1, <3>2
  <2> QED BY <2>7, <2>9, <2>11, <2>12
<1>10. \A pos : /\ ReadsAfter(pos, next + 1) <=> ReadsAfter(pos, next)'
                /\ MemoryInOrder(pos, next + 1) <=> MemoryInOrder(pos, next)'
  BY <1>1, OrderedSame
<1>11. (phase = "forward")' /\ Node' = Node
  BY <1>1, OrderedSame
<1>12. \A m : InMemoryOrder(Insn(m))' <=> InMemoryOrder(Insn(m))
  BY ONLY <1>6 DEF InMemoryOrder
<1>13. InMemoryOrder(Insn(prevMem))' <=> InMemoryOrder(Insn(prevMem'))
  BY ONLY <1>6 DEF InMemoryOrder
<1>14. ASSUME NEW pos, Fits(pos)'
       PROVE  (/\ ReadsAfter(pos, next) /\ MemoryInOrder(pos, next)
               /\ \A x \in Regs : Remembered(pos, x, next)
               /\ \A m \in Node : m < next /\ InMemoryOrder(Insn(m)) =>
                    prevMem \in Node /\ InMemoryOrder(Insn(prevMem)) /\ pos[m] <= pos[prevMem])'
  BY <1>9, <1>10, <1>11, <1>12, <1>13, <1>14, <1>1
<1>15. phase' # "backward"
  BY <1>1
<1> QED BY <1>11, <1>14, <1>15 DEF OrderedInv

\* After the forward scan the last writer of each register leads to none.
LEMMA FinishForwardOrdered == IInv /\ LatestInv /\ OrderedInv /\ FinishForward => OrderedInv'
<1> SUFFICES ASSUME IInv, LatestInv, OrderedInv, FinishForward PROVE OrderedInv'
  OBVIOUS
<1>1. /\ phase = "forward" /\ phase' # "forward" /\ next > Size /\ next' = Size
      /\ edges' = [edges EXCEPT !.output = @ \cup UNION {OutputTo(x) : x \in Regs}]
      /\ phase' = "backward" <=> ~block.atEnd
      /\ block' = block
  BY DEF FinishForward
<1>2. Size \in Nat /\ Node = 1 .. Size /\ next = Size + 1
  BY <1>1, SizeLemma DEF IInv, ScanInv, Node
<1>3. EdgesForward
  BY DEF IInv
<1>4. /\ edges.true = edges'.true /\ edges.output \subseteq edges'.output
      /\ edges.anti = edges'.anti /\ edges.mem = edges'.mem /\ edges.ctrl = edges'.ctrl
      /\ UNION {OutputTo(x) : x \in Regs} \subseteq edges'.output
  BY <1>1, <1>3 DEF EdgesForward
<1>5. AllEdges \subseteq AllEdges' /\ \A x \in Regs : OutputTo(x) \subseteq AllEdges'
  BY ONLY <1>4 DEF AllEdges
<1>6. ASSUME NEW n \in Node PROVE ~ n > Size
  BY <1>2
<1>7. \A x : WritersOf(x) \subseteq Node
  BY DEF WritersOf
<1>8. ASSUME NEW pos, Fits(pos)'
      PROVE  /\ ReadsAfter(pos, Size + 1) /\ MemoryInOrder(pos, Size + 1) /\ LastWins(pos)
             /\ ReadsBefore(pos, Size)
  <2>1. pos \in [Node -> Node] /\ \A e \in AllEdges' : pos[e[1]] < pos[e[2]]
    BY <1>8, <1>1, OrderedSame DEF Fits
  <2>2. Fits(pos)
    BY <2>1, <1>5 DEF Fits
  <2>3. /\ ReadsAfter(pos, Size + 1) /\ MemoryInOrder(pos, Size + 1)
        /\ \A x \in Regs : Remembered(pos, x, next)
    BY <2>2, <1>1, <1>2 DEF OrderedInv
  <2>4. LastWins(pos)
    <3> SUFFICES ASSUME NEW x \in Regs, NEW v \in Node, LastBefore(v, x, Size + 1)
                 PROVE  LeadsTo(pos, v, x, Size + 1)
      BY DEF LastWins
    <3>1. \A e \in OutputTo(x) : pos[e[1]] < pos[e[2]]
      BY <2>1, <1>5
    <3> QED BY <3>1, <2>1, <2>3, <1>1, <1>2, OutputLemma
  <2>5. ReadsBefore(pos, Size)
    BY <1>6 DEF ReadsBefore
  <2> QED BY <2>3, <2>4, <2>5
<1>9. Size' = Size /\ \A x : WritersOf(x)' = WritersOf(x)
  BY <1>1, OrderedSame
<1>10. ASSUME NEW pos, Fits(pos)'
       PROVE  (/\ ReadsAfter(pos, Size + 1) /\ MemoryInOrder(pos, Size + 1) /\ LastWins(pos)
               /\ ~block.atEnd => ReadsBefore(pos, IF phase = "backward" THEN next ELSE 0))'
  <2>1. (ReadsAfter(pos, Size + 1) /\ MemoryInOrder(pos, Size + 1) /\ LastWins(pos))'
    BY <1>8, <1>9, <1>10, <1>1, OrderedSame
  <2>2. CASE ~block.atEnd
    <3>1. ReadsBefore(pos, Size)'
      BY <2>2, <1>8, <1>9, <1>10, <1>1, OrderedSame
    <3>2. Size = (IF phase = "backward" THEN next ELSE 0)'
      BY <2>2, <1>1
    <3>3. ReadsBefore(pos, IF phase = "backward" THEN next ELSE 0)'
      BY <3>1, <3>2, <1>1, OrderedSame
    <3> QED BY <3>3, <2>1
  <2>3. CASE block.atEnd
    BY <2>1, <2>3, <1>1
  <2> QED BY <2>2, <2>3
<1>11. \A x : \A m \in WritersOf(x)' : ~ m > next'
  BY <1>1, <1>6, <1>7, <1>9
<1> QED BY <1>1, <1>10, <1>11 DEF OrderedInv

\* The backward scan orders the node it is at and the writers after it.
LEMMA AntiOrdered == IInv /\ OrderedInv /\ AntiNode => OrderedInv'
<1> SUFFICES ASSUME IInv, OrderedInv, AntiNode PROVE OrderedInv'
  OBVIOUS
<1> DEFINE i == Insn(next)
<1>1. /\ phase = "backward" /\ phase' # "forward" /\ next' = next - 1
      /\ edges' = [edges EXCEPT !.anti = @ \cup AntiEdges(i)]
      /\ writers' = [x \in Regs |-> writers[x] \cup (IF x \in i.def THEN {next} ELSE {})]
      /\ phase' = IF next = 1 THEN "formed" ELSE "backward"
      /\ block' = block
  BY DEF AntiNode
<1>2. Size \in Nat /\ Node = 1 .. Size /\ next \in Node
  BY <1>1, SizeLemma DEF IInv, ScanInv, Node
<1>3. EdgesForward
  BY DEF IInv
<1>4. /\ edges.true = edges'.true /\ edges.output = edges'.output
      /\ edges.anti \subseteq edges'.anti /\ edges.mem = edges'.mem /\ edges.ctrl = edges'.ctrl
      /\ AntiEdges(i) \subseteq edges'.anti
  BY <1>1, <1>3 DEF EdgesForward
<1>5. AllEdges \subseteq AllEdges' /\ AntiEdges(i) \subseteq AllEdges'
  BY ONLY <1>4 DEF AllEdges
<1>6. i \in NodeType /\ i.use \subseteq Regs
  BY <1>2, SizeLemma DEF IInv, NodeType
<1>7. \A x : WritersOf(x) \subseteq Node
  BY DEF WritersOf
<1>8. \A x \in Regs : \A m \in WritersOf(x) : m > next => m \in writers[x]
  BY <1>1 DEF OrderedInv
<1>9. ASSUME NEW pos, Fits(pos)'
      PROVE  /\ ReadsAfter(pos, Size + 1) /\ MemoryInOrder(pos, Size + 1) /\ LastWins(pos)
             /\ ~block.atEnd => ReadsBefore(pos, next - 1)
  <2>1. pos \in [Node -> Node] /\ \A e \in AllEdges' : pos[e[1]] < pos[e[2]]
    BY <1>9, <1>1, OrderedSame DEF Fits
  <2>2. Fits(pos)
    BY <2>1, <1>5 DEF Fits
  <2>3. /\ ReadsAfter(pos, Size + 1) /\ MemoryInOrder(pos, Size + 1) /\ LastWins(pos)
        /\ ~block.atEnd => ReadsBefore(pos, next)
    BY <2>2, <1>1 DEF OrderedInv
  <2>4. ASSUME NEW x \in i.use, NEW m \in WritersOf(x), next < m
        PROVE  pos[next] < pos[m]
    <3>1. m \in writers[x]
      BY <2>4, <1>2, <1>6, <1>7, <1>8
    <3>2. <<next, m>> \in AllEdges'
      BY <3>1, <1>5 DEF AntiEdges
    <3>3. pos[<<next, m>>[1]] < pos[<<next, m>>[2]]
      BY ONLY <3>2, <2>1
    <3>4. <<next, m>>[1] = next /\ <<next, m>>[2] = m
      OBVIOUS
    <3> QED BY <3>3, <3>4
  <2>5. ASSUME ~block.atEnd PROVE ReadsBefore(pos, next - 1)
    <3> SUFFICES ASSUME NEW n \in Node, n > next - 1, NEW x \in Insn(n).use,
                        NEW m \in WritersOf(x), n < m
                 PROVE  pos[n] < pos[m]
      BY DEF ReadsBefore
    <3>1. CASE n = next
      BY <3>1, <2>4
    <3>2. CASE n # next
      <4>1. n > next
        BY <3>2, <1>2
      <4> QED BY <4>1, <2>3, <2>5 DEF ReadsBefore
    <3> QED BY <3>1, <3>2
  <2> QED BY <2>3, <2>5
<1>10. Size' = Size /\ \A x : WritersOf(x)' = WritersOf(x)
  BY <1>1, OrderedSame
<1>11. (IF phase = "backward" THEN next ELSE 0)' = next - 1
  BY <1>1, <1>2
<1>12. ASSUME NEW pos, Fits(pos)'
       PROVE  (/\ ReadsAfter(pos, Size + 1) /\ MemoryInOrder(pos, Size + 1) /\ LastWins(pos)
               /\ ~block.atEnd => ReadsBefore(pos, IF phase = "backward" THEN next ELSE 0))'
  BY <1>9, <1>10, <1>11, <1>12, <1>1, OrderedSame
<1>13. ASSUME NEW x \in Regs, NEW m \in WritersOf(x), m > next - 1 PROVE m \in writers'[x]
  <2>1. writers'[x] = writers[x] \cup (IF x \in i.def THEN {next} ELSE {})
    BY <1>1
  <2>2. CASE m = next
    BY <2>1, <2>2 DEF WritersOf
  <2>3. CASE m # next
    <3>1. m > next
      BY <2>3, <1>2, <1>7, <1>13
    <3> QED BY <3>1, <2>1, <1>8
  <2> QED BY <2>2, <2>3
<1> QED BY <1>1, <1>10, <1>12, <1>13 DEF OrderedInv

\* From then on the edges stay.
LEMMA LaterOrdered ==
  ASSUME OrderedInv, UNCHANGED <<block, edges>>,
         phase \notin {"forward", "backward"}, phase' \notin {"forward", "backward"}
  PROVE  OrderedInv'
<1>1. \A pos : Fits(pos)' <=> Fits(pos)
  BY OrderedSame DEF Fits, AllEdges
<1>2. Size' = Size
  BY OrderedSame
<1>3. ASSUME NEW pos, Fits(pos)'
      PROVE  (/\ ReadsAfter(pos, Size + 1) /\ MemoryInOrder(pos, Size + 1) /\ LastWins(pos)
              /\ ~block.atEnd => ReadsBefore(pos, IF phase = "backward" THEN next ELSE 0))'
  <2>1. /\ ReadsAfter(pos, Size + 1) /\ MemoryInOrder(pos, Size + 1) /\ LastWins(pos)
        /\ ~block.atEnd => ReadsBefore(pos, 0)
    BY <1>1, <1>3 DEF OrderedInv
  <2> QED BY <2>1, <1>2, OrderedSame
<1> QED BY <1>3 DEF OrderedInv

LEMMA StutterOrdered == OrderedInv /\ UNCHANGED vars => OrderedInv'
<1> SUFFICES ASSUME OrderedInv, UNCHANGED vars PROVE OrderedInv'
  OBVIOUS
<1>1. UNCHANGED <<block, phase, next, edges, writers, prevMem>>
  BY DEF vars, scanVars
<1>2. \A pos : Fits(pos)' <=> Fits(pos)
  BY <1>1, OrderedSame DEF Fits, AllEdges
<1>3. \A pos, x, n : Remembered(pos, x, n)' <=> Remembered(pos, x, n)
  BY <1>1, OrderedSame DEF Remembered
<1>4. \A m : InMemoryOrder(Insn(m))' <=> InMemoryOrder(Insn(m))
  BY <1>1, OrderedSame DEF InMemoryOrder
<1>5. \A pos : /\ ReadsAfter(pos, next)' <=> ReadsAfter(pos, next)
               /\ MemoryInOrder(pos, next)' <=> MemoryInOrder(pos, next)
               /\ ReadsAfter(pos, Size + 1)' <=> ReadsAfter(pos, Size + 1)
               /\ MemoryInOrder(pos, Size + 1)' <=> MemoryInOrder(pos, Size + 1)
               /\ LastWins(pos)' <=> LastWins(pos)
               /\ ReadsBefore(pos, IF phase = "backward" THEN next ELSE 0)'
                    <=> ReadsBefore(pos, IF phase = "backward" THEN next ELSE 0)
  BY <1>1, OrderedSame
<1>6. InMemoryOrder(Insn(prevMem))' <=> InMemoryOrder(Insn(prevMem))
  BY <1>1, <1>4
<1>7. Node' = Node /\ \A x : WritersOf(x)' = WritersOf(x)
  BY <1>1, OrderedSame
<1>8. CASE phase = "forward"
  BY <1>1, <1>2, <1>3, <1>4, <1>5, <1>6, <1>7, <1>8 DEF OrderedInv
<1>9. CASE phase = "backward"
  BY <1>1, <1>2, <1>5, <1>7, <1>9 DEF OrderedInv
<1>10. CASE phase \notin {"forward", "backward"}
  BY <1>1, <1>10, LaterOrdered
<1> QED BY <1>8, <1>9, <1>10

LEMMA OrderedInvariance == Spec => []OrderedInv
<1>1. StartHeights \/ Postpone \/ Measure \/ StartSchedule \/ ScheduleNext \/ Finish =>
        /\ UNCHANGED <<block, edges>>
        /\ phase \notin {"forward", "backward"} /\ phase' \notin {"forward", "backward"}
  BY DEF StartHeights, Postpone, Measure, StartSchedule, ScheduleNext, Finish, scanVars
<1>2. IInv /\ PriorityInv /\ OrderedInv /\ [Next]_vars => OrderedInv'
  BY <1>1, FormOrdered, FinishForwardOrdered, AntiOrdered, LaterOrdered, StutterOrdered
     DEF Next, PriorityInv
<1> QED BY OrderedInit, Invariance, PriorityInvariance, <1>2, PTL DEF Spec

-----------------------------------------------------------------------------
(* Executing a block.                                                      *)

Start == [regs |-> [x \in Regs |-> x], trace |-> <<>>]

\* f has the states from executing the nodes one by one in the order o.
IsRun(f, k, o) ==
  f = [n \in 0 .. k |-> IF n = 0 THEN Start ELSE Execute(block.nodes, f[n - 1], o[n])]

\* The recursion of EffectOf has a solution.
LEMMA RunExists ==
  ASSUME NEW o, NEW N \in Nat
  PROVE  \E f : IsRun(f, N, o)
<1> DEFINE D == {k \in Nat : ~ \E f : IsRun(f, k, o)}
<1> SUFFICES ASSUME D # {} PROVE FALSE
  OBVIOUS
<1>1. PICK k \in D : \A j \in D : k <= j
  <2>1. D \subseteq Nat /\ D # {}
    OBVIOUS
  <2> HIDE DEF D
  <2> QED BY <2>1, LeastElement
<1>2. CASE k = 0
  <2>1. IsRun([n \in 0 .. 0 |-> Start], 0, o)
    BY DEF IsRun
  <2> QED BY <2>1, <1>2
<1>3. CASE k # 0
  <2>1. k - 1 \in Nat /\ k - 1 \notin D
    BY <1>1, <1>3
  <2>2. PICK f : IsRun(f, k - 1, o)
    BY <2>1
  <2> DEFINE last == Execute(block.nodes, f[k - 1], o[k])
             g == [n \in 0 .. k |-> IF n = k THEN last ELSE f[n]]
  <2>3. \A n \in 0 .. k - 1 :
          f[n] = IF n = 0 THEN Start ELSE Execute(block.nodes, f[n - 1], o[n])
    BY ONLY <2>1, <2>2 DEF IsRun
  <2>4. ASSUME NEW n \in 0 .. k
        PROVE  g[n] = IF n = 0 THEN Start ELSE Execute(block.nodes, g[n - 1], o[n])
    <3>1. CASE n = k
      <4>1. k - 1 \in 0 .. k /\ g[k - 1] = f[k - 1] /\ g[k] = last
        BY <1>3, <2>1
      <4> QED BY <4>1, <3>1, <1>3
    <3>2. CASE n # k /\ n # 0
      <4>1. n \in 0 .. k - 1 /\ n - 1 \in 0 .. k /\ n - 1 # k /\ g[n] = f[n]
        BY <3>2, <2>1
      <4>2. g[n - 1] = f[n - 1]
        BY <4>1
      <4> QED BY <4>1, <4>2, <2>3, <3>2
    <3>3. CASE n # k /\ n = 0
      <4>1. n \in 0 .. k - 1 /\ g[n] = f[n]
        BY <3>3, <2>1
      <4> QED BY <4>1, <2>3, <3>3
    <3> QED BY <3>1, <3>2, <3>3
  <2>5. IsRun(g, k, o)
    <3>1. g = [n \in 0 .. k |-> g[n]]
      OBVIOUS
    <3> HIDE DEF g
    <3> QED BY <3>1, <2>4 DEF IsRun
  <2> QED BY <2>5, <1>1
<1> QED BY <1>2, <1>3

\* EffectOf is where such a run ends.
LEMMA EffectLemma ==
  ASSUME BlockInv, NEW o \in [Node -> Node]
  PROVE  \E f : IsRun(f, Size, o) /\ EffectOf(block.nodes, o, Regs) = f[Size]
<1> DEFINE f == CHOOSE g : IsRun(g, Size, o)
<1>1. Size \in Nat /\ Node = 1 .. Size
  BY SizeLemma DEF Node
<1>2. Len(o) = Size
  BY <1>1
<1>3. IsRun(f, Size, o)
  BY <1>1, RunExists
<1>4. EffectOf(block.nodes, o, Regs) = f[Size]
  BY <1>2 DEF EffectOf, IsRun, Start
<1> HIDE DEF f
<1> QED BY <1>3, <1>4

\* What the k-th node of a run does.
LEMMA RunStep ==
  ASSUME BlockInv, NEW f, NEW o \in [Node -> Node], IsRun(f, Size, o)
  PROVE  /\ f[0] = Start
         /\ \A k \in 0 .. Size : DOMAIN f[k].regs = Regs
         /\ \A k \in Node :
              /\ \A x \in Regs :
                   f[k].regs[x] = IF x \in Insn(o[k]).def
                                    THEN ValueOf(block.nodes, f[k - 1].regs, o[k], x)
                                    ELSE f[k - 1].regs[x]
              /\ f[k].trace = IF Insn(o[k]).mem \/ Insn(o[k]).ctrl
                                THEN Append(f[k - 1].trace, Access(block.nodes, f[k - 1].regs, o[k]))
                                ELSE f[k - 1].trace
<1>1. Size \in Nat /\ Node = 1 .. Size
  BY SizeLemma DEF Node
<1>2. \A k \in 0 .. Size : f[k] = IF k = 0 THEN Start ELSE Execute(block.nodes, f[k - 1], o[k])
  BY ONLY <1>1, IsRun(f, Size, o) DEF IsRun
<1>3. f[0] = Start
  BY <1>1, <1>2
<1>4. \A k \in Node : f[k] = Execute(block.nodes, f[k - 1], o[k])
  BY <1>1, <1>2
<1>5. ASSUME NEW k \in 0 .. Size PROVE DOMAIN f[k].regs = Regs
  <2> DEFINE D == {j \in 0 .. Size : DOMAIN f[j].regs # Regs}
  <2> SUFFICES ASSUME D # {} PROVE FALSE
    OBVIOUS
  <2>1. PICK j \in D : \A i \in D : j <= i
    <3>1. D \subseteq Nat /\ D # {}
      OBVIOUS
    <3> HIDE DEF D
    <3> QED BY <3>1, LeastElement
  <2>2. j # 0
    BY <2>1, <1>3 DEF Start
  <2>3. j - 1 \in 0 .. Size /\ j - 1 \notin D /\ j \in Node
    BY <2>1, <2>2, <1>1
  <2>4. DOMAIN f[j - 1].regs = Regs
    BY <2>3
  <2>5. f[j] = Execute(block.nodes, f[j - 1], o[j])
    BY <2>3, <1>4
  <2>6. DOMAIN f[j].regs = DOMAIN f[j - 1].regs
    BY ONLY <2>5 DEF Execute
  <2> QED BY <2>1, <2>4, <2>6
<1>6. ASSUME NEW k \in Node
      PROVE  /\ \A x \in Regs :
                  f[k].regs[x] = IF x \in Insn(o[k]).def
                                   THEN ValueOf(block.nodes, f[k - 1].regs, o[k], x)
                                   ELSE f[k - 1].regs[x]
             /\ f[k].trace = IF Insn(o[k]).mem \/ Insn(o[k]).ctrl
                               THEN Append(f[k - 1].trace, Access(block.nodes, f[k - 1].regs, o[k]))
                               ELSE f[k - 1].trace
  <2>1. k - 1 \in 0 .. Size
    BY <1>1
  <2>2. DOMAIN f[k - 1].regs = Regs
    BY <2>1, <1>5
  <2>3. f[k] = Execute(block.nodes, f[k - 1], o[k])
    BY <1>4
  <2> QED BY ONLY <2>2, <2>3 DEF Execute, Insn
<1> QED BY <1>3, <1>5, <1>6

\* The end of a run is its registers and its trace.
LEMMA RunShape ==
  ASSUME BlockInv, NEW f, NEW o \in [Node -> Node], IsRun(f, Size, o)
  PROVE  f[Size] = [regs |-> [x \in Regs |-> f[Size].regs[x]], trace |-> f[Size].trace]
<1>1. Size \in Nat /\ Node = 1 .. Size
  BY SizeLemma DEF Node
<1>2. \A k \in 0 .. Size : f[k] = IF k = 0 THEN Start ELSE Execute(block.nodes, f[k - 1], o[k])
  BY ONLY <1>1, IsRun(f, Size, o) DEF IsRun
<1>3. CASE Size = 0
  <2>1. f[Size] = Start
    BY <1>1, <1>2, <1>3
  <2> QED BY ONLY <2>1 DEF Start
<1>4. CASE Size # 0
  <2>1. f[Size] = Execute(block.nodes, f[Size - 1], o[Size])
    BY <1>1, <1>2, <1>4
  <2>2. DOMAIN f[Size - 1].regs = Regs
    <3>1. Size - 1 \in 0 .. Size
      BY <1>1, <1>4
    <3> QED BY <3>1, RunStep
  <2> QED BY ONLY <2>1, <2>2 DEF Execute
<1> QED BY <1>3, <1>4

\* Between two places without a write a register keeps its value.
LEMMA KeepsValue ==
  ASSUME BlockInv, NEW f, NEW o \in [Node -> Node], IsRun(f, Size, o), NEW x \in Regs,
         NEW j \in 0 .. Size, NEW k \in 0 .. Size, j <= k,
         \A i \in j + 1 .. k : x \notin Insn(o[i]).def
  PROVE  f[k].regs[x] = f[j].regs[x]
<1> DEFINE D == {i \in j .. k : f[i].regs[x] # f[j].regs[x]}
<1> SUFFICES ASSUME D # {} PROVE FALSE
  OBVIOUS
<1>1. PICK i \in D : \A l \in D : i <= l
  <2>1. D \subseteq Nat /\ D # {}
    OBVIOUS
  <2> HIDE DEF D
  <2> QED BY <2>1, LeastElement
<1>2. Size \in Nat /\ Node = 1 .. Size
  BY SizeLemma DEF Node
<1>3. i # j
  BY <1>1
<1>4. i \in Node /\ i - 1 \in j .. k /\ i \in j + 1 .. k /\ i - 1 \notin D
  <2>1. i \in j .. k
    BY <1>1
  <2> HIDE DEF D
  <2> QED BY <2>1, <1>1, <1>2, <1>3
<1>5. f[i - 1].regs[x] = f[j].regs[x]
  BY <1>4
<1>6. x \notin Insn(o[i]).def
  BY <1>4
<1>7. f[i].regs[x] = f[i - 1].regs[x]
  BY <1>4, <1>6, RunStep
<1> QED BY <1>1, <1>5, <1>7

-----------------------------------------------------------------------------
(* The block before and after its nodes were moved.                        *)

\* What the proof takes from the edges: a reader comes after the last writer
\* before it and before the later writers, the last writer of the block after
\* the others, and the accesses to memory stay in order.
Kept ==
  /\ \A n \in Node : \A x \in Sources(Insn(n)) : \A v \in Node :
       LastBefore(v, x, n) =>
         Before(v, n) /\ \A m \in WritersOf(x) : m < v => Before(m, v)
  /\ \A n \in Node : \A x \in Insn(n).use : \A m \in WritersOf(x) : n < m => Before(n, m)
  /\ \A x \in Regs : \A v \in Node :
       LastBefore(v, x, Size + 1) => \A m \in WritersOf(x) : m < v => Before(m, v)
  /\ \A m, n \in Node :
       m < n /\ InMemoryOrder(Insn(m)) /\ InMemoryOrder(Insn(n)) => Before(m, n)

LEMMA KeptLemma ==
  ASSUME IInv, OrderedInv, phase \in {"schedule", "done"}, ~block.atEnd
  PROVE  Kept
<1> DEFINE pos == [n \in Node |-> PlaceOf(n)]
<1>1. Size \in Nat /\ Node = 1 .. Size
  BY SizeLemma DEF IInv, Node
<1>2. /\ \A n \in Node : PlaceOf(n) \in Node /\ order[PlaceOf(n)] = n
      /\ \A x : WritersOf(x) \subseteq Node
  BY PlaceLemma DEF IInv, WritersOf
<1>3. pos \in [Node -> Node] /\ \A n \in Node : pos[n] = PlaceOf(n) /\ pos[n] \in Int
  BY <1>1, <1>2
<1>4. Fits(pos)
  <2>1. AllEdges \subseteq Node \X Node
    BY DEF IInv, EdgesForward, AllEdges, Edge
  <2>2. \A e \in AllEdges : e[1] \in Node /\ e[2] \in Node /\ PlaceOf(e[1]) < PlaceOf(e[2])
    BY <2>1 DEF IInv, EdgesRespected, Before
  <2> HIDE DEF pos
  <2> QED BY <2>2, <1>3 DEF Fits
<1> HIDE DEF pos
<1>5. /\ ReadsAfter(pos, Size + 1) /\ MemoryInOrder(pos, Size + 1) /\ LastWins(pos)
      /\ ReadsBefore(pos, 0)
  BY <1>4 DEF OrderedInv
<1>6. \A n \in Node : n < Size + 1 /\ n > 0
  BY <1>1
<1>7. \A m, n \in Node : pos[m] < pos[n] <=> Before(m, n)
  BY <1>3 DEF Before
<1>8. \A m, n \in Node : m # n /\ pos[m] <= pos[n] => Before(m, n)
  BY <1>2, <1>3 DEF Before
<1>9. \A n \in Node : Sources(Insn(n)) \subseteq Regs
  BY InsnLemma
<1>10. ASSUME NEW x, NEW v \in Node, NEW n, v < n, n \in Int, LeadsTo(pos, v, x, n)
       PROVE  \A m \in WritersOf(x) : m < v => Before(m, v)
  <2> TAKE m \in WritersOf(x)
  <2> HAVE m < v
  <2>1. m \in Node /\ m < n /\ m # v
    <3>1. m \in Node
      BY <1>2
    <3>2. m \in Int /\ v \in Int /\ n \in Int
      BY ONLY <1>1, <1>10, <3>1, v \in Node
    <3> QED BY ONLY <1>10, <3>1, <3>2, m < v
  <2>2. pos[m] <= pos[v]
    BY <2>1, <1>10 DEF LeadsTo
  <2> QED BY ONLY <2>1, <2>2, <1>8, v \in Node
<1>11. ASSUME NEW n \in Node, NEW x \in Sources(Insn(n)), NEW v \in Node, LastBefore(v, x, n)
       PROVE  Before(v, n) /\ \A m \in WritersOf(x) : m < v => Before(m, v)
  <2>1. pos[v] < pos[n] /\ LeadsTo(pos, v, x, n)
    BY <1>5, <1>6, <1>11 DEF ReadsAfter
  <2> QED BY <2>1, <1>1, <1>7, <1>10, <1>11 DEF LastBefore
<1>12. \A n \in Node : \A x \in Insn(n).use : \A m \in WritersOf(x) : n < m => Before(n, m)
  BY <1>2, <1>5, <1>6, <1>7 DEF ReadsBefore
<1>13. ASSUME NEW x \in Regs, NEW v \in Node, LastBefore(v, x, Size + 1)
       PROVE  \A m \in WritersOf(x) : m < v => Before(m, v)
  BY <1>1, <1>5, <1>10, <1>13 DEF LastWins, LastBefore
<1>14. \A m, n \in Node :
         m < n /\ InMemoryOrder(Insn(m)) /\ InMemoryOrder(Insn(n)) => Before(m, n)
  BY <1>5, <1>6, <1>7 DEF MemoryInOrder
<1> QED BY <1>11, <1>12, <1>13, <1>14 DEF Kept

\* f and g run the nodes as they are now and as they were.
Runs(f, g) == IsRun(f, Size, order) /\ IsRun(g, Size, [n \in Node |-> n])

\* The write of x by n is after those before it and before those after it.
Firm(x, n) ==
  \A m \in WritersOf(x) : (m < n => Before(m, n)) /\ (n < m => Before(n, m))

\* n leaves the same value in x.
SameValue(f, g, x, n) ==
  ValueOf(block.nodes, f[PlaceOf(n) - 1].regs, n, x) = ValueOf(block.nodes, g[n - 1].regs, n, x)

\* At place p, where n of the old text or its end is now, x has what it had.
LEMMA FindsLemma ==
  ASSUME IInv, NEW f, NEW g, Runs(f, g),
         NEW x \in Regs, NEW n \in 1 .. Size + 1, NEW p \in 1 .. Size + 1,
         n \in Node => PlaceOf(n) = p,
         \A m \in WritersOf(x) : n < m => p < PlaceOf(m),
         \A v \in Node : LastBefore(v, x, n) =>
           PlaceOf(v) < p /\ \A m \in WritersOf(x) : m < v => Before(m, v),
         \A v \in WritersOf(x) : v < n /\ Firm(x, v) => SameValue(f, g, x, v)
  PROVE  f[p - 1].regs[x] = g[n - 1].regs[x]
<1> DEFINE id == [k \in Node |-> k]
<1>1. /\ Size \in Nat /\ Node = 1 .. Size /\ BlockInv /\ order \in [Node -> Node]
      /\ \A k \in Node : PlaceOf(k) \in Node /\ order[PlaceOf(k)] = k
      /\ \A k \in Node : PlaceOf(order[k]) = k
  BY SizeLemma, PlaceLemma DEF IInv, Node, OrderInv
<1>2. id \in [Node -> Node] /\ \A k \in Node : id[k] = k
  OBVIOUS
<1>3. IsRun(f, Size, order) /\ IsRun(g, Size, id)
  BY DEF Runs
<1> HIDE DEF id
<1>4. \A m : m \in WritersOf(x) <=> m \in Node /\ x \in Insn(m).def
  BY DEF WritersOf
<1>5. \A j, k \in 0 .. Size :
        /\ (j <= k /\ \A i \in j + 1 .. k : x \notin Insn(order[i]).def)
             => f[k].regs[x] = f[j].regs[x]
        /\ (j <= k /\ \A i \in j + 1 .. k : x \notin Insn(id[i]).def)
             => g[k].regs[x] = g[j].regs[x]
  <2>1. ASSUME NEW j \in 0 .. Size, NEW k \in 0 .. Size, j <= k,
               \A i \in j + 1 .. k : x \notin Insn(order[i]).def
        PROVE  f[k].regs[x] = f[j].regs[x]
    <3>1. BlockInv /\ order \in [Node -> Node] /\ IsRun(f, Size, order)
      BY <1>1, <1>3
    <3> QED BY ONLY <2>1, <3>1, x \in Regs, KeepsValue
  <2>2. ASSUME NEW j \in 0 .. Size, NEW k \in 0 .. Size, j <= k,
               \A i \in j + 1 .. k : x \notin Insn(id[i]).def
        PROVE  g[k].regs[x] = g[j].regs[x]
    <3>1. BlockInv /\ id \in [Node -> Node] /\ IsRun(g, Size, id)
      BY <1>1, <1>2, <1>3
    <3> QED BY ONLY <2>2, <3>1, x \in Regs, KeepsValue
  <2> QED BY <2>1, <2>2
<1>6. /\ f[0] = Start /\ g[0] = Start
      /\ \A k \in Node :
           /\ f[k].regs[x] = IF x \in Insn(order[k]).def
                               THEN ValueOf(block.nodes, f[k - 1].regs, order[k], x)
                               ELSE f[k - 1].regs[x]
           /\ g[k].regs[x] = IF x \in Insn(id[k]).def
                               THEN ValueOf(block.nodes, g[k - 1].regs, id[k], x)
                               ELSE g[k - 1].regs[x]
  <2>1. /\ f[0] = Start
        /\ \A k \in Node : f[k].regs[x] = IF x \in Insn(order[k]).def
                               THEN ValueOf(block.nodes, f[k - 1].regs, order[k], x)
                               ELSE f[k - 1].regs[x]
    <3>1. BlockInv /\ order \in [Node -> Node] /\ IsRun(f, Size, order)
      BY <1>1, <1>3
    <3> QED BY ONLY <3>1, x \in Regs, RunStep
  <2>2. /\ g[0] = Start
        /\ \A k \in Node : g[k].regs[x] = IF x \in Insn(id[k]).def
                               THEN ValueOf(block.nodes, g[k - 1].regs, id[k], x)
                               ELSE g[k - 1].regs[x]
    <3>1. BlockInv /\ id \in [Node -> Node] /\ IsRun(g, Size, id)
      BY <1>1, <1>2, <1>3
    <3> QED BY ONLY <3>1, x \in Regs, RunStep
  <2> QED BY <2>1, <2>2
<1>7. \A k \in Node : x \in Insn(order[k]).def => order[k] \in WritersOf(x)
  BY <1>1, <1>4
<1>8. CASE ~ \E m \in WritersOf(x) : m < n
  <2>1. \A i \in 0 + 1 .. n - 1 : x \notin Insn(id[i]).def
    <3> TAKE i \in 0 + 1 .. n - 1
    <3>1. i \in Node /\ i < n
      BY <1>1
    <3>2. id[i] = i
      BY <3>1, <1>2
    <3> QED BY <3>1, <3>2, <1>4, <1>8
  <2>0. n - 1 \in 0 .. Size /\ p - 1 \in 0 .. Size /\ 0 \in 0 .. Size /\ 0 <= n - 1 /\ 0 <= p - 1
    BY ONLY <1>1, n \in 1 .. Size + 1, p \in 1 .. Size + 1
  <2>2. g[n - 1].regs[x] = g[0].regs[x]
    BY ONLY <2>0, <2>1, <1>5
  <2>3. ASSUME NEW i \in 0 + 1 .. p - 1 PROVE x \notin Insn(order[i]).def
    <3>1. i \in Node /\ i < p
      BY <1>1
    <3>2. SUFFICES ASSUME x \in Insn(order[i]).def PROVE FALSE
      OBVIOUS
    <3>3. order[i] \in WritersOf(x) /\ order[i] \in Node /\ PlaceOf(order[i]) = i
      BY <3>1, <3>2, <1>1, <1>7
    <3>4. ~ order[i] < n /\ order[i] # n
      BY <3>1, <3>3, <1>8
    <3>5. n < order[i]
      BY <3>3, <3>4, <1>1
    <3> QED BY <3>1, <3>3, <3>5
  <2>4. f[p - 1].regs[x] = f[0].regs[x]
    BY ONLY <2>0, <2>3, <1>5
  <2> QED BY <2>2, <2>4, <1>6
<1>9. CASE \E m \in WritersOf(x) : m < n
  <2> DEFINE W == {m \in WritersOf(x) : m < n}
  <2>1. PICK v \in W : \A m \in W : m <= v
    <3>1. W \subseteq 1 .. Size /\ W # {}
      BY <1>1, <1>4, <1>9
    <3> HIDE DEF W
    <3> QED BY <3>1, <1>1, GreatestElement
  <2>2. v \in Node /\ v \in WritersOf(x) /\ x \in Insn(v).def /\ v < n /\ LastBefore(v, x, n)
    BY <2>1, <1>4 DEF LastBefore
  <2>3. \A m \in WritersOf(x) : m < n => m <= v
    BY <2>1
  <2> HIDE DEF W
  <2>4. PlaceOf(v) < p /\ \A m \in WritersOf(x) : m < v => Before(m, v)
    BY <2>2
  <2>5. \A m \in WritersOf(x) : v < m => p <= PlaceOf(m) /\ ~ m < n
    <3> TAKE m \in WritersOf(x)
    <3> HAVE v < m
    <3>1. m \in Node /\ ~ m < n
      BY <2>2, <2>3, <1>1, <1>4
    <3>2. CASE m = n
      BY <3>1, <3>2, <1>1
    <3>3. CASE n < m
      BY <3>1, <3>3, <1>1
    <3> QED BY <3>1, <3>2, <3>3, <1>1
  <2>6. Firm(x, v)
    <3>1. ASSUME NEW m \in WritersOf(x), v < m PROVE Before(v, m)
      <4>1. p <= PlaceOf(m) /\ m \in Node
        BY <3>1, <2>5, <1>4
      <4> QED BY <4>1, <2>2, <2>4, <1>1 DEF Before
    <3> QED BY <3>1, <2>4 DEF Firm
  <2>7. SameValue(f, g, x, v)
    BY <2>2, <2>6
  <2>8. g[n - 1].regs[x] = ValueOf(block.nodes, g[v - 1].regs, v, x)
    <3>1. \A i \in v + 1 .. n - 1 : x \notin Insn(id[i]).def
      <4> TAKE i \in v + 1 .. n - 1
      <4>1. i \in Node /\ v < i /\ i < n /\ id[i] = i
        BY <2>2, <1>1, <1>2
      <4> QED BY <4>1, <2>5, <1>4
    <3>2. v \in 0 .. Size /\ n - 1 \in 0 .. Size /\ v <= n - 1
      BY ONLY <2>2, <1>1, n \in 1 .. Size + 1
    <3>3. g[n - 1].regs[x] = g[v].regs[x]
      BY ONLY <3>1, <3>2, <1>5
    <3>4. g[v].regs[x] = IF x \in Insn(id[v]).def
                           THEN ValueOf(block.nodes, g[v - 1].regs, id[v], x)
                           ELSE g[v - 1].regs[x]
      BY <2>2, <1>6
    <3> QED BY <3>3, <3>4, <2>2, <1>2
  <2>9. f[p - 1].regs[x] = ValueOf(block.nodes, f[PlaceOf(v) - 1].regs, v, x)
    <3> DEFINE q == PlaceOf(v)
    <3>1. q \in Node /\ order[q] = v /\ q < p
      BY <2>2, <2>4, <1>1
    <3> HIDE DEF q
    <3>2. ASSUME NEW i \in q + 1 .. p - 1 PROVE x \notin Insn(order[i]).def
      <4>1. i \in Node /\ q < i /\ i < p
        BY <3>1, <1>1
      <4>2. SUFFICES ASSUME x \in Insn(order[i]).def PROVE FALSE
        OBVIOUS
      <4>3. order[i] \in WritersOf(x) /\ order[i] \in Node /\ PlaceOf(order[i]) = i
        BY <4>1, <4>2, <1>1, <1>7
      <4>4. CASE order[i] < v
        <5>1. i < q
          BY <4>3, <4>4, <2>4 DEF Before, q
        <5> QED BY ONLY <5>1, <4>1, <3>1, <1>1
      <4>5. CASE order[i] = v
        BY <4>1, <4>3, <4>5, <3>1 DEF q
      <4>6. CASE v < order[i]
        BY <4>1, <4>3, <4>6, <3>1, <2>5
      <4> QED BY <4>3, <4>4, <4>5, <4>6, <2>2, <1>1
    <3>3. q \in 0 .. Size /\ p - 1 \in 0 .. Size /\ q <= p - 1
      BY <3>1, <1>1
    <3>4. f[p - 1].regs[x] = f[q].regs[x]
      BY ONLY <3>2, <3>3, <1>5
    <3>5. f[q].regs[x] = IF x \in Insn(order[q]).def
                           THEN ValueOf(block.nodes, f[q - 1].regs, order[q], x)
                           ELSE f[q - 1].regs[x]
      BY <3>1, <1>6
    <3> QED BY <3>1, <3>4, <3>5, <2>2 DEF q
  <2> QED BY <2>7, <2>8, <2>9 DEF SameValue
<1> QED BY <1>8, <1>9

\* A node makes the same of the registers it uses, and where its write counts
\* it leaves the same value: of the nodes that do not, take the first.
LEMMA SameValues ==
  ASSUME IInv, Kept, NEW f, NEW g, Runs(f, g), NEW n \in Node
  PROVE  /\ \A x \in Insn(n).use : f[PlaceOf(n) - 1].regs[x] = g[n - 1].regs[x]
         /\ \A x \in Insn(n).def : Firm(x, n) => SameValue(f, g, x, n)
<1> DEFINE Same(k) == /\ \A x \in Insn(k).use : f[PlaceOf(k) - 1].regs[x] = g[k - 1].regs[x]
                      /\ \A x \in Insn(k).def : Firm(x, k) => SameValue(f, g, x, k)
           D == {k \in Node : ~Same(k)}
<1> SUFFICES ASSUME D # {} PROVE FALSE
  OBVIOUS
<1>1. /\ Size \in Nat /\ Node = 1 .. Size
      /\ \A k \in Node : PlaceOf(k) \in Node
      /\ \A x : WritersOf(x) \subseteq Node
  BY SizeLemma, PlaceLemma DEF IInv, Node, WritersOf
<1>2. PICK k \in D : \A j \in D : k <= j
  <2>1. Node \subseteq Nat
    BY ONLY <1>1
  <2>2. D \subseteq Node /\ D # {}
    <3> HIDE DEF Same
    <3> QED OBVIOUS
  <2> HIDE DEF D
  <2> QED BY ONLY <2>1, <2>2, LeastElement
<1>3. k \in Node /\ ~Same(k)
  BY <1>2
<1>4. ASSUME NEW j \in Node, j < k PROVE Same(j)
  <2>1. ~ k <= j
    BY <1>1, <1>3, <1>4
  <2> QED BY ONLY <2>1, <1>2, <1>4
<1> HIDE DEF D
<1>5. /\ Insn(k) \in NodeType /\ Insn(k).def \subseteq Regs /\ Insn(k).use \subseteq Regs
      /\ Insn(k).use \subseteq Sources(Insn(k)) /\ Sources(Insn(k)) \subseteq Regs
  BY <1>3, SizeLemma, InsnLemma DEF IInv, NodeType, Sources
<1>6. ASSUME NEW x \in Regs, NEW v \in WritersOf(x), v < k, Firm(x, v)
      PROVE  SameValue(f, g, x, v)
  <2>1. v \in Node /\ x \in Insn(v).def
    BY DEF WritersOf
  <2> QED BY <2>1, <1>4, <1>6
<1>7. ASSUME NEW x \in Sources(Insn(k)), \A m \in WritersOf(x) : k < m => Before(k, m)
      PROVE  f[PlaceOf(k) - 1].regs[x] = g[k - 1].regs[x]
  <2>1. x \in Regs /\ k \in 1 .. Size + 1 /\ PlaceOf(k) \in 1 .. Size + 1
    BY <1>1, <1>3, <1>5
  <2>2. \A m \in WritersOf(x) : k < m => PlaceOf(k) < PlaceOf(m)
    BY <1>7 DEF Before
  <2>3. \A v \in Node : LastBefore(v, x, k) =>
          PlaceOf(v) < PlaceOf(k) /\ \A m \in WritersOf(x) : m < v => Before(m, v)
    BY <1>3 DEF Kept, Before
  <2>4. \A v \in WritersOf(x) : v < k /\ Firm(x, v) => SameValue(f, g, x, v)
    BY <2>1, <1>6
  <2> QED BY ONLY IInv, Runs(f, g), <2>1, <2>2, <2>3, <2>4, FindsLemma
<1>8. \A x \in Insn(k).use : f[PlaceOf(k) - 1].regs[x] = g[k - 1].regs[x]
  <2> TAKE x \in Insn(k).use
  <2>1. \A m \in WritersOf(x) : k < m => Before(k, m)
    BY <1>3 DEF Kept
  <2> QED BY <2>1, <1>5, <1>7
<1>9. Access(block.nodes, f[PlaceOf(k) - 1].regs, k) = Access(block.nodes, g[k - 1].regs, k)
  BY <1>8 DEF Access, Insn
<1>10. ASSUME NEW x \in Insn(k).def, Firm(x, k) PROVE SameValue(f, g, x, k)
  <2>1. CASE block.nodes[k].pred
    <3>1. x \in Sources(Insn(k))
      BY <2>1 DEF Sources, Insn
    <3>2. f[PlaceOf(k) - 1].regs[x] = g[k - 1].regs[x]
      BY <3>1, <1>7, <1>10 DEF Firm
    <3> QED BY ONLY <3>2, <1>9 DEF SameValue, ValueOf
  <2>2. CASE ~block.nodes[k].pred
    BY ONLY <2>2, <1>9 DEF SameValue, ValueOf
  <2> QED BY <2>1, <2>2
<1> QED BY <1>3, <1>8, <1>10

\* An access to memory or a transfer of control.
Traced(n) == Insn(n).mem \/ Insn(n).ctrl

\* The traces agree where the same traced nodes are behind: one node at a time
\* is taken off the end of one of the two, or of both.
LEMMA TraceLemma ==
  ASSUME IInv, NEW f, NEW g, Runs(f, g),
         \A m, n \in Node : m < n /\ Traced(m) /\ Traced(n) => Before(m, n),
         \A n \in Node : Access(block.nodes, f[PlaceOf(n) - 1].regs, n)
                           = Access(block.nodes, g[n - 1].regs, n)
  PROVE  f[Size].trace = g[Size].trace
<1> DEFINE id == [k \in Node |-> k]
           Agree(k, l) == \A n \in Node : Traced(n) => (PlaceOf(n) <= k <=> n <= l)
           Wrong(s) == \E k, l \in 0 .. Size :
                         k + l = s /\ Agree(k, l) /\ f[k].trace # g[l].trace
           D == {s \in Nat : Wrong(s)}
<1>1. /\ Size \in Nat /\ Node = 1 .. Size /\ BlockInv /\ order \in [Node -> Node]
      /\ \A k \in Node : PlaceOf(k) \in Node /\ order[PlaceOf(k)] = k
      /\ \A k \in Node : order[k] \in Node /\ PlaceOf(order[k]) = k
  BY SizeLemma, PlaceLemma DEF IInv, Node, OrderInv
<1>2. id \in [Node -> Node] /\ \A k \in Node : id[k] = k
  OBVIOUS
<1>3. IsRun(f, Size, order) /\ IsRun(g, Size, id)
  BY DEF Runs
<1> HIDE DEF id
<1>4. /\ f[0] = Start
      /\ \A k \in Node : f[k].trace =
           IF Traced(order[k])
             THEN Append(f[k - 1].trace, Access(block.nodes, f[k - 1].regs, order[k]))
             ELSE f[k - 1].trace
  <2>1. BlockInv /\ order \in [Node -> Node] /\ IsRun(f, Size, order)
    BY <1>1, <1>3
  <2> QED BY ONLY <2>1, RunStep DEF Traced
<1>5. /\ g[0] = Start
      /\ \A k \in Node : g[k].trace =
           IF Traced(id[k])
             THEN Append(g[k - 1].trace, Access(block.nodes, g[k - 1].regs, id[k]))
             ELSE g[k - 1].trace
  <2>1. BlockInv /\ id \in [Node -> Node] /\ IsRun(g, Size, id)
    BY <1>1, <1>2, <1>3
  <2> QED BY ONLY <2>1, RunStep DEF Traced
<1>6. SUFFICES ASSUME f[Size].trace # g[Size].trace PROVE FALSE
  OBVIOUS
<1>7. Agree(Size, Size)
  BY <1>1
<1>8. PICK s \in D : \A t \in D : s <= t
  <2>1. Size \in 0 .. Size /\ Size + Size \in Nat
    BY <1>1
  <2>2. Wrong(Size + Size)
    BY <2>1, <1>6, <1>7
  <2>3. D \subseteq Nat /\ D # {}
    BY <2>1, <2>2
  <2> HIDE DEF D
  <2> QED BY ONLY <2>3, LeastElement
<1>9. PICK k \in 0 .. Size, l \in 0 .. Size :
        k + l = s /\ Agree(k, l) /\ f[k].trace # g[l].trace
  BY <1>8
<1>10. ASSUME NEW i \in 0 .. Size, NEW j \in 0 .. Size, i + j < k + l, Agree(i, j)
       PROVE  f[i].trace = g[j].trace
  <2>1. i + j \in Nat /\ k + l \in Nat /\ ~ s <= i + j
    BY <1>1, <1>9, <1>10
  <2>2. i + j \notin D
    BY <2>1, <1>8
  <2> QED BY <2>1, <2>2, <1>10
<1>11. \A n \in Node : Traced(n) => (PlaceOf(n) <= k <=> n <= l)
  BY <1>9
<1> HIDE DEF D, Wrong, Agree
<1>12. k > 0 => k \in Node /\ k - 1 \in 0 .. Size /\ (k - 1) + l < k + l
  BY <1>1
<1>13. l > 0 => l \in Node /\ l - 1 \in 0 .. Size /\ k + (l - 1) < k + l
  BY <1>1
<1>14. CASE k > 0 /\ ~Traced(order[k])
  <2>1. \A n \in Node : Traced(n) => (PlaceOf(n) <= k - 1 <=> PlaceOf(n) <= k)
    <3> TAKE n \in Node
    <3> HAVE Traced(n)
    <3>1. PlaceOf(n) # k
      BY <1>1, <1>14
    <3>2. PlaceOf(n) \in Nat /\ k \in Nat
      BY <1>1
    <3> QED BY ONLY <3>1, <3>2
  <2>2. Agree(k - 1, l)
    BY <2>1, <1>11 DEF Agree
  <2>3. f[k - 1].trace = g[l].trace
    BY <2>2, <1>10, <1>12, <1>14
  <2> QED BY <2>3, <1>4, <1>9, <1>12, <1>14
<1>15. CASE l > 0 /\ ~Traced(l)
  <2>1. \A n \in Node : Traced(n) => (n <= l - 1 <=> n <= l)
    <3> TAKE n \in Node
    <3> HAVE Traced(n)
    <3>1. n # l
      BY <1>15
    <3>2. n \in Nat /\ l \in Nat
      BY <1>1
    <3> QED BY ONLY <3>1, <3>2
  <2>2. Agree(k, l - 1)
    BY <2>1, <1>11 DEF Agree
  <2>3. f[k].trace = g[l - 1].trace
    BY <2>2, <1>10, <1>13, <1>15
  <2>4. id[l] = l
    BY <1>2, <1>13, <1>15
  <2> QED BY <2>3, <2>4, <1>5, <1>9, <1>13, <1>15
<1>16. CASE k > 0 /\ l > 0 /\ Traced(order[k]) /\ Traced(l)
  <2>1. order[k] \in Node /\ PlaceOf(order[k]) = k /\ order[k] <= l
    BY <1>1, <1>11, <1>12, <1>16
  <2>2. PlaceOf(l) <= k /\ PlaceOf(l) \in Node
    BY <1>1, <1>11, <1>13, <1>16
  <2>3. order[k] = l
    <3>1. SUFFICES ASSUME order[k] # l PROVE FALSE
      OBVIOUS
    <3>2. order[k] < l
      BY <3>1, <2>1, <1>1
    <3>3. Before(order[k], l)
      BY <3>2, <2>1, <1>13, <1>16
    <3> QED BY <3>3, <2>1, <2>2, <1>1 DEF Before
  <2>4. \A n \in Node : PlaceOf(n) = k <=> n = l
    BY <2>1, <2>3, <1>1
  <2>5. \A n \in Node : Traced(n) => (PlaceOf(n) <= k - 1 <=> n <= l - 1)
    <3> TAKE n \in Node
    <3> HAVE Traced(n)
    <3>1. PlaceOf(n) <= k <=> n <= l
      BY <1>11
    <3>2. PlaceOf(n) = k <=> n = l
      BY <2>4
    <3>3. PlaceOf(n) \in Nat /\ n \in Nat /\ k \in Nat /\ l \in Nat
      BY <1>1
    <3> QED BY ONLY <3>1, <3>2, <3>3
  <2>6. Agree(k - 1, l - 1)
    BY <2>5 DEF Agree
  <2>7. f[k - 1].trace = g[l - 1].trace
    <3>1. (k - 1) + (l - 1) < k + l
      BY <1>1
    <3> QED BY <3>1, <2>6, <1>10, <1>12, <1>13, <1>16
  <2>8. Access(block.nodes, f[k - 1].regs, l) = Access(block.nodes, g[l - 1].regs, l)
    <3>1. l \in Node /\ PlaceOf(l) = k
      BY <2>4, <1>13, <1>16
    <3> QED BY <3>1
  <2>9. f[k].trace = Append(f[k - 1].trace, Access(block.nodes, f[k - 1].regs, l))
    BY <2>3, <1>4, <1>12, <1>16
  <2>10. g[l].trace = Append(g[l - 1].trace, Access(block.nodes, g[l - 1].regs, l))
    <3>1. id[l] = l
      BY <1>2, <1>13, <1>16
    <3> QED BY <3>1, <1>5, <1>13, <1>16
  <2> QED BY <2>7, <2>8, <2>9, <2>10, <1>9
<1>17. CASE k = 0 /\ l = 0
  BY <1>4, <1>5, <1>9, <1>17
<1>18. CASE k = 0 /\ l > 0 /\ Traced(l)
  <2>1. PlaceOf(l) <= k /\ PlaceOf(l) \in Node
    BY <1>1, <1>11, <1>13, <1>18
  <2> QED BY <2>1, <1>1, <1>18
<1>19. CASE l = 0 /\ k > 0 /\ Traced(order[k])
  <2>1. order[k] <= l /\ order[k] \in Node
    BY <1>1, <1>11, <1>12, <1>19
  <2> QED BY <2>1, <1>1, <1>19
<1>20. k \in Nat /\ l \in Nat
  BY <1>1
<1> QED BY <1>14, <1>15, <1>16, <1>17, <1>18, <1>19, <1>20

\* What a block has to be for its effect to be kept: EntryEnd() is not NULL, so
\* that the second scan is made, and a control operation inside the block is
\* ordered with the accesses to memory, as leave is and hlt is not.
Schedulable ==
  /\ ~block.atEnd
  /\ \A n \in Node : Insn(n).ctrl => n = Size \/ InMemoryOrder(Insn(n))

LEMMA EffectKept ==
  ASSUME IInv, OrderedInv, phase \in {"schedule", "done"}, Schedulable
  PROVE  EffectOf(block.nodes, order, Regs) = EffectOf(block.nodes, [n \in Node |-> n], Regs)
<1> DEFINE id == [n \in Node |-> n]
<1>1. /\ Size \in Nat /\ Node = 1 .. Size /\ BlockInv /\ order \in [Node -> Node]
      /\ \A k \in Node : PlaceOf(k) \in Node
      /\ \A x : WritersOf(x) \subseteq Node
  BY SizeLemma, PlaceLemma DEF IInv, Node, OrderInv, WritersOf
<1>2. id \in [Node -> Node]
  OBVIOUS
<1>3. Kept
  BY KeptLemma DEF Schedulable
<1>4. PICK f : IsRun(f, Size, order) /\ EffectOf(block.nodes, order, Regs) = f[Size]
  BY <1>1, EffectLemma
<1>5. PICK g : IsRun(g, Size, id) /\ EffectOf(block.nodes, id, Regs) = g[Size]
  <2> HIDE DEF id
  <2> QED BY <1>1, <1>2, EffectLemma
<1>6. Runs(f, g)
  BY <1>4, <1>5 DEF Runs
<1>7. \A n \in Node : \A x \in Insn(n).def : Firm(x, n) => SameValue(f, g, x, n)
  BY <1>3, <1>6, SameValues
<1>8. \A n \in Node : Access(block.nodes, f[PlaceOf(n) - 1].regs, n)
                        = Access(block.nodes, g[n - 1].regs, n)
  <2> TAKE n \in Node
  <2>1. \A x \in Insn(n).use : f[PlaceOf(n) - 1].regs[x] = g[n - 1].regs[x]
    BY <1>3, <1>6, SameValues
  <2> QED BY ONLY <2>1 DEF Access, Insn
<1>9. \A m, n \in Node : m < n /\ Traced(m) /\ Traced(n) => Before(m, n)
  <2> TAKE m, n \in Node
  <2> HAVE m < n /\ Traced(m) /\ Traced(n)
  <2>1. CASE Insn(n).ctrl
    BY <2>1, ControlLemma DEF ControlStays
  <2>2. CASE ~Insn(n).ctrl
    <3>1. m # Size
      BY <1>1
    <3>2. InMemoryOrder(Insn(m)) /\ InMemoryOrder(Insn(n))
      BY <3>1, <2>2 DEF Traced, Schedulable, InMemoryOrder
    <3> QED BY <3>2, <1>3 DEF Kept
  <2> QED BY <2>1, <2>2
<1>10. f[Size].trace = g[Size].trace
  BY ONLY IInv, <1>6, <1>8, <1>9, TraceLemma
<1>11. \A x \in Regs : f[Size].regs[x] = g[Size].regs[x]
  <2> TAKE x \in Regs
  <2> DEFINE e == Size + 1
  <2>1. e \in 1 .. Size + 1 /\ e \notin Node /\ e - 1 = Size
        /\ \A n \in Node : n < e /\ ~ e < n
    BY <1>1
  <2>3. \A v \in Node : LastBefore(v, x, e) =>
          PlaceOf(v) < e /\ \A m \in WritersOf(x) : m < v => Before(m, v)
    <3>1. \A v \in Node : PlaceOf(v) < e
      BY <2>1, <1>1
    <3> QED BY <3>1, <1>3 DEF Kept
  <2>4. \A v \in WritersOf(x) : v < e /\ Firm(x, v) => SameValue(f, g, x, v)
    BY <1>7 DEF WritersOf
  <2>5. (e \in Node => PlaceOf(e) = e) /\ \A m \in WritersOf(x) : e < m => e < PlaceOf(m)
    BY <2>1, <1>1
  <2> HIDE DEF e
  <2>6. f[e - 1].regs[x] = g[e - 1].regs[x]
    BY ONLY IInv, <1>6, <2>1, <2>3, <2>4, <2>5, x \in Regs, FindsLemma
  <2> QED BY <2>1, <2>6
<1>12. f[Size] = [regs |-> [x \in Regs |-> f[Size].regs[x]], trace |-> f[Size].trace]
  BY <1>1, <1>4, RunShape
<1> HIDE DEF id
<1>13. g[Size] = [regs |-> [x \in Regs |-> g[Size].regs[x]], trace |-> g[Size].trace]
  BY <1>1, <1>2, <1>5, RunShape
<1>14. f[Size] = g[Size]
  BY ONLY <1>10, <1>11, <1>12, <1>13
<1> QED BY <1>4, <1>5, <1>14 DEF id

\* After every move the block computes what it did: the same values in the
\* registers, the same accesses to memory in the same order, and the same values
\* at each of them and at each transfer of control.
THEOREM EffectTheorem == Spec => [](Schedulable => SameEffect)
<1>1. IInv /\ OrderedInv => (Schedulable => SameEffect)
  BY EffectKept DEF SameEffect
<1> QED BY <1>1, Invariance, OrderedInvariance, PTL
=============================================================================
