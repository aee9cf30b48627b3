-------------------------------- MODULE Loops --------------------------------
(***************************************************************************)
(* HavlakLoopFinder (MaoLoops.cc): the nest of loops of a control-flow     *)
(* graph.  A depth-first walk numbers the blocks; the loop that a block    *)
(* heads is found by chasing predecessors from the sources of its back     *)
(* edges, and is then collapsed into its header by union and find, so that *)
(* an outer loop meets it as one node.                                     *)
(*                                                                         *)
(* Blocks are 1 .. size, the source first.  They are numbered from 1 here, *)
(* where the code begins with 0: a number that is 0 is none, and as a loop *)
(* it is the artificial root.                                              *)
(***************************************************************************)
EXTENDS Integers, Sequences, Functions, FiniteSetsExt, TLC

CONSTANTS
  Graphs,              \* the graphs that a run may be given
  MaxNonBackPreds      \* kMaxNonBackPreds, 32768 in the code

SOURCE == 1
ROOT == 0
NONE == 0

\* Nothing leads back to the source.
ASSUME GraphsAssumption ==
  \A g \in Graphs :
    /\ g.size \in Nat \ {0}
    /\ g.edges \subseteq (1 .. g.size) \X (2 .. g.size)

ASSUME MaxAssumption == MaxNonBackPreds \in Nat

VARIABLES
  graph,
  phase,               \* "dfs", "sort", "header", "chase", "level", "done" or "killed"
  stack,               \* the blocks that calls of DFS are at
  nodes,               \* the block of each number
  last,                \* the highest number below each number in the walk's tree
  backPreds, nonBackPreds,
  type,
  parent,              \* of each UnionFindNode
  w, P, worklist,      \* of the loop over the headers
  loops,               \* the SimpleLoops, by the number of their header
  depth, nesting       \* the levels of each loop, once they are calculated

dfsVars == <<stack, nodes, last>>
setVars == <<backPreds, nonBackPreds, type, parent>>
chaseVars == <<w, P, worklist>>
levelVars == <<depth, nesting>>
vars == <<graph, phase, dfsVars, setVars, chaseVars, loops, levelVars>>

Blocks == 1 .. graph.size
Numbers == 1 .. Len(nodes)
Number(b) == CHOOSE v \in Numbers : nodes[v] = b

\* The predecessors of a number: those of its block that the walk came to.
Preds(v) == {u \in Numbers : <<nodes[u], nodes[v]>> \in graph.edges}

Init ==
  /\ graph \in Graphs
  /\ phase = "dfs"
  /\ stack = <<SOURCE>> /\ nodes = <<SOURCE>>
  /\ last = [v \in Blocks |-> NONE]
  /\ backPreds = [v \in Blocks |-> {}] /\ nonBackPreds = [v \in Blocks |-> {}]
  /\ type = [v \in Blocks |-> "dead"]
  /\ parent = [v \in Blocks |-> v]
  /\ w = NONE /\ P = {} /\ worklist = {}
  /\ loops = <<>>
  /\ depth = <<>> /\ nesting = <<>>

-----------------------------------------------------------------------------
(* Step a: DFS.  The order of the out edges is that of the jumps' targets. *)

Top == stack[Len(stack)]
Unvisited(b) == {c \in Blocks \ Range(nodes) : <<b, c>> \in graph.edges}

Visit ==
  /\ phase = "dfs" /\ stack # <<>>
  /\ \E b \in Unvisited(Top) :
       /\ stack' = Append(stack, b)
       /\ nodes' = Append(nodes, b)
  /\ UNCHANGED <<graph, phase, last, setVars, chaseVars, loops, levelVars>>

Highest(b) == Len(nodes)

Leave ==
  /\ phase = "dfs" /\ stack # <<>>
  /\ Unvisited(Top) = {}
  /\ last' = [last EXCEPT ![Number(Top)] = Highest(Top)]
  /\ stack' = SubSeq(stack, 1, Len(stack) - 1)
  /\ phase' = IF Len(stack) = 1 THEN "sort" ELSE "dfs"
  /\ UNCHANGED <<graph, nodes, setVars, chaseVars, loops, levelVars>>

-----------------------------------------------------------------------------
(* Step b: which predecessors come by a back edge.                         *)

IsAncestor(u, v) == u <= v /\ v <= last[u]

SortPreds ==
  /\ phase = "sort"
  /\ backPreds' = [v \in Blocks |->
       IF v \in Numbers THEN {u \in Preds(v) : IsAncestor(v, u)} ELSE {}]
  /\ nonBackPreds' = [v \in Blocks |->
       IF v \in Numbers THEN {u \in Preds(v) : ~IsAncestor(v, u)} ELSE {}]
  /\ type' = [v \in Blocks |-> IF v \in Numbers THEN "nonheader" ELSE "dead"]
  /\ w' = Len(nodes)
  /\ phase' = "header"
  /\ UNCHANGED <<graph, dfsVars, parent, P, worklist, loops, levelVars>>

-----------------------------------------------------------------------------
(* UnionFindNode.                                                          *)

\* The nodes on the way up from v.
Upwards(v) ==
  LET up[n \in 0 .. graph.size] == IF n = 0 THEN v ELSE parent[up[n - 1]]
  IN {up[n] : n \in 0 .. graph.size}

FindSet(v) == CHOOSE u \in Upwards(v) : parent[u] = u

\* Path compression in FindSet of each node of vs.
Compress(vs) ==
  LET ways == UNION {Upwards(v) : v \in vs}
  IN [u \in Blocks |-> IF u \in ways THEN FindSet(u) ELSE parent[u]]

-----------------------------------------------------------------------------
(* Steps d and e: the body of the loop that w heads.                       *)

StartHeader ==
  /\ phase = "header"
  /\ LET sources == backPreds[w] \ {w} IN
     /\ P' = {FindSet(v) : v \in sources}
     /\ worklist' = P'
     /\ parent' = Compress(sources)
     /\ type' = [type EXCEPT ![w] =
          IF sources # {} THEN "reducible" ELSE IF w \in backPreds[w] THEN "self" ELSE @]
  /\ phase' = "chase"
  /\ UNCHANGED <<graph, dfsVars, backPreds, nonBackPreds, w, loops, levelVars>>

\* Where the predecessors of a collapsed node x are now.
Sources(x) == {FindSet(y) : y \in nonBackPreds[x]}

\* Those inside the loop that were not found before.
New(x) == {y \in Sources(x) \ {w} : IsAncestor(w, y)} \ P

\* Slip: an entry past the header does not make a predecessor of the loop.
OutsideSlip(x) == {}

\* Those that come into the loop past its header.
Outside(x) == {y \in Sources(x) : ~IsAncestor(w, y)}

\* Slip: a node is looked at, and not taken off the list.
RestSlip(x) == worklist

Rest(x) == worklist \ {x}

\* FindSet is called on a copy of the node: its own link is not compressed.
Chase ==
  /\ phase = "chase"
  /\ \E x \in worklist :
       /\ Cardinality(nonBackPreds[x]) <= MaxNonBackPreds
       /\ worklist' = Rest(x) \cup New(x)
       /\ P' = P \cup New(x)
       /\ type' = IF Outside(x) # {} THEN [type EXCEPT ![w] = "irreducible"] ELSE type
       /\ nonBackPreds' = [nonBackPreds EXCEPT ![w] = @ \cup Outside(x)]
       /\ parent' = Compress({parent[y] : y \in nonBackPreds[x]})
  /\ UNCHANGED <<graph, phase, dfsVars, backPreds, w, loops, levelVars>>

\* KillAll: the algorithm has degenerated.
GiveUp ==
  /\ phase = "chase"
  /\ \E x \in worklist : Cardinality(nonBackPreds[x]) > MaxNonBackPreds
  /\ loops' = <<>>
  /\ phase' = "killed"
  /\ UNCHANGED <<graph, dfsVars, setVars, chaseVars, levelVars>>

\* Slip: the parts of a loop do not join the set of its header.
CollapseSlip == [v \in Blocks |-> IF v \in P THEN v ELSE parent[v]]

Collapse == [v \in Blocks |-> IF v \in P THEN w ELSE parent[v]]

\* What is in the loop and in no loop nested in it.
Own == P \ DOMAIN loops

\* The bottom is the first of the back edges' sources, in the order in which
\* the header's edges were linked.
NewLoop(bottom) ==
  [own |-> {w} \cup Own, bottom |-> bottom, parent |-> NONE,
   reducible |-> type[w] # "irreducible"]

\* The loops that are collapsed into P are nested in the new one.
Nested == [l \in DOMAIN loops |-> [loops[l] EXCEPT !.parent = IF l \in P THEN w ELSE @]]

EndHeader ==
  /\ phase = "chase" /\ worklist = {}
  /\ IF P = {} /\ type[w] # "self"
     THEN UNCHANGED <<loops, parent>>
     ELSE /\ \E bottom \in backPreds[w] : loops' = (w :> NewLoop(bottom)) @@ Nested
          /\ parent' = Collapse
  /\ P' = {}
  /\ w' = w - 1
  /\ phase' = IF w = 1 THEN "level" ELSE "header"
  /\ UNCHANGED <<graph, dfsVars, backPreds, nonBackPreds, type, worklist, levelVars>>

-----------------------------------------------------------------------------
(* CalculateNestingLevel.                                                  *)

Children(l) == {k \in DOMAIN loops : loops[k].parent = l}

\* Loops without a parent are children of the root.
Depth ==
  LET d[l \in DOMAIN loops \cup {ROOT}] == IF l = ROOT THEN 0 ELSE 1 + d[loops[l].parent]
  IN d

Nesting ==
  LET n[l \in DOMAIN loops \cup {ROOT}] == Max({0} \cup {1 + n[k] : k \in Children(l)})
  IN n

CalculateNestingLevel ==
  /\ phase = "level"
  /\ depth' = Depth
  /\ nesting' = Nesting
  /\ phase' = "done"
  /\ UNCHANGED <<graph, dfsVars, setVars, chaseVars, loops>>

Next ==
  \/ Visit \/ Leave \/ SortPreds
  \/ StartHeader \/ Chase \/ GiveUp \/ EndHeader
  \/ CalculateNestingLevel

Spec == Init /\ [][Next]_vars

\* One call in one thread: it goes on as long as it can.
FairSpec == Spec /\ WF_vars(Next)

-----------------------------------------------------------------------------
(* What a loop is.                                                         *)

\* Everything that can get to a number of targets without leaving within.
Reaching(targets, within) ==
  LET back[n \in 0 .. graph.size] ==
        IF n = 0 THEN targets \cap within
        ELSE LET before == back[n - 1]
             IN before \cup UNION {Preds(v) \cap within : v \in before}
  IN back[graph.size]

\* The part of the tree below v that is strongly connected with v.
Component(v) == Reaching({v}, v .. last[v])

\* A loop with everything nested in it.
Members ==
  LET m[l \in DOMAIN loops] == loops[l].own \cup UNION {m[k] : k \in Children(l)}
  IN m

\* On every way from the source to v.
Dominates(u, v) == u = v \/ SOURCE \notin Reaching({v}, Numbers \ {u})

\* The natural loop of v: what gets back to v from a source of an edge to v
\* that v dominates, without going through v.
Natural(v) ==
  {v} \cup Reaching({u \in Preds(v) : Dominates(v, u)}, Numbers \ {v})

\* While header w is still to come, a block is in the set of the outermost
\* loop around it that was found, however many unions and compressions lie
\* between them.
SetsAreLoops ==
  phase = "header" =>
    \A v \in Numbers :
      FindSet(v) = Min({v} \cup {l \in DOMAIN loops : v \in Component(l)})

\* There is a loop for every block that an edge from below it in the walk's
\* tree leads to, and it holds all that is strongly connected with the header
\* down there, each block as a part of the innermost loop around it; its
\* bottom has an edge to the header.
MembersAreComponents ==
  phase = "done" =>
    /\ DOMAIN loops = {v \in Numbers : \E u \in Preds(v) : IsAncestor(v, u)}
    /\ \A l \in DOMAIN loops :
         /\ Members[l] = Component(l)
         /\ \A k \in Children(l) : loops[l].own \cap Members[k] = {}
         /\ loops[l].bottom \in Members[l] \cap Preds(l)

\* The depth of a loop is the number of loops that it lies in, and its nesting
\* level is how much deeper the deepest loop in it is.
LevelsAreCounts ==
  phase = "done" =>
    \A l \in DOMAIN loops :
      /\ depth[l] = Cardinality({k \in DOMAIN loops : l \in Component(k)})
      /\ nesting[l] = Max({depth[k] - depth[l] :
                             k \in {j \in DOMAIN loops : j \in Component(l)}})

\* What was found is the nest of the strongly connected parts of the graph,
\* while it is being found and in the end.
LoopsAreComponents == SetsAreLoops /\ MembersAreComponents /\ LevelsAreCounts

\* A loop is called reducible just if it can be entered through its header only.
ReducibleIsOneEntry ==
  phase = "done" =>
    \A l \in DOMAIN loops :
      loops[l].reducible <=> \A v \in Members[l] \ {l} : Preds(v) \subseteq Members[l]

\* Whichever way the walk took, every block that dominates a predecessor heads
\* a loop, and a reducible loop is the natural loop of its header.
NaturalLoops ==
  /\ ReducibleIsOneEntry
  /\ phase = "done" =>
    /\ \A v \in Numbers : (\E u \in Preds(v) : Dominates(v, u)) => v \in DOMAIN loops
    /\ \A l \in DOMAIN loops : loops[l].reducible => Members[l] = Natural(l)

\* The work lists run empty.
Terminates == <>(phase \in {"done", "killed"})
=============================================================================
