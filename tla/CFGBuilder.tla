----------------------------- MODULE CFGBuilder -----------------------------
(***************************************************************************)
(* CFGBuilder::Go (MaoCFG.cc): the control-flow graph of one function, in  *)
(* a single walk over its entries.  A block is opened at the function's    *)
(* start, after an instruction that ends a block, and at a label that some *)
(* earlier jump goes to.  A jump back to a label in the middle of a block  *)
(* that exists already breaks that block up.                               *)
(*                                                                         *)
(* An entry is a record of                                                 *)
(*   kind  "insn", "movaps" (the one opcode that va_arg patterns ask for), *)
(*         "call", "jcc", "jmp", "ret", "tail" (an indirect jump after a   *)
(*         leave), "table" (an indirect jump by one of the table           *)
(*         patterns whose table can be read), "ijmp" (any other, by a      *)
(*         register), "label", and the directives "size", "data", "other"; *)
(*   name  the name of a label, which is a number;                         *)
(*   to    the names that a jump or its table goes to.                     *)
(* Names above those in the texts are what BBNameGen makes.                *)
(***************************************************************************)
EXTENDS Integers, Sequences, SequencesExt, Functions

CONSTANTS
  Texts,              \* the functions a run may build the graph of
  FirstFresh,         \* the first name of BBNameGen
  MaxBuilds           \* how often the graph of a function is built

ASSUME FreshAssumption == FirstFresh \in Nat
ASSUME BuildsAssumption == MaxBuilds \in Nat \ {0}

SOURCE == 1
SINK == 2
NONE == 0             \* no block; no position

Directives == {"size", "data", "other"}
Jumps == {"jcc", "jmp", "table", "ijmp", "tail"}      \* HasTarget

ASSUME TextsAssumption ==
  \A t \in Texts :
    /\ t \in Seq([kind : Directives \cup Jumps
                           \cup {"insn", "movaps", "call", "ret", "label"},
                  name : 0 .. FirstFresh - 1, to : SUBSET (1 .. FirstFresh - 1)])
    /\ \A p, q \in DOMAIN t :
         t[p].kind = "label" /\ t[q].kind = "label" /\ t[p].name = t[q].name => p = q
    /\ \A p \in DOMAIN t :
         /\ t[p].kind \in {"jcc", "jmp"} => \E l \in t[p].to : t[p].to = {l}
         /\ t[p].kind = "table" => t[p].to # {}
         /\ t[p].kind \notin {"jcc", "jmp", "table"} => t[p].to = {}

VARIABLES
  text,               \* the entries of the function, as they are now
  respect,            \* respect_orig_labels_: set for a conservative graph
  builds,             \* how often a graph was built for this text
  phase, pos,         \* where the walk is
  blocks, edges,
  named,              \* basic_block_map_
  labelToBB,          \* label_to_bb_map_
  nextName,           \* the counter of BBNameGen
  current, previous, fallThrough, lastEntry,
  targets,            \* the labels that GetTargets returned and that are not linked yet
  pattern,            \* the entries of a va_arg pattern that have no target yet
  vaArg, inserted,
  external, unresolved   \* whether the two counters of jumps are above zero

graphVars == <<blocks, edges, named, labelToBB, external, unresolved>>
walkVars == <<current, previous, fallThrough, lastEntry>>
linkVars == <<targets, pattern, vaArg, inserted>>
vars == <<text, respect, builds, phase, pos, nextName, graphVars, walkVars, linkVars>>

-----------------------------------------------------------------------------
Entry == text[pos]

BelongsInBasicBlock(e) == e.kind \notin Directives
IsLabel(e) == e.kind = "label"
IsInstruction(e) == BelongsInBasicBlock(e) /\ ~IsLabel(e)
HasTarget(e) == e.kind \in Jumps
IsReturn(e) == e.kind = "ret"

\* A control transfer that is no call.
Transfers(e) == HasTarget(e) \/ IsReturn(e)
HasFallThrough(e) == ~IsReturn(e) /\ (~HasTarget(e) \/ e.kind = "jcc")
EndsBasicBlock(e) == IsInstruction(e) /\ (Transfers(e) \/ ~HasFallThrough(e))

NewBlock(l) == [label |-> l, first |-> NONE, last |-> NONE, chained |-> FALSE, data |-> FALSE]

\* BasicBlock::AddEntry.
AddEntry(b, p) == [b EXCEPT !.first = IF @ = NONE THEN p ELSE @, !.last = p]

\* The map m with the names going to block b.
Maps(m, names, b) == [l \in DOMAIN m \cup names |-> IF l \in names THEN b ELSE m[l]]

Edge(b, c, fall) == [from |-> b, to |-> c, fall |-> fall]

\* Where a label stands in the text, if it is in this function.
PlaceOf(l) == {p \in DOMAIN text : IsLabel(text[p]) /\ text[p].name = l}

\* An empty graph has its source and its sink.
Init ==
  /\ text \in Texts
  /\ respect \in BOOLEAN
  /\ builds = 1
  /\ nextName = FirstFresh
  /\ phase = "walk" /\ pos = 1
  /\ blocks = <<NewBlock(NONE), NewBlock(NONE)>> /\ edges = {}
  /\ named = <<>> /\ labelToBB = <<>>
  /\ external = FALSE /\ unresolved = FALSE
  /\ current = NONE /\ previous = SOURCE
  /\ fallThrough = TRUE
  /\ lastEntry = NONE
  /\ targets = <<>> /\ pattern = {} /\ vaArg = FALSE /\ inserted = FALSE

-----------------------------------------------------------------------------
(* One turn of the loop of Go, up to the targets of a jump.                *)

Walking == phase = "walk" /\ pos \in DOMAIN text

\* A directive belongs to no block, but a block remembers the data in it.
SkipDirective ==
  /\ Walking
  /\ ~BelongsInBasicBlock(Entry)
  /\ blocks' = IF current # NONE /\ Entry.kind = "data"
               THEN [blocks EXCEPT ![current].data = TRUE] ELSE blocks
  /\ pos' = pos + 1
  /\ UNCHANGED <<text, respect, builds, phase, nextName, edges, named, labelToBB,
                 external, unresolved, walkVars, linkVars>>

\* A label that has to head a block ends the current one.
Splits ==
  current # NONE /\ IsLabel(Entry) /\ (respect \/ Entry.name \in DOMAIN named)

Opens == current = NONE \/ Splits

PreviousNow == IF Splits THEN current ELSE previous
FallThroughNow == Splits \/ fallThrough

\* The function ends at a label before its .size; no block is made for it.
EndsFunction ==
  IsLabel(Entry) /\ pos < Len(text) /\ text[pos + 1].kind = "size"

StopAtSize ==
  /\ Walking
  /\ BelongsInBasicBlock(Entry) /\ Opens /\ EndsFunction
  /\ lastEntry' = pos
  /\ previous' = PreviousNow
  /\ fallThrough' = FallThroughNow
  /\ current' = NONE
  /\ phase' = "finish"
  /\ UNCHANGED <<text, respect, builds, pos, nextName, graphVars, linkVars>>

\* The rest of the turn once the entry is in block b.
Enter(b) ==
  /\ current' = b
  /\ lastEntry' = pos
  /\ labelToBB' = IF IsLabel(Entry) THEN Maps(labelToBB, {Entry.name}, b) ELSE labelToBB
  /\ phase' = IF Transfers(Entry) THEN "targets" ELSE phase
  /\ pos' = IF Transfers(Entry) THEN pos ELSE pos + 1

\* Finds or makes the block that starts here.
OpenBlock ==
  /\ Walking
  /\ BelongsInBasicBlock(Entry) /\ Opens /\ ~EndsFunction
  /\ LET l == IF IsLabel(Entry) THEN Entry.name ELSE nextName
         found == l \in DOMAIN named
         b == IF found THEN named[l] ELSE Len(blocks) + 1
         bs == IF found THEN blocks ELSE Append(blocks, NewBlock(l))
     IN /\ blocks' = [bs EXCEPT ![b] = AddEntry(@, pos)]
        /\ named' = Maps(named, {l}, b)
        /\ nextName' = IF IsLabel(Entry) THEN nextName ELSE nextName + 1
        /\ edges' = edges \cup IF FallThroughNow THEN {Edge(PreviousNow, b, TRUE)} ELSE {}
        /\ Enter(b)
  /\ previous' = PreviousNow
  /\ fallThrough' = FALSE
  /\ UNCHANGED <<text, respect, builds, external, unresolved, linkVars>>

StayInBlock ==
  /\ Walking
  /\ BelongsInBasicBlock(Entry) /\ ~Opens
  /\ blocks' = [blocks EXCEPT ![current] = AddEntry(@, pos)]
  /\ Enter(current)
  /\ UNCHANGED <<text, respect, builds, nextName, edges, named, external, unresolved,
                 previous, fallThrough, linkVars>>

-----------------------------------------------------------------------------
(* GetTargets.                                                             *)

\* The positions that IsVaargBasedJump collects for the jump at pos: after an
\* optional label a run of movaps, and the instruction that comes next.  What
\* follows the run is taken to be in the same function.
VaargPattern ==
  LET first == IF pos < Len(text) /\ IsLabel(text[pos + 1]) THEN pos + 2 ELSE pos + 1
      run == {p \in first .. Len(text) :
                \A q \in first .. p : text[q].kind = "movaps"}
      end == first + Cardinality(run)
      after == {p \in end .. Len(text) :
                  /\ IsInstruction(text[p])
                  /\ \A q \in end .. p - 1 : ~IsInstruction(text[q])}
  IN IF Cardinality(run \cup after) > 1 THEN run \cup after ELSE {}

FreshLabel(l) == [kind |-> "label", name |-> l, to |-> {}]

\* The targets of a pattern are asked for one by one.
FindVaarg ==
  /\ VaargPattern # {}
  /\ pattern' = VaargPattern
  /\ vaArg' = TRUE
  /\ phase' = "pattern"
  /\ UNCHANGED <<external, unresolved>>

\* An indirect jump that no pattern explains.
GiveUp ==
  /\ VaargPattern = {}
  /\ external' = TRUE
  /\ unresolved' = TRUE
  /\ vaArg' = FALSE
  /\ phase' = "link"
  /\ UNCHANGED pattern

\* The targets of a table come in the order of a set of pointers.
GetTargets ==
  /\ phase = "targets"
  /\ \/ /\ Entry.kind # "ijmp"
        /\ targets' \in SetToSeqs(Entry.to)
        /\ vaArg' = FALSE
        /\ phase' = "link"
        /\ UNCHANGED <<pattern, external, unresolved>>
     \/ /\ Entry.kind = "ijmp"
        /\ targets' = <<>>
        /\ FindVaarg \/ GiveUp
  /\ inserted' = FALSE
  /\ UNCHANGED <<text, respect, builds, pos, nextName, blocks, edges, named, labelToBB,
                 walkVars>>

\* The entry at p has a label in front of it.
UseLabel(p) ==
  /\ IsLabel(text[p - 1])
  /\ targets' = Append(targets, text[p - 1].name)
  /\ pattern' = pattern \ {p}
  /\ UNCHANGED <<text, nextName>>

\* It gets one of BBNameGen, and what is behind it moves.
CreateLabel(p) ==
  /\ ~IsLabel(text[p - 1])
  /\ text' = InsertAt(text, p, FreshLabel(nextName))
  /\ targets' = Append(targets, nextName)
  /\ pattern' = {q + 1 : q \in pattern \ {p}}
  /\ nextName' = nextName + 1

AddTarget ==
  /\ phase = "pattern"
  /\ \E p \in pattern :
       /\ \A q \in pattern : p <= q
       /\ UseLabel(p) \/ CreateLabel(p)
  /\ phase' = IF pattern' = {} THEN "link" ELSE phase
  /\ UNCHANGED <<respect, builds, pos, graphVars, walkVars, vaArg, inserted>>

-----------------------------------------------------------------------------
(* The edges of a jump, one target a step, and the end of its turn.        *)

\* The target of a va_arg jump is marked.
Chain(b, bs) == IF vaArg THEN [bs EXCEPT ![b].chained = TRUE] ELSE bs

\* The last step of a turn of the loop over the targets.
LinkTo(b, bs, es) ==
  /\ blocks' = Chain(b, bs)
  /\ edges' = es \cup {Edge(current', b, FALSE)}
  /\ inserted' = TRUE
  /\ targets' = Tail(targets)
  /\ UNCHANGED <<text, respect, builds, phase, pos, nextName, unresolved,
                 previous, fallThrough, lastEntry, pattern, vaArg>>

Linking == phase = "link" /\ targets # <<>>
Target == Head(targets)

\* The target heads a block already, or will.
LinkKnown ==
  /\ Linking
  /\ Target \in DOMAIN named
  /\ UNCHANGED <<current, named, labelToBB, external>>
  /\ LinkTo(named[Target], blocks, edges)

\* The target is a label that the walk has not come to, or never will.
LinkNew ==
  /\ Linking
  /\ Target \notin DOMAIN named \cup DOMAIN labelToBB
  /\ named' = Maps(named, {Target}, Len(blocks) + 1)
  /\ external' = (external \/ PlaceOf(Target) = {})
  /\ UNCHANGED <<current, labelToBB>>
  /\ LinkTo(Len(blocks) + 1, Append(blocks, NewBlock(Target)), edges)

\* BreakUpBBAtLabel: the out edges move to the second half.
BreakUpEdges(b, new) ==
  {IF e.from = b THEN [e EXCEPT !.from = new] ELSE e : e \in edges}
    \cup {Edge(b, new, TRUE)}

\* Slip: the label is the end of the first half as well.
BreakUpSlip(b, l, p) ==
  Append([blocks EXCEPT ![b].last = p],
         [NewBlock(l) EXCEPT !.first = p, !.last = blocks[b].last])

\* BreakUpBBAtLabel: the second half begins at the label.
BreakUp(b, l, p) ==
  Append([blocks EXCEPT ![b].last = p - 1],
         [NewBlock(l) EXCEPT !.first = p, !.last = blocks[b].last])

\* Slip: the jump's own block is still the first half.
CurrentAfterSlip(b, new) == current

\* The block that the jump is in, which may just have been broken up.
CurrentAfter(b, new) == IF b = current THEN new ELSE current

\* Slip: only the label itself is known to have moved.
MovedLabelsSlip(p, last) == {text[p].name}

\* The labels that are in the second half.
MovedLabels(p, last) == {text[q].name : q \in {r \in p .. last : IsLabel(text[r])}}

\* The target is inside a block.
LinkInside ==
  /\ Linking
  /\ Target \in DOMAIN labelToBB \ DOMAIN named
  /\ LET b == labelToBB[Target]
         new == Len(blocks) + 1
         p == CHOOSE q \in PlaceOf(Target) : TRUE
     IN /\ named' = Maps(named, {Target}, new)
        /\ labelToBB' = Maps(labelToBB, MovedLabels(p, blocks[b].last), new)
        /\ current' = CurrentAfter(b, new)
        /\ LinkTo(new, BreakUp(b, Target, p), BreakUpEdges(b, new))
  /\ UNCHANGED external

\* An instruction that ends its block and leads nowhere leads to the sink.
EndBlock ==
  /\ phase = "link" /\ targets = <<>>
  /\ EndsBasicBlock(Entry)
  /\ fallThrough' = HasFallThrough(Entry)
  /\ previous' = current
  /\ current' = NONE
  /\ edges' = edges \cup IF ~inserted /\ ~HasFallThrough(Entry)
                         THEN {Edge(current, SINK, TRUE)} ELSE {}
  /\ phase' = "walk"
  /\ pos' = pos + 1
  /\ UNCHANGED <<text, respect, builds, nextName, blocks, named, labelToBB,
                 external, unresolved, lastEntry, linkVars>>

\* What is left after the loop.
Finish ==
  /\ phase = "finish" \/ (phase = "walk" /\ pos > Len(text))
  /\ edges' = edges
       \cup IF fallThrough THEN {Edge(previous, SINK, TRUE)} ELSE {}
       \cup IF /\ current # NONE
               /\ IsInstruction(text[lastEntry]) /\ HasFallThrough(text[lastEntry])
            THEN {Edge(current, SINK, TRUE)} ELSE {}
  /\ phase' = "done"
  /\ UNCHANGED <<text, respect, builds, pos, nextName, blocks, named, labelToBB,
                 external, unresolved, walkVars, linkVars>>

\* GetCFG after InvalidateCFG, or with the other flag: the text is as the
\* builders before have left it.
GetCFG ==
  /\ phase = "done"
  /\ builds < MaxBuilds
  /\ builds' = builds + 1
  /\ respect' \in BOOLEAN
  /\ phase' = "walk" /\ pos' = 1
  /\ blocks' = <<NewBlock(NONE), NewBlock(NONE)>> /\ edges' = {}
  /\ named' = <<>> /\ labelToBB' = <<>>
  /\ external' = FALSE /\ unresolved' = FALSE
  /\ current' = NONE /\ previous' = SOURCE
  /\ fallThrough' = TRUE
  /\ lastEntry' = NONE
  /\ targets' = <<>> /\ pattern' = {} /\ vaArg' = FALSE /\ inserted' = FALSE
  /\ UNCHANGED <<text, nextName>>

Next ==
  \/ SkipDirective \/ StopAtSize \/ OpenBlock \/ StayInBlock
  \/ GetTargets \/ AddTarget
  \/ LinkKnown \/ LinkNew \/ LinkInside
  \/ EndBlock
  \/ Finish \/ GetCFG

Spec == Init /\ [][Next]_vars

-----------------------------------------------------------------------------
(* What the graph says.                                                    *)

Flow == INSTANCE ControlFlow
Block == DOMAIN blocks
In(b) == blocks[b].first .. blocks[b].last
InsnsOf(b) == {p \in In(b) \cap DOMAIN text : IsInstruction(text[p])}

\* The blocks that control comes to with block b before it meets an
\* instruction, in at most as many steps as there are blocks.
Passing(b) ==
  LET after[n \in 0 .. Len(blocks)] ==
        IF n = 0 THEN {b}
        ELSE LET before == after[n - 1]
                 empty == {c \in before : InsnsOf(c) = {}}
             IN before \cup {e.to : e \in {d \in edges : d.from \in empty}}
  IN after[Len(blocks)]

\* Where control is when it comes to block b.
Arrives(b) ==
  UNION {CASE c = SINK -> {Flow!EXIT}
           [] InsnsOf(c) # {} -> {Flow!From(text, blocks[c].first)}
           [] blocks[c].first # NONE -> {}
           [] OTHER -> {Flow!At(text, blocks[c].label)}
         : c \in Passing(b)}

\* Where the graph says that control goes from the instruction at p.
GraphSuccessors(p) ==
  UNION {IF Flow!From(text, p + 1) \in In(b)
         THEN {Flow!From(text, p + 1)}
         ELSE UNION {Arrives(e.to) : e \in {d \in edges : d.from = b}}
         : b \in {c \in Block : p \in In(c)}}

\* What the walk has put into blocks so far.
Placed ==
  {p \in DOMAIN text :
     /\ BelongsInBasicBlock(text[p])
     /\ p < pos \/ (p = pos /\ phase \in {"targets", "pattern", "link"})}

\* At any time every entry that the walk has come to is in exactly one block,
\* however many blocks were broken up behind the walk.
OneBlockEach ==
  \A p \in Placed : \E b \in Block : \A c \in Block : p \in In(c) <=> c = b

\* In a conservative graph a label that is in a block heads one.
LabelsHeadBlocks ==
  phase = "done" /\ respect =>
    \A b \in Block : \A p \in In(b) \cap DOMAIN text :
      IsLabel(text[p]) => p = blocks[b].first

\* A label is found in the block it is in, and a block that has a name heads
\* its entries with that label: the two maps agree however blocks are broken up.
MapsAreRight ==
  /\ LabelsHeadBlocks
  /\ \A l \in DOMAIN labelToBB : 
       /\ PlaceOf(l) \subseteq In(labelToBB[l])
       /\ l \in DOMAIN named => named[l] = labelToBB[l]
  /\ \A l \in DOMAIN named :
       LET b == named[l] IN
       /\ blocks[b].label = l
       /\ blocks[b].first # NONE =>
            PlaceOf(l) = IF IsLabel(text[blocks[b].first]) THEN {blocks[b].first} ELSE {}

\* A function that ends with a label in a block, as after a call that does not
\* return, is left by that block without an edge to the sink.
EndsInLabel == current # NONE /\ IsLabel(text[lastEntry])

\* The graph leads where the text leads, and nowhere else.
Exact ==
  \A p \in Flow!Instructions(text) :
    LET graph == GraphSuccessors(p)
        code == Flow!Successors(text, p)
    IN /\ graph \subseteq code
       /\ code \ graph \subseteq IF EndsInLabel THEN {Flow!EXIT} ELSE {}

\* An earlier build has linked labels of its own into the text.
Relabelled == builds > 1 /\ \E p \in DOMAIN text : text[p].name >= FirstFresh

\* IsWellFormed() is true just if every jump is resolved and stays inside.
WellFormedIsKnown ==
  phase = "done" =>
    (~external /\ ~unresolved
       <=> \A p \in Flow!Instructions(text) :
             /\ Flow!ELSEWHERE \notin Flow!Successors(text, p)
             /\ text[p].kind = "ijmp" => Flow!Prologue(text, p) # {})

\* The blocks that a va_arg jump goes to are marked as chained, and no others.
ChainedAreTargets ==
  phase = "done" =>
    \A b \in Block :
      blocks[b].chained
        <=> \E e \in edges :
              /\ e.to = b /\ ~e.fall
              /\ InsnsOf(e.from) # {}
              /\ text[Max(InsnsOf(e.from))].kind = "ijmp"

\* However blocks were broken up on the way, and whatever graphs the function
\* had before, the graph is exact, as long as no labels of BBNameGen are in
\* the text that it is built from; and the passes are told when it is not
\* well-formed, and which blocks belong to a va_arg jump.
FlowIsExact ==
  /\ phase = "done" /\ ~Relabelled => Exact
  /\ WellFormedIsKnown
  /\ ChainedAreTargets
=============================================================================
