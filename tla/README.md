# A verification development for MAO

MAO (the micro-architectural optimizer) reads x86 assembly through an embedded
GNU assembler, keeps it as a list of *entries* (instructions, labels,
directives), runs a list of passes over it, and prints it again.  A pass must
never change what the program computes, and the next pass must find a
consistent list.  This directory holds TLA+ models of the parts of MAO that
carry that promise, TLC runs that check them on small instances, and proofs
checked by TLAPS.

Source paths below are relative to the repository's `src/`.

## 1. The system

| Part | State it keeps | Operations | What can go wrong |
|---|---|---|---|
| Entry list (`MaoEntry`, `MaoSection`, `MaoFunction.h`) | `next_`/`prev_` of every entry; first and last entry of every function and subsection; `end_entry_` | `LinkBefore`, `LinkAfter`, `Unlink`, `set_last_entry` | one edit writes pointers in up to six objects; edits at the borders of functions and sections |
| Compilation unit (`MaoUnit`) | the entry vector, entry -> function, entry -> subsection, sections, the section stack | `AddEntry`, `Create*`, `DeleteEntry`, `FindFunctions`, push/pop/previous section | maps that disagree with the list; assertions in deletion |
| Control-flow graph (`MaoCFG`) | a CFG per function, cached | `CFGBuilder::Go`, `GetCFG`, `InvalidateCFG` | blocks broken up while the walk holds them; a build that edits the text; a cached graph of text that has changed |
| Loop structure (`MaoLoops`) | a loop nest per function, cached | `FindLoops`, `GetLSG` | sets of collapsed loops that disagree with the loops; points into a CFG that was freed |
| Data flow (`MaoDataFlow`, `MaoLiveness`, `MaoReachingDefs`) | entry and exit set of every block | `Solve`, `GetLive`, `GetReachingDefs` | fixed point, order of visits, bound on passes |
| Relaxer (`MaoRelax`) | fragments while it runs; sizes and offsets per section, cached | `Go`, `GetSizeMap`, `InvalidateSizeMap` | fixed point of sizes; opcodes not put back; stale sizes |
| Passes (`MaoPasses`, `MaoOptions`, `MaoPlugin`) | the pass list, options, deletions asked for | `Run`, `Go`, option parsing | deletion while iterating; results of one pass that outlive the edits of the next |
| Scheduler (`plugins/MaoScheduler.cc`) | dependence graph, heights, ready list of one block | `FormDependenceDag`, `ComputeDependenceHeights`, `Schedule` | a missing dependence; a node lost; no end |
| Other passes (`plugins/`) | none between functions | pattern matches and edits | a rewrite that is not an equivalence |
| Front end (`ir.cc`, hooks in gas) | gas's and MAO's accounts of the current section | callbacks per statement | two accounts of sections that disagree |

MAO is one thread.  Nothing runs concurrently and nothing is persisted, so
there are no interleavings of threads, no messages and no recovery.  What makes
it hard is *order*: any sequence of edits by passes must leave the list in
shape, work lists must run empty, a fixed point must be the right one whatever
the order of visits, and information cached before an edit is read after it.
The parts interact by calls: the passes edit through the entry list and the
unit, and ask for CFG, loops, sizes and data flow, each of which walks the list
between the first and last entries of a function or subsection.

`PROJECT.json` lists every part with its status, and the hazards one by one
with the line where each bites and the properties that watch it.

## 2. The modules

| Module | What it is |
|---|---|
| `EntrySeq` | what the entry list promises: a sequence, and chains in the hands of a pass |
| `EntryList` | the pointers and maps, with every operation that edits them; the passes are its environment |
| `EntryListProofs` | links are mutual but for those that `torn` names, the section is one path, ranges are right, deletion aborts only at the end, and `EntryList` implements `EntrySeq`; for every instance |
| `DataFlow` | `DFProblem::Solve`, for any problem |
| `Programs` | what a data-flow problem reads of a function, and paths through it |
| `Liveness`, `ReachingDefs` | the two problems, their queries, and what live and reaching mean on paths |
| `FlowProblems` | the solver on the two problems: what the answers must be |
| `DataFlowProofs` | the solver returns the least solution, for every problem, and the answers are those of the paths, for every program |
| `Scheduler` | the scheduler on one block: both scans, heights, list scheduling |
| `SchedulerProofs` | a schedule keeps every node, dependence and control operation in place, and with them what the block computes, for blocks of any size |
| `BlockEffect` | symbolic execution of a block: what a schedule must keep |
| `CFGBuilder` | the walk that builds the control-flow graph of a function |
| `CFGBuilderProofs` | every entry is in one block and the maps from labels are right, for every function |
| `ControlFlow` | where a processor may go in the function's text: what the graph must say |
| `Loops` | the loop finder, and loops defined by connected parts and dominators |
| `Sections` | reading and writing a file: gas's section stack beside MAO's subsections |
| `SectionsProofs` | MAO's account of sections is gas's until something in `lost`; section lists, and what the written file assembles to; for every file |
| `FunctionFinder` | `FindFunctions` on what `Sections` has read |
| `FunctionFinderProofs` | functions are the ranges passes rely on, and all code is in one but for what is behind `.size`, for every file |
| `Relaxer` | fragments, the fixed point, sizes and offsets of one section |
| `RelaxerProofs` | jumps reach, alignments align, relaxing leaves no trace, and it returns, for sections of any entries |
| `Passes` | the pass manager, what passes ask for, edit and invalidate, and the cached graphs, loops and sizes |
| `PassesProofs` | the walked graph is alive, loops and sizes are read of what is there, and no deletion aborts, but in named lists; for every list of passes |
| `Machine` | a processor of two registers, a stack and four flags: what an instruction does |
| `Peepholes` | seven peephole passes on one block |
| `MC*` | instances for TLC |

`FlowProblems` composes the solver with both problems over the programs of
`Programs`; `Scheduler` is checked against `BlockEffect`, `CFGBuilder` against an instance of `ControlFlow`;
`FunctionFinder` extends `Sections` and goes on where the file ends; `Passes`
puts the passes, the entry list, the graph cache, the loop cache and the size
cache together, each of them reduced to what the others notice of it;
`Peepholes` is checked against `Machine`.

### EntryList

A state is one section: `next`, `prev`, the bounds `fnFirst`, `fnLast`,
`fnEnd`, `ssFirst`, `ssLast`, the maps `entryFn` and `entrySs`, and the set
`entryVector` of entries whose slot is not NULL.  `held` is the set of entries
that a pass has in local variables and not in the section.  `aborted` says that
a `MAO_ASSERT` has failed.  Two variables remember what `SubSection::set_last_entry`
and `Create*` get wrong: `torn`, the entries whose links the last edit has
spoiled, and `strayed`, that an entry was linked among those of a subsection
other than the one it is mapped to.

- `Create`, `LinkBefore`, `LinkAfter`, `Unlink`, `DeleteEntry` are the
  functions of those names with everything they call.  `LastLinkNext` and
  `LastLinkPrev` are the side of `SubSection::set_last_entry` that one does not
  expect: it links its argument after the old last entry.  It is called when the
  last entry of a subsection leaves, with the entry before it, and when a chain
  goes behind it, with the last entry of the chain; `Spoils` notes for `torn`
  what that leaves wrong.
- `Init` is what `AddEntry` and `FindFunctions` leave for one of the given
  `Layouts`.
- The `Pass*` actions are what the passes in `plugins/` do with those
  operations: they create entries and link them into the function they were
  created for, unlink runs of instructions or one `.p2align` (never the first
  entry of a function) and link them back into the same function, and delete
  instructions and `.p2align`.  The scheduler unlinks and links one node, the
  alignment passes insert `.p2align` and nops, and the peepholes delete.  A
  function may go on in a second subsection, and a subsection may end in an
  instruction, as where a table of jumps is put in between
  (`tests/switches.o0.s`).  Once the list is torn the model stops: what a pass
  makes of wrong links is undefined behaviour or an endless walk and is not
  followed.

### DataFlow, Liveness, ReachingDefs

One `Visit` is the body of the inner loop of `Solve` for one block, `EndPass`
the `++num_iterations`, the assertion and `while (dirty)`.  The direction of a
problem is in its `sources`.  As in the code, "entry" is the set on the side
where the flow comes in, which for liveness is the end of the block.  Liveness
gen and kill go over the instructions in the order of the code (`Past`, which is
the loop of all of these functions);
reaching definitions uses one bit for each pair of block and register, as
`index_map_` does.  Registers are what the use and def masks hold; the masks
themselves are tables.

### Scheduler

`FormNode` is one turn of the forward loop of `FormDependenceDag`,
`FinishForward` the output dependences after it and the early return where the
block ends its section, `AntiNode` one turn of the backward loop.
`StartHeights`, `Postpone` and `Measure` are the work list of
`ComputeDependenceHeights`.  `StartSchedule`, `ScheduleNext` and `Finish` are
the loop of `Schedule`, with `ScheduleNode` as the move of one node to the
place after `head`.  A node carries the masks and the three predicates that the
scheduler asks of an instruction; node building (lock prefixes, thunk calls,
TLS sequences, directives) is not modelled.

### CFGBuilder

The state is what `CFGBuilder::Go` keeps while it walks over the entries: the
blocks and edges so far, the maps `basic_block_map_` (`named`) and
`label_to_bb_map_` (`labelToBB`), the local variables of the loop, and the text
itself, because `GetTargets` links labels into it.  One turn of the loop is
split where it calls and loops: `SkipDirective`, `StopAtSize`, `OpenBlock` and
`StayInBlock` up to the targets of a jump; `GetTargets`, and `AddTarget` for one
entry of a va_arg pattern, which may get a label; `LinkKnown`, `LinkNew` and `LinkInside` for one target each; `EndBlock`.  `Finish` is what follows the
loop.  `GetCFG` builds once more, after `InvalidateCFG` or with the other
`conservative` flag: the scheduler asks for a conservative graph, the other
passes for one that is not.  A `text` is a sequence of entries of a dozen kinds;
which table pattern an indirect jump matches, and what its table holds, is in
the entry.  The targets of a table come in any order, as they do from a set of
pointers.

### Loops

`Visit` and `Leave` are the recursion of `DFS`, with `stack` for its calls;
`SortPreds` is step b; `StartHeader`, `Chase`, `GiveUp` and `EndHeader` are
steps d and e for one header, one node of the work list a step;
`CalculateNestingLevel` is the function of that name.  `FindSet` compresses
paths, and where the code calls it on a copy of a node that node's own link is
left alone.  The order of out edges, of in edges (which decides the `bottom` of
a loop) and of the work list is free.

### Sections, FunctionFinder

gas keeps `now`, `previous` and `gasStack` (`now_seg`, `previous_section`,
`section_stack`); MAO keeps `unit`: the entries with their links, the
subsections in the order they were opened, the current and the previous one and
its own stack.  One action is one statement of the file with what gas does and
what the callback of `ir.cc` makes of it, `AddEntry` included, which may open
the start section, the default one or a named one before it appends.  MAO
prints no `.pushsection`, `.popsection` or `.previous`: it turns each into
`.section` directives.  `Written` is the file that `PrintMaoUnit` prints and
`WrittenPlace` where gas puts it when it reads that file; `place` is where gas
put the original.  `lost` names the ways in which MAO's account has lost touch.

`FindFunction` is one symbol of type function, from its label to its end,
`FindUnnamed` one section whose head belongs to no function.  The walk itself
changes nothing but the function being made, so it is one step.

### Relaxer, RelaxerProofs

`BuildFragments` folds over the entries of the section, `Estimate` is the first
half of gas's `relax_segment` with `md_estimate_size_before_relax`, `Sweep` one
turn of its second half, and `Measure` reads the sizes off the fragments and
puts the opcodes back.  `relax_segment` itself is in binutils, not in this
repository; it is marked external, and modelled as the loop that `Go` expects,
with the limits and lengths of the repository's `md_relax_table`.
`RelaxAgain` is a pass that invalidates and asks again.

### Passes, PassesProofs

A pass is its `Script`: the results it asks for in order, and the step that
does its work.  `fn`, `pos` and `steps` are the two loops of
`MaoFunctionPassManager::Go`.  `unit` has entries with their links and owner,
the bounds of functions, and the size map; a deleted entry keeps its own
pointers, as in the code, which never reads it again but through a stale block.
`cfg` holds the blocks as pairs of pointers and an id, `lsg` the id of the graph
that the loops point into.  A walk over a block (`Walks`) follows `next` until
the entry after the block's last one, and goes astray when it misses it.
`misread` collects the stale results that a pass has read.  Where a pass picks
places by a heuristic (alignment of loops, separation of branches, moves of the
scheduler, nops at random) any choice is a step.  `meant` is what the text did
when it was parsed: labels, jumps and ends in order, with the sum added and the
number of loads before each.

### Machine, Peepholes

`Machine` gives an instruction a meaning on registers of three widths (scaled
from 64, 32 and 8 bits to 3, 2 and 1), two cells of memory and four flags; it is
the reference and stands for no code.  In `Peepholes` a walk visits the entries
of one block; each pass has one action for its pattern, whose guard holds every
condition of the code, and `GoOn` where there is none.  What is marked is
deleted when the walk is done.  The def masks of `MaoDefs.tbl` are `DefMask` for
the instructions of the repertoire.

### Slips

An operator named `...Slip` is a plausible mistake in the definition below it:
a neighbour not told, a guard dropped, a reset forgotten.  No specification
uses one.  Putting it in the place of the definition makes TLC report the
property that `PROJECT.json` pairs with it, which shows that the property
depends on the code.

## 3. The runs

| Run | Question | Answer |
|---|---|---|
| `MCEntryList` | Do links, ranges of functions and subsections and the abstract sequence survive every order of edits? | yes, but for the cases of `torn` and `strayed` |
| `MCDataFlow` | Does the solver end with the least solution, and do its answers mean what the paths say? | yes |
| `MCScheduler` | Does every move keep what the block computes, and does the pass end? | yes |
| `MCSchedulerAtEnd` | ... for a block at the end of its section? | no: `SameEffect` |
| `MCCFGBuilder` | Does the graph say where control goes, whichever blocks were broken up? | yes |
| `MCLoops` | Are the loops the strongly connected parts of the graph, rightly nested and called reducible? | yes |
| `MCSections` | Are section lists in order, and is what MAO writes assembled where the original was? | yes, but for the cases of `lost` |
| `MCFunctionFinder` | Are functions the ranges passes rely on, and is all code in one? | yes, but for second names and code behind `.size` |
| `MCRelaxer` | Does relaxing end, with sizes by which jumps reach and alignments align, and can it be done again? | yes |
| `MCPasses` | Do lists of passes keep the code, and which of them read stale graphs, loops or sizes? | they do; only the combinations named below |
| `MCPassesRescheduled` | ... when the scheduler runs twice around an edit? | no: `ReuseKeepsCode` |
| `MCPeepholes` | Does every rewrite compute what it replaces? | yes, but for the exceptions below |

What each property says is in the comment above it; in short:

- `PtrInv`, `RangesAreRight`, `AbortOnlyWhenLast`, `RefinesEntrySeq`: links are
  mutual but at the entries in `torn`; until the list is torn, walks over a
  function or a subsection visit its own entries and no others, and deletion
  refuses exactly the one entry that a function or a subsection has left; and the
  whole implements `EntrySeq`, the step that tears it included: it still removes
  what it was to remove, or inserts the last entry of the chain and loses the rest.
- `SolvedIsSolution`, `BelowEverySolution`, `BitsAreKept`, `IterationBound`,
  `LiveIsPathLive`, `ReachingIsPathReaching`, `Terminates`: the solver returns
  the least solution in bounded time, and its queries mean what paths say.
- `EdgesRespected`, `ControlStays`, `NothingLeftBehind`, `PrioritiesAreRight`,
  `SameEffect`, `Terminates`: a schedule is complete, keeps dependences, and
  keeps what the block computes.
- `OneBlockEach`, `MapsAreRight`, `FlowIsExact`: blocks partition the text at
  any time, the two maps agree, and the graph is the flow of control.
- `LoopsAreComponents`, `NaturalLoops`, `Terminates`: what the loop finder calls
  a loop is one.
- `SectionsAreLists`, `AssembledAlike`, `OwnSection`; `RangesAreOwned`,
  `CodeHasFunction`: what the parser leaves is what the passes start from.
- `JumpsReach`, `AlignsAlign`, `LeavesNoTrace`, `GoReturns`: sizes and offsets
  are those of a program that can be assembled, whenever they are asked for.
- `CodeIsKept`, `WalksEnd`, `HeldIsAlive`, `LoopsAreAlive`, `SizesAreCurrent`,
  `OnlyUnsizedAbort`: what may and may not happen as results outlive edits.
- `DropsAreSound`, `RewritesAreSound`: a peephole keeps registers, memory, and
  the sign and zero flags at the block's end, whatever jump reads them there; and
  the carry and overflow flags, unless it is a sum or difference whose own were
  the last ones.

**Bounds.**  `MCEntryList`: three sections of five to seven entries, chosen so
that a border of functions, a border of subsections, a function of a single
instruction, a subsection that ends in an instruction, and a function in two
subsections occur; one fresh entry and at most two held (`MaxHeld`), so that
chains, and two pending edits, occur.  Only the relation of an entry to its
neighbours and to the borders matters to an edit, and every such relation
appears.  `MCDataFlow`: eight shapes of three blocks, among them a self loop,
nested loops, an irreducible loop and unreachable code, each with every filling
of up to one, two and two instructions that use, define, or do both; bits of a
problem are independent, so one register is enough.  `MCScheduler`: every block of four
instructions out of ten, with those and a jump or a return at the end, on a
register, the flags and the stack pointer; once more as the body of a loop, and with a
`max_steps` that stops after two moves.  Three nodes are the least for an
output dependence around a read; four leave room for one that has nothing to do
with them.  `MCCFGBuilder`: every function of four entries over eight other
kinds and two labels, every one of five over labels, plain instructions and
jumps of both kinds that go on, functions that end in a label and `.size`, and
prologues with up to three stores.  A block is broken up by one label and one
later jump; two labels and a jump between or around them give every order in
which that happens, and a table that goes to both labels breaks up two halves of
one block.  A graph is built at most twice (`MaxBuilds`).  `MCLoops`: every
graph of four blocks with at most two ways out of each, in every order of the
walk, which has nests three deep and irreducible loops in and around others;
and four graphs of seven blocks.  `kMaxNonBackPreds` is scaled from 32768 to 2,
so that giving up occurs.

`MCSections`: every file of up to seven entries (`MaxEntries`) over two
sections, two subsection numbers and a stack two deep (`MaxDepth`); a push, a
change of section inside it, a pop and a statement after it fit, and so do two
pushes.  A file with a label or a `.size` stops at four (`Bound`), since the
properties of this run treat those like any other statement.  `MCFunctionFinder`: every file of up to six entries over a code and a
data section and two symbols, of type function or not, without a section stack
(`MaxDepth` 0), which does not matter to the search.  `MCRelaxer`: every section
of up to four entries out of ten, and families of longer ones in which one jump
pushes another out of reach, an alignment takes the growth back, or two jumps
pull at each other's fill; each is relaxed twice (`MaxRuns`).  The lengths are
within a few bytes of the reach of a short jump, where the decision falls.
`MCPasses`: every list of one to three of the twelve passes, over two files of
two functions that hold each pattern the passes edit, among them a redundant
extension, adds in a row, a loop, a block that ends in a nop before an
alignment, and a function whose last instruction is a jump; `MaxEntries` of 30 is never reached by three passes.  A stale
result needs a pass that asks, one that edits and one that asks again, so three
are the least, and a second function sees what the first one left in the
section.  `MCPeepholes`: every block of four instructions out of seven to
fourteen for each pass, with the pattern, near misses of it, what may stand in
between and what reads the result; 64 start states; `lookahead` is 2.  Each
pattern is of two instructions, so four leave room for one between and one
behind.  All four flags are compared at the end of the block, which stands for
every conditional jump that may read them.

**Fairness.**  `FairSpec` of `DataFlow`, `Scheduler` and `Loops` has weak fairness of
the whole next-state relation.  Each models one call in a program of one
thread: nothing else can run until it returns, and the only way not to make a
step is to have none left.  `EntryList` claims no liveness: its environment is
passes that may stop at any time.  `Relaxer` needs none: `GoReturns` bounds the
number of sweeps, and `WalksEnd` says which walks may miss their end.

Deadlock is not checked: a solved problem, a scheduled block, a graph and a
nest of loops are done and stop, and so does a list whose passes are done.

## 4. What the runs found

Two runs end in a counterexample to something the source says:

- `MCSchedulerAtEnd`: a block at the end of its section is scheduled without
  anti dependences (`plugins/MaoScheduler.cc:943`).
- `MCPassesRescheduled`: `GetCFG` takes "built with the same flags" for "of the
  same text" (`MaoCFG.cc:78`).  With `SCHED,ADD2INC,SCHED` the second scheduler
  gets the graph of the first; its blocks still begin or end with `add`
  instructions that have been replaced, and moving one links it back in.

The properties of the passing runs name further cases as exceptions.  Each is a
disjunct or hypothesis of its own, so that anything else still fails.

| Where | What the code does there | In the model |
|---|---|---|
| `MaoSection.cc:83` | `set_last_entry` links as well as moves; from `Unlink` or `DeleteEntry` of a subsection's last entry it makes the new last entry's `prev_` point to the removed one | `torn` |
| `MaoEntry.cc:575` | `LinkAfter` of a chain of several entries behind a subsection's last entry goes the same way: its `next_` skips to the last entry of the chain, and the others are lost from the list | `torn`, `InsertLast` |
| `MaoUnit.cc:336` | an entry created for a function that goes on in a second subsection is mapped to its first; linked in the second, the walk of the function visits it, and that of a subsection may not be what the map says | `strayed` |
| `MaoDataFlow.cc:121` | backward problems visit blocks forwards, so liveness takes a pass a block and a long function fails the assertion | `IterationBound` is the number of blocks and one |
| `MaoReachingDefs.cc:251` | a definition below the instruction in its own block, which comes round a loop, is not returned | `Below` in `ReachingIsPathReaching` |
| `MaoCFG.cc:890` | labels linked between the stores of a va_arg prologue break the pattern for the next build | `Relabelled` |
| `MaoCFG.cc:364` | a function that ends with a label inside a block gives it no edge to the sink | `EndsInLabel` |
| `MaoUnit.cc:604` | `.subsection` before any section opens the start section as well | `lost`: "first" |
| `ir.cc:143` | the numbers of `.text n`, `.data n`, `.bss n`, and of the subsection that `.previous` returns to, are not handed over | `lost`: "number" |
| `MaoUnit.cc:1044` | a numbered `.pushsection` makes two subsections where gas makes one change, so that `.previous` behind it goes back to the wrong one | `lost`: "pushed", "name" |
| `MaoUnit.cc:1061` | returning to the start section names a section that the file does not have | `lost`: "start" |
| `ir.cc:502` | `.struct` pushes in MAO and not in gas | `lost`: "struct" |
| `MaoUnit.cc:805` | of two labels of functions in a row both get the code behind them as their range, and the map names only the one taken last | `Alias` |
| `MaoUnit.cc:905` | code behind the `.size` of a function belongs to none; a deleted unnamed function stays in the map | `CodeHasFunction` |
| `MaoRelax.cc:421` | floats have a size and no place in a fragment: offsets behind them are not those that jumps were sized by | `HasFloats` |
| `MaoLoops.cc:477` | loops are cached whatever the flag and outlive their graph: `SCHED` and `LOOP16` in one list, or `LOOP16,NOPIN,LOOP16`, read loops of a graph that was freed | `LoopsAreAlive` |
| `MaoRelax.cc:225` | sizes are cached until a pass invalidates them, which most passes that edit do not | `SizesAreCurrent` |
| `plugins/MaoBranchSeparator.cc:221` | BRSEP aligns the function's head after it has remade the sizes; deleting that alignment, as in `BRSEP,NOPKILL`, fails the assertion at `MaoUnit.cc:1004` | `OnlyUnsizedAbort` |
| `MaoCFG.cc:81` | as in `MCPassesRescheduled` | `Rescheduled` |
| `plugins/MaoNopKiller.cc:77` | deletes the nop a block ends with and the `.p2align` behind it; the graph is kept, `EntryEnd` (`MaoCFG.cc:30`) finds the `.p2align` in the deleted nop, and a later walk of the block, as in `ADDADD,NOPKILL,ZEE` or `ADDADD,NOPKILL,PALIAS`, passes its end and runs off the list | `KilledBetween` |
| `plugins/MaoAdd2Inc.cc:26`, and the other passes | the carry or overflow flag of the instruction that is dropped or rewritten is read below it in the block, or may be by a jump behind the block: after `sub`, `add` or `sbb` REDTEST drops a `test` that clears both | `LosesCarry`, `LeavesCarry` |
| `plugins/MaoNopKiller.cc:64` | a 32-bit `xchg` of a register with itself clears its upper half | `ClearsUpper` |
| `plugins/MaoAddAdd.cc:134` | an addition and a subtraction are added up; a sum leaves the range of an immediate | `MixedSigns`, `OutOfRange` |
| `plugins/MaoRedundantMemMove.cc:103` | loads of different widths have one opcode; a write to memory whose operand is not the last goes unseen | `OtherWidth`, `UnseenWrite` |

`HasFloats`, `Relabelled`, `MixedSigns` and `OutOfRange` are hazards that no
property covers: the model reaches them, the code goes wrong there, and the
properties step aside.  `LosesCarry` and `LeavesCarry` leave of REDTEST's hazard the sign
and zero flags, and all flags after `and` and `xor`; `torn` and `strayed` leave
what is said above of the steps that tear the list and of functions.

Seen while modelling, in no model: `end_entry_` is not updated when the entry
after a function changes (`MaoFunction.h:60`);
`FindBBsInStraightLineLoops` takes a header with an edge to itself and a larger
loop around it for a loop of one block (`plugins/MaoScheduler.cc:359`); and
`HandleFill` multiplies by the size only where the size is one
(`MaoRelax.cc:712`).  The example at `MaoLoops.h:240` gives a leaf loop
nesting level 1, where the code, and `Loops` with it, has 0.

## 5. What is proved

All proofs are checked by `tlapm` with SMT, Zenon and LS4; nothing is assumed
beyond the named ASSUMEs of the modules and the hypothesis written in a theorem.

**EntryListProofs.**  For every set of entries, functions and subsections, and
all layouts: `TypeTheorem`, `LinksTheorem` (`PtrInv`) and `HeldTheorem`, that
held chains stay apart from the section; `PathsTheorem`, and from it
`RangesTheorem` (`RangesAreRight`), `AbortTheorem` (`AbortOnlyWhenLast`) and
`RefinementTheorem`: `Spec => RefinesEntrySeq`, every operation of the list is
one step, or none, of the sequence that `EntrySeq` promises.  There is no
hypothesis: subsections may end in anything, and functions may span them.

Links alone need little more than that links stay among entries the unit knows
and that a fresh entry has none (`Core`).  In a step that tears the list they are
shown of the writes before `set_last_entry`, whose own writes touch only the
entries that `torn` names; where nothing is torn all links are mutual (`Mutual`).

But mutual links admit a section that falls into two cycles, or a range that ends
in the wrong owner.  The invariant behind `PathsTheorem` is `JInv`: while nothing
is torn, `Sound` holds.  That says (`PathsInv`) that the section is a path, as a
sequence, with the entries of the list as its range, and every held entry on a
path of its own that belongs to one function; that the entries of each function
lie between its two pointers on it, in one piece; and that the walk of the section starts
at the first subsection (`HeadInv`).  Until an entry has strayed, it says the same
of subsections (`SubSectionsInv`).  The argument has three layers.  The first is
about sequences and two functions only: splicing a path into another, or cutting
a run out, gives the paths that one expects (`SplicePath`, `CutPath`,
`TakenPath`), and owners' runs stay runs (`InsertOwn`, `RemoveOwn`, and their
counterparts for other owners).  Then each of `LinkBefore`, `LinkAfter`, `Unlink`
and `DeleteEntry` is shown to be a splice or a cut: what is linked goes to the
owner of the entry it is linked to, and what leaves is in one function and never
all of it.  The rest reads each property off the path.

A step that tears the list has to be a step of `EntrySeq` too.  Its `next` gives
the new text; that the links are a path is shown with the one wrong `prev_`
mended, since the walk that `Text` stands for never reads it (`TornPath`), and a
chain of which only the last entry arrives is the chain of that entry alone,
linked behind the anchor (`RefinedInsertLast`).  The walks are recursive over
the list, so what they return is not computed but shown by the least place at
which it would be wrong.

**DataFlowProofs.**  For every problem: `TypeTheorem`; `SolutionTheorem`, that
`Solve` leaves its loop only with a solution; `LeastTheorem`, that it never
holds a bit that some solution lacks, so what it returns is the least one;
`KeptTheorem`, that a visit, which overwrites a set, never loses a bit.  The
invariant behind `SolutionTheorem` is that after the blocks before `pos` and
with `dirty` still false those blocks are up to date; the one behind
`KeptTheorem` that every entry set is within the join of its sources.
`PassesTheorem` (`IterationBound`): one pass a block and one more, for every
graph, order and transfer.  That sets only grow bounds the passes by blocks
times bits; the better bound follows one bit through the passes.  For every bit
(`SpreadInv`) no block waits for it any more, and no pass will move it, or this
pass has added it to a block that lacked it, or the passes before this one all
have; a pass that was dirty has such a bit (`DirtyInv`), so there is a block for
each pass.  `AssertionTheorem`: the assertion on `kMaxNumberOfIterations` does
not fail for a function of fewer blocks.

The second half of the module says what the least solutions are.  `LiveTheorem`
(`LiveIsPathLive`) and `ReachingTheorem` (`ReachingIsPathReaching`) hold for every
program, that is, every graph, every order of blocks and every use and def mask;
they use `FlowProblemsAssumption`, that a problem is one that `Liveness` or
`ReachingDefs` makes of a program, whose edges lead to its blocks and whose uses
are registers there are.  For both, the sets that paths define are shown to solve
the equations (`LiveSolution`, `ReachSolution`) and to lie within every solution
(`LiveBelow`, `ReachBelow`); so they are what `Solve` returns, and the queries,
which go on from there over the instructions of one block, give the sets of every
place in it (`LiveInBlock`, `ReachInBlock`).  For reaching definitions a bit is all
definitions of a register in a block: that the block's gen and kill sets, made of
all its definitions at once, do what its instructions do one by one is
`AllAtOnce`, and that looking through the block finds the definition that reaches
(`FoundDefs`) needs that the way out of a block leads past all below it
(`FlowWithin`).  Paths are what `Reach` computes by widening a set as often as
there are points; that this is closed is a matter of counting (`ReachClosed`),
that it is the least closed set an induction (`ReachLeast`).  `Reach` and `Past`
are recursive functions, and an induction on their argument is the least number at
which the claim would fail.

**CFGBuilderProofs.**  For every function and any number of builds:
`BlocksTheorem` (`OneBlockEach`) and `MapsTheorem` (`MapsAreRight`).  The
invariant has four parts.  The text: names below the counter of `BBNameGen`, one
place for each label (`TextInv`), which labels that `GetTargets` adds do not
spoil, as they are new and ahead of the walk (`PatternInv`).  The blocks:
each is empty or a range of what was walked (`Ranges`), no two ranges meet
(`Apart`), only directives are between them (`Covered`), and the block that is
being filled is behind all others (`CurrentInv`).  The names: a block that has
a name begins with that label unless it is nowhere (`NamedInv`), a block that
begins with a label has its name (`HeadInv`).  And the labels inside blocks:
`label_to_bb_map_` has them all (`KnownInv`), each with a block it is in
(`LabelInv`).  The step that needs everything is `LinkInside`: the target has a
block but heads none, so it is behind that block's first entry, both halves
have entries, and the labels of the second half - which by `KnownInv` and
`Apart` had just that block - name no block and may go over to the new one.
With `respect_orig_labels_` this step cannot happen (`RespectInv`).
`FlowIsExact` stays with TLC: it follows the edges through empty blocks.

**SchedulerProofs.**  For a block of any size: `PermutationTheorem`, that
`order` is a permutation of the nodes; `DependenceTheorem` and
`ControlTheorem`, that recorded dependences and the order around control
operations survive every move; `CompleteTheorem`, that the ready list is empty
only when everything is scheduled; `PrioritiesTheorem`, that heights and loop
carried marks are what the heuristic means by them; and `EffectTheorem`, that the
block goes on computing what it did.  The invariant says of the two scans that
what they remember (last writers, last readers, the previous control operation)
lies behind the node they are at, so that every edge of `AllEdges` goes forward
in the text; of the schedule, that the nodes up to `head` are the scheduled
ones, that `seen` is the number of scheduled predecessors of a node, and that
the ready list is the set of unscheduled nodes whose predecessors are all
scheduled.  `CompleteTheorem` then takes the least unscheduled node: edges go
forward, so its predecessors are scheduled and it is ready.  That there is a
least one comes from the well-foundedness of `<`.

For the heights (`PriorityInv`) the order of the work list is what must not
matter: a height that is known is one more than the greatest of the successors'
or zero at the bottom (`Known`), and a node whose height is not known is on the
list just when it was put there.  The longest path over the edges, which is
recursive, is compared with the heights at the last node where the two differ.
For the marks the scan has to remember the last writer of each register and the
reads before any writer.

`EffectTheorem` says what the edges are enough for.  It has a hypothesis,
`Schedulable`: the second scan was made (the block does not end its section), and
a control operation that is not the last node is ordered with the accesses to
memory, which is so for `leave` and not for `hlt`.  `OrderedInv` says of
both scans what they have ordered so far in *every* placement that respects the
edges found (`Fits`): each reader is behind the writers before it, accesses to
memory keep their order, of the writers of a register the last stays last, and
writers behind a reader stay behind.  So in a schedule a node finds in each
register what it found in the text (`FindsLemma`); the first node to compute
something else would have found something else (`SameValues`); and the accesses
and transfers of control, being in the same order with the same values, leave the
same trace (`TraceLemma`).

**RelaxerProofs.**  For every section, whatever its entries and their sizes:
`ReachTheorem` (`JumpsReach`), `AlignTheorem` (`AlignsAlign`), `TraceTheorem`
(`LeavesNoTrace`) and `ReturnTheorem` (`GoReturns`).  `BuiltLemma` says what
`BuildFragments` makes of a section (`Describes`): every entry has a place, a
fragment and an offset in it, the places follow each other, and every fragment
but the last was ended by one entry, whose kind and target it has.  gas then
only enlarges the fixed part of jumps that leave the section and the state of
the others (`Evolved`).  A sweep (`SweepLemma`) leaves the addresses those of the
fragments as they now are (`IsLayout`), although it moves them one by one and
estimates targets it has not come to; and it leaves them as they were just if
no jump has to grow (`Settled`).  That is what `Go` stops at, so a jump that
is short then was tested, with a displacement that is the difference of the
offsets in the map, one for the length of the short jump taken off; for this the
offsets, which `Go` sums up from sizes, have to be the addresses plus the
places (`PlacesLemma`).  A sweep that changes an address has made a jump long,
since the layout of given fragments is unique (`LayoutUnique`), and a jump long
stays long, so the sweeps are no more than the jumps, plus the last of the first
call and the one of the second.  That relaxing again gives the same is shown by
following the whole course (`RunInv`): it begins with what was built and every
step is a function of the one before it and of the section, if `RestoreState`
has put back the opcodes.  What the external `relax_segment` does is part of the
model, not proved.

**PassesProofs.**  For every list of passes, every text and any number of
functions: `HeldTheorem` (`HeldIsAlive`), that no pass loses the graph it walks,
neither to the loop finder, which may build one, nor to an invalidation;
`LoopsTheorem` (`LoopsAreAlive`), that loops of a freed graph are read only in
lists that mix graphs of both kinds or have NOPIN; `SizesTheorem`
(`SizesAreCurrent`), that sizes of an older text are read only in lists with
LOOP16 or BRSEP and a pass that edits without dropping them; and
`UnsizedTheorem` (`OnlyUnsizedAbort`), that the assertion of `DeleteEntry` fails
only in the lists that the property names.  None is inductive.
`StepsTheorem` first says what the steps left of a pass have in common with its
script (`Fits`): who asks for which kind of graph, and that what reads loops has
asked for them, after the graph.  For the first theorem the invariant adds that
the held graph is the function's, and conservative just for the scheduler, so
that `GetCFG` from the loop finder finds it reusable.  For the second, in a list
that does not mix: all graphs are of one kind, so none is ever remade; the loops
of a function, where it has any, point into its graph; and a pass that has no
question left and reads loops has them.  For the third there are two invariants:
without LOOP16 and BRSEP the only reader left is PALIAS, which has no sizes
between its `drop` and its `sizes` and current ones after that; and where all
passes leave the sizes as they should be, nothing is ever marked for deletion,
so that what the section knows is current between any two steps.

The fourth needs what a walk visits, over a list that the passes edit and of
which their graphs hold entries that have left it.  `FlowInv` says of all
entries, deleted ones with the pointers they were left with included, that
`next_` and `prev_` stay in their function or cross its `.size` to a neighbour
(`LinkedOn`); of the function, that it keeps a first entry and its `.size`
(`Bounded`); of the graph of every function, however old, that its blocks begin
and end in it and not at the `.size` (`BlocksInv`).  Every `set_next` and
`set_prev` of `LinkBefore`, `DeleteEntry` and a move keeps that
(`SetNextStays`, `SetPrevStays`), in whatever state the entries around are, so a
walk over the function, or over a block whose end it meets, visits entries of the
function only (`FunctionWalk`, `BlockWalk`); what is inserted, marked or deleted
is in the function of the running pass.  `Sized` then says that, where there are
sizes, an entry without one is of a function that is done, or of a kind that a
pass of the list so far inserts into this one (`Made`); and `MarkedInv` that what
is marked is of a kind that the pass deletes.  An entry of both is the
excuse (`ExcuseLemma`).  That every text begins so is `ParsedLemma`; a walk, a
choice from it and a series of edits are recursive functions, whose values are
followed by what each step keeps (`Recursion`).

**SectionsProofs.**  For every set of sections, every file and every depth of
the stack: `OwnSectionTheorem` (`OwnSection`), that code is in the subsection of
the section gas puts it in.  By itself that says nothing of the next entry; the
invariant (`SectionsInv`) adds the types (`SectionTypes`: the unit is a unit,
every entry has a subsection, both stacks hold subsections and places) and what
the two programs must agree on before the next statement (`AccountTheorem`):
while `lost` holds at most "pushed" and "number", the current subsection has the
name of gas's section, and so has each one on the stack, level by level, where
the stacks are of one depth (`.struct` pushes only MAO's), and the previous one
as long as no numbered push has moved it.  The bulk of the proof is what each
callback leaves of a unit: which fields `AddEntry` touches when it opens no, one
or two subsections on its way, that no callback renames a subsection or moves an
entry that is already there, and that `.popsection` and `.previous`, which MAO
turns into one or two `.section` directives, end where gas does.

The second half of the module proves, from the types and `Account`, the two
properties of what has been read, for every file.  `ListsTheorem` (`SectionsAreLists`) needs
`TiledInv`, which says of every entry what the property says of the lists: the
subsections are ranges of entries, one after the other without a gap, the last
of them current (`Ranges`), and `next_` and `prev_` of an entry are the nearest
entries of the same section (`Links`).  That this is kept is the case
distinction of `Grows`: `AddEntry` lengthens the current subsection or begins a
new one, and either way the entry is linked behind the last one of its section,
which for a new subsection is the `last_entry_` of the one `GetLastSubSection`
finds (`LastEntryOfIs`).  A `.subsection` before any section begins a subsection
without a section to link to, so the invariant, like the property, speaks of
files in which "first" is not lost.  `AssembledTheorem` (`AssembledAlike`) needs
two more: `NumberInv`, that the accounts agree on subsection numbers, of the
current place and level by level, while `lost` holds at most "pushed"; and
`ReplayInv`, that gas, reading the entries again from the start, passes through
the places it was in and ends where it is now.  Each statement appends one or
two entries that take gas from `now` to `now'` (`Follows`), where for
`.popsection` and `.previous` the account supplies name and number.  `Prints`,
`Written` and `WrittenPlace` are recursive functions over the entries; that they
compute what the properties need is shown by least counterexample, with the
witness written down (`PrintsRange`, `WrittenIs`, `ReplayAssembled`).

**FunctionFinderProofs.**  For every file, symbol table and order of symbols:
`RangesTheorem` (`RangesAreOwned`), that a function is the range from its first
to its last entry unless it has a second name, and `CodeTheorem`
(`CodeHasFunction`), that with unnamed functions switched on only code between a
`.size` and the next label of a function is left out.  Both begin with what
reading leaves (`Sound`, an invariant of `Sections` under the actions of the
finder): `next_` goes onward, but for a `.subsection` that is the first entry of the file,
which `AddEntry` links to itself; every entry is the head of its section or the
`next_` of one before it; and a label occurs once.  Hence a walk along `next_`
meets each entry once, and its stops can be described without following it
(`WalkLemma`, `StretchLemma`: the last entry from which the description would
fail).  `FinderInv` then says how entries are assigned: labels whose symbol was
taken are in a function (`Covers`), what follows an entry with a function has
one, unless the function ended there (`Behind`), a function's entries are its
range (`Exact`), no range holds the label of another (`Apart`), and every code
section that was looked at has its head in a function (`HeadsTaken`).
`CodeTheorem` goes back from an instruction without a function to the first entry
without one that leads to it: that is a head, which `HeadsTaken` excludes, or
follows the `.size` of a function.

**Only checked by TLC.**  Termination of the solver, the scheduler and the loop
finder, which is liveness.  Of the loop finder and the peepholes nothing is
proved, nor that the graph is exact (`FlowIsExact`): the properties compare a
result with reachability, dominators or the execution of a block, which are
recursion over data, and there the invariant would have to carry the correctness
of the whole algorithm (for the loop finder, that of union-find under a
depth-first order).  `CodeIsKept` and `WalksEnd` depend on
which entries, in which order, a walk along `next_` meets while a pass edits the
list (working at a proof of `WalksEnd` showed the exception `KilledBetween`,
which the texts of the run did not have before); the theorems about `Passes` only need whose entries they are.

## 6. Plan

Done: the entry list and its contract; the solver with both problems; the
scheduler with its proofs; the graph builder and the loop finder; reading and
writing of sections and the search for functions; the relaxer; the pass manager
with the caches; seven peepholes.  Next, in order:

1. Proofs: `WalksEnd` and `CodeIsKept` of the pass manager; `FlowIsExact` of the
   graph, for texts with `.size` at their end only.
2. The passes that only LinkBefore or LinkAfter in a new way, as scripts of
   `Passes`.
3. The grouping of entries into nodes of the scheduler.
4. LEB128 data and symbolic `.fill` and `.space` in `Relaxer`.

## 7. Not modelled

- The embedded assembler except its section stack and its jump table: it is
  third-party code of binutils, 28,000 of the 50,000 lines of the
  implementation (`read.c`, `tc-i386.c`, `symbols.c`, `expr.c`, `obj-elf.c`,
  `dw2gencfi.c`, `dwarf2dbg.c`), which parses statements, evaluates expressions
  and encodes.  MAO depends on it through the callbacks that `Sections` models
  and through `relax_segment`, which is not in the repository at all.
- The generated tables of opcodes, uses and definitions, and the instruction
  sizes: data to the models, which take any masks and a few sizes.
- Printing of entries and operands, tracing, timers, statistics and graph dumps:
  output.  Most of `MaoEntry.cc` is printing and predicates on operands.
- The grammar of `--mao`, option values and plug-in loading.
- DCE, which visits the graph and traces the blocks it does not reach, and
  edits nothing; and the micro-architecture passes without an entry in
  `Script`: they insert, delete and read in ways that other passes do, and which
  places they choose is a heuristic without a contract.  In `Passes`, REDTEST
  and REDMOV are left out as well, since they delete and rewrite like ZEE and
  ADDADD.
- Profile reading: files and arithmetic on addresses.
