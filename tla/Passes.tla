------------------------------- MODULE Passes -------------------------------
(***************************************************************************)
(* The pass manager and what outlives a pass.  MaoFunctionPassManager runs *)
(* the list of passes on one function after the other.  A function keeps   *)
(* its CFG and its loop structure, a section the sizes of its entries, and *)
(* the next pass to ask for one gets the copy; whoever edits is supposed   *)
(* to invalidate, and many passes do not.  The CFG holds pointers into the *)
(* list of entries, which deleted entries have left with their own         *)
(* pointers as they were; the loop structure holds pointers into the CFG.  *)
(*                                                                         *)
(* A pass is here what it asks for, how it walks and what it edits.  Which *)
(* places it finds worth an edit is open where it depends on offsets,      *)
(* dependences or chance.                                                  *)
(***************************************************************************)
EXTENDS Integers, Sequences, FiniteSets

CONSTANTS
  Lists,        \* the lists of passes given to --mao
  Texts,        \* what was parsed: a sequence of functions
  MaxEntries    \* bound: entries ever created

\* An entry: a label, a jump "jcc" to the label above it, "add" of n, "inc",
\* "load", the redundant extension "ext" of a load, "pref", "nop", "align",
\* or the ".size" that ends a function.
Plain == {"add", "inc", "load", "ext", "pref", "nop"}
Insns == Plain \cup {"jcc"}
Directives == {"align", "size"}
Kinds == Insns \cup Directives \cup {"label"}

\* What Go asks for, in order, with the name of the step that does its work.
Script ==
  [LOOP16  |-> <<"cfg", "lsg", "sizes", "align">>,
   BRSEP   |-> <<"sizes", "separate">>,
   PALIAS  |-> <<"cfg", "drop", "sizes", "lsg", "scan">>,
   TEST    |-> <<"lsg", "sizes">>,
   SCHED   |-> <<"cfgC", "lsgC", "move">>,
   ADDADD  |-> <<"cfg", "merge">>,
   ZEE     |-> <<"cfg", "extents">>,
   PREFNTA |-> <<"cfg", "prefetch">>,
   NOPKILL |-> <<"nops">>,
   ADD2INC |-> <<"incs">>,
   INC2ADD |-> <<"adds">>,
   NOPIN   |-> <<"insert", "uncfg">>]

ASSUME ListsAssumption == \A l \in Lists : l \in Seq(DOMAIN Script) /\ l # <<>>
ASSUME TextsAssumption ==
  \A t \in Texts :
    /\ t \in Seq(Seq(Kinds) \ {<<>>})
    /\ \A f \in DOMAIN t : \A i \in DOMAIN t[f] : t[f][i] = "size" <=> i = Len(t[f])
ASSUME EntriesAssumption == MaxEntries \in Nat

VARIABLES
  list,       \* the passes
  fn,         \* the function they run on
  pos,        \* the index of the running pass in the list
  steps,      \* what is left of its script
  unit,       \* entries, functions, size map, and how MAO fares, see Parsed
  cfg,        \* of each function: its CFG; id 0 is NULL
  lsg,        \* of each function: the id of the CFG its loops point into; 0 is NULL
  built,      \* CFGs built
  held,       \* the id of the CFG the running pass walks, or 0
  redundants, \* marked for deletion
  misread,    \* history: the stale results a pass has read
  meant       \* history: what the text did when it was parsed

where == <<list, fn, pos>>
cached == <<cfg, lsg, built, held>>
vars == <<where, steps, unit, cached, redundants, misread, meant>>

-----------------------------------------------------------------------------
(* Entries.                                                                *)

NoMap == [known |-> FALSE, keys |-> {}, of |-> <<>>]
NoCFG == [id |-> 0, conservative |-> FALSE, blocks |-> <<>>]

Entry(kind, f, next, prev) ==
  [kind |-> kind, n |-> IF kind \in {"add", "inc"} THEN 1 ELSE 0, fn |-> f,
   next |-> next, prev |-> prev, deleted |-> FALSE]

\* The functions of a text lie in one section, one after the other.
Parsed(t) ==
  LET start[f \in 1 .. Len(t) + 1] == IF f = 1 THEN 1 ELSE start[f - 1] + Len(t[f - 1])
      N == start[Len(t) + 1] - 1
      Of(e) == CHOOSE f \in DOMAIN t : start[f] <= e /\ e < start[f + 1]
  IN  [entries |-> [e \in 1 .. N |->
                      Entry(t[Of(e)][e - start[Of(e)] + 1], Of(e),
                            IF e = N THEN 0 ELSE e + 1, e - 1)],
       first |-> [f \in DOMAIN t |-> start[f]],
       last |-> [f \in DOMAIN t |-> start[f + 1] - 1],
       sizes |-> NoMap,
       fate |-> "ok"]

\* The entries from a up to, and not including, end by next_: what an
\* EntryIterator visits.  It is endless, or runs over NULL, when it misses end.
Upto(es, a, end) ==
  LET N == Len(es) + 1
      walk[k \in 0 .. N] ==
        IF k = 0 THEN [here |-> a, seen |-> <<>>]
        ELSE LET w == walk[k - 1]
             IN  IF w.here \in {0, end} THEN w
                 ELSE [here |-> es[w.here].next, seen |-> Append(w.seen, w.here)]
      all == walk[N]
  IN  [ends |-> all.here = end, seen |-> all.seen]

\* FORALL_FUNC_ENTRY and FORALL_BB_ENTRY; the ends are looked up by pointer.
InFunction(u, f) == Upto(u.entries, u.first[f], u.entries[u.last[f]].next).seen
InBlock(u, b) == Upto(u.entries, b[1], u.entries[b[2]].next)

\* The section, from the entry that has no other before it.
Section(es) ==
  Upto(es, CHOOSE e \in DOMAIN es : ~es[e].deleted /\ es[e].prev = 0, 0).seen
TextOf(es) ==
  LET s == Section(es) IN [k \in DOMAIN s |-> <<es[s[k]].kind, es[s[k]].n>>]

\* set_next and set_prev, if there is an entry; 0 is NULL.
SetNext(es, e, to) == IF e = 0 THEN es ELSE [es EXCEPT ![e].next = to]
SetPrev(es, e, to) == IF e = 0 THEN es ELSE [es EXCEPT ![e].prev = to]

\* MaoEntry::LinkBefore of a new entry in e's function.
LinkBefore(u, e, kind) ==
  LET new == Len(u.entries) + 1
      f == u.entries[e].fn
      p == u.entries[e].prev
      more == Append(u.entries, Entry(kind, f, e, p))
  IN  [u EXCEPT !.entries = SetNext(SetPrev(more, e, new), p, new),
                !.first[f] = IF @ = e THEN new ELSE @]

\* Slip: the entry after the deleted one still points back to it.
UnhookSlip(es, e) == SetNext(es, es[e].prev, es[e].next)

\* The neighbours pass over e, which keeps its own pointers.
Unhook(es, e) == SetPrev(SetNext(es, es[e].prev, es[e].next), es[e].next, es[e].prev)

\* The MAO_ASSERT of DeleteEntry: where there are sizes, the entry has one.
HasSize(u, e) == u.sizes.known => e \in u.sizes.keys

\* MaoUnit::DeleteEntry.  The blocks of a graph are not told; an entry that is
\* deleted twice is in no function any more.
DeleteEntry(u, e) ==
  LET r == u.entries[e]
      cut == Unhook(u.entries, e)
  IN  IF r.deleted THEN [u EXCEPT !.entries = cut]
      ELSE [u EXCEPT !.entries = [cut EXCEPT ![e].deleted = TRUE],
                     !.first[r.fn] = IF @ = e THEN r.next ELSE @,
                     !.last[r.fn] = IF @ = e THEN r.prev ELSE @,
                     !.sizes.keys = @ \ {e},
                     !.fate = IF HasSize(u, e) THEN @ ELSE "aborted"]

\* Do(u, e) for each e of s in turn.
Each(Do(_, _), u, s) ==
  LET upTo[k \in 0 .. Len(s)] == IF k = 0 THEN u ELSE LET v == upTo[k - 1] IN Do(v, s[k])
  IN  upTo[Len(s)]

\* LinkBefore of a new entry of one kind for each e of s in turn.
EachLinked(u, s, kind) == Each(LAMBDA v, e : LinkBefore(v, e, kind), u, s)

\* The elements of s that are in a set.
Pick(s, set) ==
  LET upTo[k \in 0 .. Len(s)] ==
        IF k = 0 THEN <<>>
        ELSE IF s[k] \in set THEN Append(upTo[k - 1], s[k]) ELSE upTo[k - 1]
  IN  upTo[Len(s)]

OfKind(u, kinds) == {e \in DOMAIN u.entries : u.entries[e].kind \in kinds}

-----------------------------------------------------------------------------
(* Results that are cached.                                                *)

\* CFGBuilder: a block begins at the function, after a jump, and at a label if
\* a jump goes there or the graph is conservative.  Directives are in no block.
IsTarget(s, k, u) ==
  \E j \in k + 1 .. Len(s) :
    /\ u.entries[s[j]].kind = "jcc"
    /\ \A i \in k + 1 .. j : u.entries[s[i]].kind # "label"

Blocks(u, f, conservative) ==
  LET s == Pick(InFunction(u, f), OfKind(u, Kinds \ Directives))
      heads == {k \in DOMAIN s :
                  \/ k = 1
                  \/ u.entries[s[k - 1]].kind = "jcc"
                  \/ u.entries[s[k]].kind = "label" /\ (conservative \/ IsTarget(s, k, u))}
      EndOf(k) == CHOOSE j \in k .. Len(s) :
                    (j = Len(s) \/ j + 1 \in heads) /\ \A i \in k + 1 .. j : i \notin heads
      nth(i) == CHOOSE k \in heads : Cardinality({h \in heads : h <= k}) = i
  IN  [i \in 1 .. Cardinality(heads) |-> <<s[nth(i)], s[EndOf(nth(i))]>>]

\* Slip: only the entries of the function get a size.
RelaxedSlip(u) ==
  [known |-> TRUE, keys |-> {e \in DOMAIN u.entries : u.entries[e].fn = fn},
   of |-> TextOf(u.entries)]

\* Relax: every entry of the section has a size then.
Relaxed(u) ==
  [known |-> TRUE, keys |-> {e \in DOMAIN u.entries : ~u.entries[e].deleted},
   of |-> TextOf(u.entries)]

\* u with another size map.
WithSizes(u, map) ==
  [entries |-> u.entries, first |-> u.first, last |-> u.last, sizes |-> map, fate |-> u.fate]

\* Slip: a graph is built for every pass.
ReusableSlip(conservative) == FALSE

\* Slip: a graph of either kind will do.
ReusableAnySlip(conservative) == cfg[fn].id # 0

\* CFG::GetCFG: a graph of the same kind is used again.
Reusable(conservative) == cfg[fn].id # 0 /\ cfg[fn].conservative = conservative

GetCFG(conservative) ==
  IF Reusable(conservative) THEN UNCHANGED <<cfg, built>>
  ELSE /\ built' = built + 1
       /\ cfg' = [cfg EXCEPT ![fn] = [id |-> built + 1, conservative |-> conservative,
                                      blocks |-> Blocks(unit, fn, conservative)]]

-----------------------------------------------------------------------------
(* Steps.                                                                  *)

Meaning(u, f) ==
  LET s == InFunction(u, f)
      upTo[k \in 0 .. Len(s)] ==
        IF k = 0 THEN [sum |-> 0, loads |-> 0, seen |-> <<>>]
        ELSE LET w == upTo[k - 1]
                 r == u.entries[s[k]]
             IN  [sum |-> w.sum + r.n,
                  loads |-> w.loads + (IF r.kind = "load" THEN 1 ELSE 0),
                  seen |-> IF r.kind \in {"label", "jcc", "size"}
                             THEN Append(w.seen, <<r.kind, w.sum, w.loads>>) ELSE w.seen]
  IN  upTo[Len(s)].seen

Init ==
  /\ list \in Lists
  /\ \E t \in Texts :
       /\ unit = Parsed(t)
       /\ cfg = [f \in DOMAIN t |-> NoCFG]
       /\ lsg = [f \in DOMAIN t |-> 0]
       /\ meant = [f \in DOMAIN t |-> Meaning(Parsed(t), f)]
  /\ fn = 1
  /\ pos = 1
  /\ steps = Script[list[1]]
  /\ built = 0 /\ held = 0
  /\ redundants = <<>>
  /\ misread = {}

Running == unit.fate = "ok" /\ fn \in DOMAIN cfg
At(step) == Running /\ steps # <<>> /\ steps[1] = step

\* CFG *cfg = CFG::GetCFG(unit_, function_[, true])
AskCFG(step, conservative) ==
  /\ At(step)
  /\ GetCFG(conservative)
  /\ held' = cfg'[fn].id
  /\ steps' = Tail(steps)
  /\ UNCHANGED <<where, unit, lsg, redundants, misread, meant>>

HasLoops == \E e \in DOMAIN unit.entries : unit.entries[e].fn = fn /\ unit.entries[e].kind = "jcc"

\* Slip: the loop finder builds a graph of the default kind.
FinderGraphSlip(conservative) == GetCFG(FALSE)

\* LoopFinderPass asks for its own graph.
FinderGraph(conservative) == GetCFG(conservative)

\* LoopStructureGraph::GetLSG: the cached one is returned whatever it is of.
\* LOOP16 gives up when there are no loops.
AskLSG(step, conservative) ==
  /\ At(step)
  /\ IF lsg[fn] # 0 THEN UNCHANGED <<cfg, built, lsg>>
     ELSE FinderGraph(conservative) /\ lsg' = [lsg EXCEPT ![fn] = cfg'[fn].id]
  /\ steps' = IF list[pos] = "LOOP16" /\ ~HasLoops THEN <<>> ELSE Tail(steps)
  /\ UNCHANGED <<where, unit, held, redundants, misread, meant>>

\* A step that leaves the graphs alone: the unit, the entries marked, and what
\* was read on the way.
Work(u, marked, read) ==
  /\ unit' = u
  /\ redundants' = marked
  /\ misread' = misread \cup read
  /\ steps' = Tail(steps)
  /\ UNCHANGED <<where, cached, meant>>

\* GetSizeMap and GetOffsetMap
AskSizes ==
  /\ At("sizes")
  /\ Work(IF unit.sizes.known THEN unit ELSE WithSizes(unit, Relaxed(unit)), <<>>, {})

\* InvalidateSizeMap
DropSizes ==
  /\ At("drop")
  /\ Work(WithSizes(unit, NoMap), <<>>, {})

\* InvalidateCFG
DropCFG ==
  /\ At("uncfg")
  /\ cfg' = [cfg EXCEPT ![fn] = NoCFG]
  /\ steps' = Tail(steps)
  /\ UNCHANGED <<where, unit, lsg, built, held, redundants, misread, meant>>

-----------------------------------------------------------------------------
(* What the passes do.                                                     *)

\* What was read is stale: loops of a graph that is gone, sizes of another text.
LoopsRead == IF HasLoops /\ lsg[fn] # cfg[fn].id THEN {"loops"} ELSE {}
SizesRead == IF unit.sizes.of = TextOf(unit.entries) THEN {} ELSE {"sizes"}

KindOf(e) == unit.entries[e].kind
Whole == InFunction(unit, fn)
AlignBefore(u, s) == EachLinked(u, s, "align")

\* Slip: the sizes are kept.
RealignedSlip(u) == u

\* After an alignment: InvalidateSizeMap and GetSizeMap.
Realigned(u) == WithSizes(u, Relaxed(u))

\* AlignInner: some of the loops get a .p2align before their first block.
AlignLoops ==
  /\ At("align")
  /\ LET heads == {Whole[k] : k \in {j \in DOMAIN Whole :
                     KindOf(Whole[j]) = "label" /\ IsTarget(Whole, j, unit)}}
     IN  \E some \in SUBSET heads :
           Work(IF some = {} THEN unit
                ELSE Realigned(AlignBefore(unit, Pick(Whole, some))),
                <<>>, LoopsRead \cup SizesRead)

\* BranchSeparatorPass: some branches get a .p2align; at the next directive,
\* the .size at the latest, the sizes are made anew; then the function itself
\* gets one.  Looking up a size that is not there makes it 0.
SeparateBranches ==
  /\ At("separate")
  /\ LET jumps == {e \in DOMAIN unit.entries :
                     e \in {Whole[k] : k \in DOMAIN Whole} /\ KindOf(e) = "jcc"}
         looked == [unit EXCEPT !.sizes.keys = @ \cup {Whole[k] : k \in DOMAIN Whole}]
     IN  \E some \in SUBSET jumps :
           Work(IF some = {} THEN looked
                ELSE LET u == Realigned(AlignBefore(looked, Pick(Whole, some)))
                     IN  AlignBefore(u, <<u.first[fn]>>),
                <<>>, SizesRead)

\* The walks over the blocks of the graph.  One that misses the end of its
\* block goes on over all that follows.
Walks == [b \in DOMAIN cfg[fn].blocks |-> InBlock(unit, cfg[fn].blocks[b])]
Astray == \E b \in DOMAIN Walks : ~Walks[b].ends
GoAstray ==
  Work([entries |-> unit.entries, first |-> unit.first, last |-> unit.last,
        sizes |-> unit.sizes, fate |-> "astray"], <<>>, {})

\* PrefAlias reads offsets and loops: ScanLoop walks the blocks of the loops, Go
\* those that are in none.
Scan ==
  /\ At("scan")
  /\ IF Astray THEN GoAstray ELSE Work(unit, <<>>, LoopsRead \cup SizesRead)

\* The instructions of a walk, and those after GetFirstInstruction.
Visited == [b \in DOMAIN Walks |-> Pick(Walks[b].seen, OfKind(unit, Insns))]
PastFirst == [b \in DOMAIN Walks |-> IF Visited[b] = <<>> THEN <<>> ELSE Tail(Visited[b])]
Joined(parts) ==
  LET upTo[b \in 0 .. Len(parts)] == IF b = 0 THEN <<>> ELSE upTo[b - 1] \o parts[b]
  IN  upTo[Len(parts)]

\* An add right after an add takes over its immediate.
Merge(u, e) ==
  LET p == u.entries[e].prev
  IN  IF p # 0 /\ u.entries[e].kind = "add" /\ u.entries[p].kind = "add"
        THEN DeleteEntry([u EXCEPT !.entries[e].n = @ + u.entries[p].n], p) ELSE u

\* AddAddElimPass deletes while it walks.
MergeAdds ==
  /\ At("merge")
  /\ IF Astray THEN GoAstray ELSE Work(Each(Merge, unit, Joined(PastFirst)), <<>>, {})

\* ZeroExtentElimPass, for an extension of what was loaded just before.
MarkExtents ==
  /\ At("extents")
  /\ IF Astray THEN GoAstray
     ELSE LET dead == {e \in OfKind(unit, {"ext"}) :
                         unit.entries[e].prev # 0 /\ KindOf(unit.entries[e].prev) = "load"}
          IN  Work(unit, Pick(Joined(PastFirst), dead), {})

\* PrefetchNtaPass
Prefetch ==
  /\ At("prefetch")
  /\ IF Astray THEN GoAstray
     ELSE Work(EachLinked(unit, Pick(Joined(Visited), OfKind(unit, {"load"})), "pref"), <<>>, {})

\* NopKillerElimPass
MarkNops ==
  /\ At("nops")
  /\ Work(unit, Pick(Whole, OfKind(unit, {"nop", "align"})), {})

\* Add2IncPass and Inc2AddPass: the new instruction before the old one.
Replace(step, old, new) ==
  /\ At(step)
  /\ LET these == Pick(Whole, old) IN Work(EachLinked(unit, these, new), these, {})
AddsOfOne == {e \in OfKind(unit, {"add"}) : unit.entries[e].n = 1}
Incs == OfKind(unit, {"inc"})

\* NopInizerPass; bound: at most one nop a run.
InsertNop ==
  /\ At("insert")
  /\ \/ Work(unit, <<>>, {})
     \/ \E k \in DOMAIN Whole :
          /\ KindOf(Whole[k]) \in Insns
          /\ Work(LinkBefore(unit, Whole[k], "nop"), <<>>, {})

\* SchedulerPass moves an instruction of a block up past the one before, as
\* often as it likes; adds stay in order.
Swap(es, a, b) ==
  LET p == es[a].prev
      n == es[b].next
      turned == SetNext(SetPrev(SetNext(SetPrev(es, a, b), a, n), b, p), b, a)
  IN  SetPrev(SetNext(turned, p, b), n, a)

Schedule ==
  /\ At("move")
  /\ ~Astray
  /\ \E b \in DOMAIN Walks : \E k \in 1 .. Len(Walks[b].seen) - 1 :
       LET x == Walks[b].seen[k]
           y == Walks[b].seen[k + 1]
       IN  /\ {KindOf(x), KindOf(y)} \subseteq Plain
           /\ ~{KindOf(x), KindOf(y)} \subseteq {"add", "inc"}
           /\ {KindOf(x), KindOf(y)} # {"load", "ext"}
           /\ unit' = [unit EXCEPT !.entries = Swap(@, x, y)]
           /\ misread' = misread \cup LoopsRead
  /\ UNCHANGED <<where, steps, cached, redundants, meant>>

Scheduled ==
  /\ At("move")
  /\ IF Astray THEN GoAstray ELSE Work(unit, <<>>, LoopsRead)

\* MaoPass::Run deletes what Go has marked; then the next pass, or the first
\* one on the next function.
NextPass ==
  /\ Running
  /\ steps = <<>>
  /\ Len(unit.entries) <= MaxEntries
  /\ unit' = Each(DeleteEntry, unit, redundants)
  /\ redundants' = <<>>
  /\ held' = 0
  /\ pos' = IF pos = Len(list) THEN 1 ELSE pos + 1
  /\ fn' = IF pos = Len(list) THEN fn + 1 ELSE fn
  /\ steps' = Script[list[pos']]
  /\ UNCHANGED <<list, cfg, lsg, built, misread, meant>>

Next ==
  \/ \E c \in BOOLEAN : AskCFG(IF c THEN "cfgC" ELSE "cfg", c)
  \/ \E c \in BOOLEAN : AskLSG(IF c THEN "lsgC" ELSE "lsg", c)
  \/ AskSizes \/ DropSizes \/ DropCFG
  \/ AlignLoops \/ SeparateBranches \/ Scan
  \/ MergeAdds \/ MarkExtents \/ Prefetch \/ MarkNops \/ InsertNop
  \/ Replace("incs", AddsOfOne, "inc") \/ Replace("adds", Incs, "add")
  \/ Schedule \/ Scheduled
  \/ NextPass

Spec == Init /\ [][Next]_vars

-----------------------------------------------------------------------------
(* Properties.                                                             *)

In(pass) == \E i \in DOMAIN list : list[i] = pass
Before(early, late) ==
  \E i, j \in DOMAIN list : i < j /\ list[i] \in early /\ list[j] \in late

\* The scheduler runs twice: only then does a graph it made meet it again.
Rescheduled == Before({"SCHED"}, {"SCHED"})

\* Every label, jump and .size of the parsed text is still there, in order,
\* with the same sum added and as much loaded before it, and nothing that was
\* deleted is back.
TextIsKept ==
  \A f \in DOMAIN unit.first :
    LET s == InFunction(unit, f) IN
      /\ Meaning(unit, f) = meant[f]
      /\ \A k \in DOMAIN s : ~unit.entries[s[k]].deleted

BetweenPasses == unit.fate = "ok" /\ steps # <<>> /\ redundants = <<>>

\* Passes keep what the text does although they walk by pointers of entries
\* that are gone, and edit around them.  A second run of the scheduler is
\* excepted: it moves deleted entries back into the list.
CodeIsKept == BetweenPasses /\ ~Rescheduled => TextIsKept

\* MaoCFG.cc:78: a graph that "was build with the same flags, we can reuse".
ReuseKeepsCode == BetweenPasses => TextIsKept

\* The graph a pass walks is not freed under it, neither by the loop finder
\* nor by an invalidation.
HeldIsAlive ==
  Running /\ steps # <<>> /\ held # 0 => cfg[fn].id = held

\* Loops are read of a graph that has been freed only if the list mixes the
\* scheduler, whose graphs are conservative, with passes whose graphs are not,
\* or has NOPIN, which drops the graph but not the loops.
LoopsAreAlive ==
  "loops" \in misread =>
    \/ In("NOPIN")
    \/ In("SCHED") /\ \E i \in DOMAIN list :
         list[i] \in {"LOOP16", "PALIAS", "TEST", "ADDADD", "ZEE", "PREFNTA"}

\* A decision is taken by the sizes and offsets of an older text only if a pass
\* of the list edits and does not invalidate; a pass that relaxes anew first,
\* or after its own edits, never does it alone.
SizesAreCurrent ==
  "sizes" \in misread =>
    /\ In("LOOP16") \/ In("BRSEP")
    /\ \E i \in DOMAIN list : list[i] \notin {"LOOP16", "PALIAS", "TEST"}

\* The assertion of DeleteEntry fails only where the list has a pass that
\* relaxes, one that inserts without invalidating, and after it one that
\* deletes the like.
OnlyUnsizedAbort ==
  unit.fate = "aborted" =>
    /\ In("LOOP16") \/ In("BRSEP") \/ In("PALIAS") \/ In("TEST")
    /\ \/ Before({"BRSEP", "NOPIN"}, {"NOPKILL"})
       \/ Before({"ADD2INC"}, {"INC2ADD"})
       \/ Before({"INC2ADD"}, {"ADD2INC", "ADDADD"})

\* NOPKILL runs between a pass that has a graph made and one that walks by it.
\* It deletes a nop together with the .p2align behind it, and the next_ of the
\* nop, which is where EntryEnd of its block looks, stays with the .p2align.
KilledBetween ==
  \E i, j, k \in DOMAIN list :
    /\ i < j /\ j < k /\ list[j] = "NOPKILL"
    /\ list[i] \in {"LOOP16", "PALIAS", "TEST", "ADDADD", "ZEE", "PREFNTA"}
    /\ list[k] \in {"PALIAS", "ADDADD", "ZEE", "PREFNTA"}

\* A walk over the blocks of a graph, however old, ends where its block ends:
\* the entry a block ends with is not deleted together with the one after it,
\* where the walk is to stop.  The exceptions are the scheduler's second run on
\* its own graph, and NOPKILL on the graph of others.
WalksEnd == unit.fate = "astray" => Rescheduled \/ KilledBetween
=============================================================================
