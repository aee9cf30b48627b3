---------------------------- MODULE PassesProofs ----------------------------
(***************************************************************************)
(* For every list of passes and every text: the graph that a pass walks is *)
(* not freed under it; no pass reads the loops of a freed graph unless the *)
(* list mixes graphs of both kinds or drops one; none reads stale sizes    *)
(* unless one pass of the list edits and another does not relax anew; and  *)
(* none deletes an entry without a size, which would abort MAO, but in the *)
(* lists that insert after a pass that relaxes and then delete the like.   *)
(*                                                                         *)
(* The last needs to know where the pointers lead: those of every entry,   *)
(* deleted or not, stay in its function or cross its .size, and the blocks *)
(* of a graph, however old, begin and end in theirs.  So a pass edits only *)
(* its own function, which its earlier passes left with unsized entries of *)
(* the kinds they insert.                                                  *)
(***************************************************************************)
EXTENDS Passes, SequenceTheorems, FiniteSetTheorems, WellFoundedInduction, TLAPS

Pass == list[pos]

\* The passes that ask for a graph with the jumps' targets only, for loops of
\* such a graph, and for loops to be read.
GraphPasses == {"LOOP16", "PALIAS", "ADDADD", "ZEE", "PREFNTA"}
FinderPasses == {"LOOP16", "PALIAS", "TEST"}
LoopPasses == {"LOOP16", "PALIAS", "SCHED"}

\* The passes that leave the sizes as they should be.
Keepers == {"LOOP16", "PALIAS", "TEST"}

\* The passes that relax.
Relaxers == {"LOOP16", "BRSEP", "PALIAS", "TEST"}
EditSteps == {"separate", "move", "merge", "extents", "prefetch", "nops", "incs", "adds",
              "insert"}

Asked == {"cfg", "cfgC", "lsg", "lsgC", "uncfg", "sizes", "drop", "align", "separate",
          "scan", "move", "merge", "extents", "prefetch", "nops", "incs", "adds", "insert"}
Finds(step) == step \in {"lsg", "lsgC"}

\* Who edits, and when the sizes are dropped, asked for and read.
SizedAt(s, i, pass) ==
  /\ s[i] \in EditSteps => pass \notin Keepers
  /\ s[i] = "separate" => pass = "BRSEP"
  /\ s[i] = "align" => pass = "LOOP16" /\ i = Len(s)
  /\ s[i] \in {"drop", "scan"} => pass = "PALIAS"
  /\ pass = "LOOP16" =>
       /\ i = Len(s) => s[i] = "align"
       /\ i = Len(s) - 1 => s[i] = "sizes"
  /\ pass = "PALIAS" =>
       /\ s[i] = "drop" <=> i = Len(s) - 3
       /\ s[i] = "sizes" <=> i = Len(s) - 2
       /\ s[i] = "scan" <=> i = Len(s)

\* Whose step it is.
Owned(step, pass) ==
  /\ step = "sizes" => pass \in Relaxers
  /\ step = "align" => pass = "LOOP16"
  /\ step = "separate" => pass = "BRSEP"
  /\ step = "merge" => pass = "ADDADD"
  /\ step = "extents" => pass = "ZEE"
  /\ step = "prefetch" => pass = "PREFNTA"
  /\ step = "nops" => pass = "NOPKILL"
  /\ step = "incs" => pass = "ADD2INC"
  /\ step = "adds" => pass = "INC2ADD"
  /\ step = "insert" => pass = "NOPIN"

\* What the steps of a pass have in common, at the start and at each Tail of
\* them: who asks for what, and that loops are asked for after the graph.
Fits(s, pass) ==
  /\ s \in Seq(Asked)
  /\ \A i \in 1 .. Len(s) :
       /\ s[i] = "cfg" => pass \in GraphPasses
       /\ s[i] = "lsg" => pass \in FinderPasses
       /\ s[i] \in {"cfgC", "lsgC"} => pass = "SCHED"
       /\ s[i] = "uncfg" => pass = "NOPIN"
       /\ s[i] \in {"align", "scan", "move"} =>
            pass \in LoopPasses /\ \A j \in i .. Len(s) : ~Finds(s[j])
       /\ s[i] \in {"cfg", "cfgC"} /\ pass \in LoopPasses =>
            \E j \in i + 1 .. Len(s) : Finds(s[j])
       /\ SizedAt(s, i, pass)
       /\ Owned(s[i], pass)

StepsInv ==
  /\ list \in Seq(DOMAIN Script) /\ list # <<>>
  /\ pos \in 1 .. Len(list)
  /\ Fits(steps, Pass)

LEMMA ScriptFits ==
  ASSUME NEW p \in DOMAIN Script
  PROVE  Fits(Script[p], p)
<1>1. Fits(Script["LOOP16"], "LOOP16")
  <2>. DEFINE s == <<"cfg", "lsg", "sizes", "align">>
  <2>1. s \in Seq(Asked) /\ Len(s) = 4
    BY DEF Asked
  <2>2. s[1] = "cfg" /\ s[2] = "lsg" /\ s[3] = "sizes" /\ s[4] = "align"
    OBVIOUS
  <2>3. Script["LOOP16"] = s
    BY DEF Script
  <2>. HIDE DEF s
  <2>4. Fits(s, "LOOP16")
    BY <2>1, <2>2 DEF Fits, GraphPasses, FinderPasses, LoopPasses, Finds, Keepers, EditSteps,
                           SizedAt, Owned, Relaxers
  <2>. QED BY <2>3, <2>4
<1>2. Fits(Script["BRSEP"], "BRSEP")
  <2>. DEFINE s == <<"sizes", "separate">>
  <2>1. s \in Seq(Asked) /\ Len(s) = 2
    BY DEF Asked
  <2>2. s[1] = "sizes" /\ s[2] = "separate"
    OBVIOUS
  <2>3. Script["BRSEP"] = s
    BY DEF Script
  <2>. HIDE DEF s
  <2>4. Fits(s, "BRSEP")
    BY <2>1, <2>2 DEF Fits, GraphPasses, FinderPasses, LoopPasses, Finds, Keepers, EditSteps,
                           SizedAt, Owned, Relaxers
  <2>. QED BY <2>3, <2>4
<1>3. Fits(Script["PALIAS"], "PALIAS")
  <2>. DEFINE s == <<"cfg", "drop", "sizes", "lsg", "scan">>
  <2>1. s \in Seq(Asked) /\ Len(s) = 5
    BY DEF Asked
  <2>2. s[1] = "cfg" /\ s[2] = "drop" /\ s[3] = "sizes" /\ s[4] = "lsg" /\ s[5] = "scan"
    OBVIOUS
  <2>3. Script["PALIAS"] = s
    BY DEF Script
  <2>. HIDE DEF s
  <2>4. Fits(s, "PALIAS")
    BY <2>1, <2>2 DEF Fits, GraphPasses, FinderPasses, LoopPasses, Finds, Keepers, EditSteps,
                           SizedAt, Owned, Relaxers
  <2>. QED BY <2>3, <2>4
<1>4. Fits(Script["TEST"], "TEST")
  <2>. DEFINE s == <<"lsg", "sizes">>
  <2>1. s \in Seq(Asked) /\ Len(s) = 2
    BY DEF Asked
  <2>2. s[1] = "lsg" /\ s[2] = "sizes"
    OBVIOUS
  <2>3. Script["TEST"] = s
    BY DEF Script
  <2>. HIDE DEF s
  <2>4. Fits(s, "TEST")
    BY <2>1, <2>2 DEF Fits, GraphPasses, FinderPasses, LoopPasses, Finds, Keepers, EditSteps,
                           SizedAt, Owned, Relaxers
  <2>. QED BY <2>3, <2>4
<1>5. Fits(Script["SCHED"], "SCHED")
  <2>. DEFINE s == <<"cfgC", "lsgC", "move">>
  <2>1. s \in Seq(Asked) /\ Len(s) = 3
    BY DEF Asked
  <2>2. s[1] = "cfgC" /\ s[2] = "lsgC" /\ s[3] = "move"
    OBVIOUS
  <2>3. Script["SCHED"] = s
    BY DEF Script
  <2>. HIDE DEF s
  <2>4. Fits(s, "SCHED")
    BY <2>1, <2>2 DEF Fits, GraphPasses, FinderPasses, LoopPasses, Finds, Keepers, EditSteps,
                           SizedAt, Owned, Relaxers
  <2>. QED BY <2>3, <2>4
<1>6. Fits(Script["ADDADD"], "ADDADD")
  <2>. DEFINE s == <<"cfg", "merge">>
  <2>1. s \in Seq(Asked) /\ Len(s) = 2
    BY DEF Asked
  <2>2. s[1] = "cfg" /\ s[2] = "merge"
    OBVIOUS
  <2>3. Script["ADDADD"] = s
    BY DEF Script
  <2>. HIDE DEF s
  <2>4. Fits(s, "ADDADD")
    BY <2>1, <2>2 DEF Fits, GraphPasses, FinderPasses, LoopPasses, Finds, Keepers, EditSteps,
                           SizedAt, Owned, Relaxers
  <2>. QED BY <2>3, <2>4
<1>7. Fits(Script["ZEE"], "ZEE")
  <2>. DEFINE s == <<"cfg", "extents">>
  <2>1. s \in Seq(Asked) /\ Len(s) = 2
    BY DEF Asked
  <2>2. s[1] = "cfg" /\ s[2] = "extents"
    OBVIOUS
  <2>3. Script["ZEE"] = s
    BY DEF Script
  <2>. HIDE DEF s
  <2>4. Fits(s, "ZEE")
    BY <2>1, <2>2 DEF Fits, GraphPasses, FinderPasses, LoopPasses, Finds, Keepers, EditSteps,
                           SizedAt, Owned, Relaxers
  <2>. QED BY <2>3, <2>4
<1>8. Fits(Script["PREFNTA"], "PREFNTA")
  <2>. DEFINE s == <<"cfg", "prefetch">>
  <2>1. s \in Seq(Asked) /\ Len(s) = 2
    BY DEF Asked
  <2>2. s[1] = "cfg" /\ s[2] = "prefetch"
    OBVIOUS
  <2>3. Script["PREFNTA"] = s
    BY DEF Script
  <2>. HIDE DEF s
  <2>4. Fits(s, "PREFNTA")
    BY <2>1, <2>2 DEF Fits, GraphPasses, FinderPasses, LoopPasses, Finds, Keepers, EditSteps,
                           SizedAt, Owned, Relaxers
  <2>. QED BY <2>3, <2>4
<1>9. Fits(Script["NOPKILL"], "NOPKILL")
  <2>. DEFINE s == <<"nops">>
  <2>1. s \in Seq(Asked) /\ Len(s) = 1
    BY DEF Asked
  <2>2. s[1] = "nops"
    OBVIOUS
  <2>3. Script["NOPKILL"] = s
    BY DEF Script
  <2>. HIDE DEF s
  <2>4. Fits(s, "NOPKILL")
    BY <2>1, <2>2 DEF Fits, GraphPasses, FinderPasses, LoopPasses, Finds, Keepers, EditSteps,
                           SizedAt, Owned, Relaxers
  <2>. QED BY <2>3, <2>4
<1>10. Fits(Script["ADD2INC"], "ADD2INC")
  <2>. DEFINE s == <<"incs">>
  <2>1. s \in Seq(Asked) /\ Len(s) = 1
    BY DEF Asked
  <2>2. s[1] = "incs"
    OBVIOUS
  <2>3. Script["ADD2INC"] = s
    BY DEF Script
  <2>. HIDE DEF s
  <2>4. Fits(s, "ADD2INC")
    BY <2>1, <2>2 DEF Fits, GraphPasses, FinderPasses, LoopPasses, Finds, Keepers, EditSteps,
                           SizedAt, Owned, Relaxers
  <2>. QED BY <2>3, <2>4
<1>11. Fits(Script["INC2ADD"], "INC2ADD")
  <2>. DEFINE s == <<"adds">>
  <2>1. s \in Seq(Asked) /\ Len(s) = 1
    BY DEF Asked
  <2>2. s[1] = "adds"
    OBVIOUS
  <2>3. Script["INC2ADD"] = s
    BY DEF Script
  <2>. HIDE DEF s
  <2>4. Fits(s, "INC2ADD")
    BY <2>1, <2>2 DEF Fits, GraphPasses, FinderPasses, LoopPasses, Finds, Keepers, EditSteps,
                           SizedAt, Owned, Relaxers
  <2>. QED BY <2>3, <2>4
<1>12. Fits(Script["NOPIN"], "NOPIN")
  <2>. DEFINE s == <<"insert", "uncfg">>
  <2>1. s \in Seq(Asked) /\ Len(s) = 2
    BY DEF Asked
  <2>2. s[1] = "insert" /\ s[2] = "uncfg"
    OBVIOUS
  <2>3. Script["NOPIN"] = s
    BY DEF Script
  <2>. HIDE DEF s
  <2>4. Fits(s, "NOPIN")
    BY <2>1, <2>2 DEF Fits, GraphPasses, FinderPasses, LoopPasses, Finds, Keepers, EditSteps,
                           SizedAt, Owned, Relaxers
  <2>. QED BY <2>3, <2>4
<1>13. p \in {"LOOP16", "BRSEP", "PALIAS", "TEST", "SCHED", "ADDADD", "ZEE", "PREFNTA",
             "NOPKILL", "ADD2INC", "INC2ADD", "NOPIN"}
  BY DEF Script
<1>. QED
  BY <1>1, <1>2, <1>3, <1>4, <1>5, <1>6, <1>7, <1>8, <1>9, <1>10, <1>11, <1>12, <1>13

LEMMA TailFits ==
  ASSUME NEW s, NEW p, Fits(s, p), s # <<>>
  PROVE  Fits(Tail(s), p)
<1>1. /\ s \in Seq(Asked) /\ Tail(s) \in Seq(Asked) /\ Len(s) \in Nat
      /\ Len(Tail(s)) = Len(s) - 1 /\ \A i \in 1 .. Len(Tail(s)) : Tail(s)[i] = s[i + 1]
  BY DEF Fits
<1>2. ASSUME NEW i \in 1 .. Len(Tail(s)), Tail(s)[i] \in {"cfg", "cfgC"}, p \in LoopPasses
      PROVE  \E j \in i + 1 .. Len(Tail(s)) : Finds(Tail(s)[j])
  <2>1. i + 1 \in 1 .. Len(s) /\ s[i + 1] \in {"cfg", "cfgC"}
    BY <1>1, <1>2
  <2>2. PICK j \in i + 2 .. Len(s) : Finds(s[j])
    BY <2>1, <1>1, <1>2 DEF Fits
  <2>3. j - 1 \in i + 1 .. Len(Tail(s)) /\ Tail(s)[j - 1] = s[j]
    BY <1>1, <2>2
  <2>. QED BY <2>2, <2>3
<1>3. ASSUME NEW i \in 1 .. Len(Tail(s)), Tail(s)[i] \in {"align", "scan", "move"}
      PROVE  p \in LoopPasses /\ \A j \in i .. Len(Tail(s)) : ~Finds(Tail(s)[j])
  <2>1. i + 1 \in 1 .. Len(s) /\ s[i + 1] \in {"align", "scan", "move"}
    BY <1>1, <1>3
  <2>2. p \in LoopPasses /\ \A j \in i + 1 .. Len(s) : ~Finds(s[j])
    BY <2>1 DEF Fits
  <2>. QED BY <1>1, <2>2
<1>4. \A i \in 1 .. Len(Tail(s)) : i + 1 \in 1 .. Len(s)
  BY <1>1
<1>5. ASSUME NEW i \in 1 .. Len(Tail(s))
      PROVE  SizedAt(Tail(s), i, p)
  <2>1. SizedAt(s, i + 1, p)
    BY <1>4 DEF Fits
  <2>2. /\ Tail(s)[i] = s[i + 1] /\ i \in Nat
        /\ Len(Tail(s)) = Len(s) - 1 /\ Len(s) \in Nat
    BY <1>1
  <2>. QED BY ONLY <2>1, <2>2 DEF SizedAt
<1>6. \A i \in 1 .. Len(Tail(s)) : Owned(Tail(s)[i], p)
  BY <1>1, <1>4 DEF Fits
<1>. QED BY <1>1, <1>2, <1>3, <1>4, <1>5, <1>6 DEF Fits

LEMMA NothingFits ==
  ASSUME NEW p
  PROVE  Fits(<<>>, p)
  BY DEF Fits

-----------------------------------------------------------------------------
(* What the actions do to the steps, the graphs and the loops.             *)

\* A step that leaves the graphs alone reads stale loops only where it reads
\* loops at all.
Quiet ==
  /\ steps # <<>> /\ ~Finds(steps[1])
  /\ UNCHANGED <<where, cached>>
  /\ steps' \in {steps, Tail(steps)}
  /\ "loops" \in misread' =>
       "loops" \in misread \/ (Running /\ steps[1] \in {"align", "scan", "move"} /\ lsg[fn] # cfg[fn].id)

LEMMA WorkIsQuiet ==
  ASSUME NEW step, NEW u, NEW marked, NEW read, At(step), Work(u, marked, read),
         ~Finds(step), "loops" \in read => step \in {"align", "scan", "move"} /\ lsg[fn] # cfg[fn].id
  PROVE  Quiet
<1>1. /\ steps # <<>> /\ steps[1] = step /\ Running
      /\ UNCHANGED <<where, cached>> /\ steps' = Tail(steps)
      /\ misread' = misread \cup read
  BY DEF At, Work
<1>2. "loops" \in misread' =>
         "loops" \in misread \/ (Running /\ steps[1] \in {"align", "scan", "move"} /\ lsg[fn] # cfg[fn].id)
  BY <1>1
<1>. QED BY <1>1, <1>2 DEF Quiet

\* A walk that goes astray leaves sizes and entries as they are.
LEMMA AstrayWork ==
  ASSUME GoAstray
  PROVE  \E u : /\ Work(u, <<>>, {}) /\ u.fate = "astray"
                /\ u.sizes = unit.sizes /\ u.entries = unit.entries
BY DEF GoAstray

LEMMA StepCases ==
  ASSUME Next
  PROVE  \/ AskCFG("cfg", FALSE) \/ AskCFG("cfgC", TRUE)
         \/ AskLSG("lsg", FALSE) \/ AskLSG("lsgC", TRUE)
         \/ DropCFG \/ NextPass \/ Quiet
<1>1. "loops" \in LoopsRead => lsg[fn] # cfg[fn].id
  BY DEF LoopsRead
<1>2. "loops" \notin SizesRead
  BY DEF SizesRead
<1>. USE DEF Finds
<1>3. CASE AskSizes \/ DropSizes
  BY <1>3, WorkIsQuiet DEF AskSizes, DropSizes
<1>4. CASE AlignLoops
  BY <1>1, <1>2, <1>4, WorkIsQuiet DEF AlignLoops
<1>5. CASE SeparateBranches
  BY <1>2, <1>5, WorkIsQuiet DEF SeparateBranches
<1>6. CASE Scan
  <2>1. CASE Astray
    BY <1>6, <2>1, AstrayWork, WorkIsQuiet DEF Scan
  <2>2. CASE ~Astray
    BY <1>1, <1>2, <1>6, <2>2, WorkIsQuiet DEF Scan
  <2>. QED BY <2>1, <2>2
<1>7. CASE MergeAdds \/ MarkExtents \/ Prefetch
  BY <1>7, AstrayWork, WorkIsQuiet DEF MergeAdds, MarkExtents, Prefetch
<1>8. CASE MarkNops \/ InsertNop
  BY <1>8, WorkIsQuiet DEF MarkNops, InsertNop
<1>9. CASE Replace("incs", AddsOfOne, "inc") \/ Replace("adds", Incs, "add")
  <2>1. ASSUME NEW u, NEW marked, At("incs"), Work(u, marked, {})
        PROVE  Quiet
    BY <2>1, WorkIsQuiet
  <2>2. ASSUME NEW u, NEW marked, At("adds"), Work(u, marked, {})
        PROVE  Quiet
    BY <2>2, WorkIsQuiet
  <2>. QED BY <1>9, <2>1, <2>2 DEF Replace
<1>10. CASE Scheduled
  BY <1>1, <1>10, AstrayWork, WorkIsQuiet DEF Scheduled
<1>11. CASE Schedule
  BY <1>1, <1>11 DEF Schedule, Quiet, At
<1>. QED
  BY <1>3, <1>4, <1>5, <1>6, <1>7, <1>8, <1>9, <1>10, <1>11 DEF Next

\* Whichever list the pass manager is given, the steps left are always a tail of
\* what the running pass asks for, loops after the graph.
THEOREM StepsTheorem == Spec => []StepsInv
<1>1. Init => StepsInv
  <2>. SUFFICES ASSUME Init PROVE StepsInv
    OBVIOUS
  <2>1. list \in Seq(DOMAIN Script) /\ list # <<>> /\ pos = 1 /\ steps = Script[list[1]]
    BY ListsAssumption DEF Init
  <2>2. 1 \in 1 .. Len(list) /\ list[1] \in DOMAIN Script
    BY <2>1
  <2>. QED BY <2>1, <2>2, ScriptFits DEF StepsInv, Pass
<1>2. StepsInv /\ [Next]_vars => StepsInv'
  <2>. SUFFICES ASSUME StepsInv, [Next]_vars PROVE StepsInv'
    OBVIOUS
  <2>. USE DEF StepsInv, Pass, where
  <2>1. CASE UNCHANGED <<list, pos>> /\ steps # <<>> /\ steps' \in {steps, Tail(steps), <<>>}
    BY <2>1, TailFits, NothingFits
  <2>2. CASE NextPass
    <3>1. list' = list /\ pos' \in 1 .. Len(list) /\ steps' = Script[list'[pos']]
      BY <2>2 DEF NextPass
    <3>2. list[pos'] \in DOMAIN Script
      BY <3>1
    <3>. QED BY <3>1, <3>2, ScriptFits
  <2>3. CASE AskCFG("cfg", FALSE) \/ AskCFG("cfgC", TRUE)
    BY <2>1, <2>3 DEF AskCFG, At
  <2>4. CASE AskLSG("lsg", FALSE) \/ AskLSG("lsgC", TRUE)
    BY <2>1, <2>4 DEF AskLSG, At
  <2>5. CASE DropCFG
    BY <2>1, <2>5 DEF DropCFG, At
  <2>6. CASE Quiet
    BY <2>1, <2>6 DEF Quiet
  <2>7. CASE UNCHANGED vars
    BY <2>7 DEF vars
  <2>. QED BY <2>2, <2>3, <2>4, <2>5, <2>6, <2>7, StepCases
<1>. QED BY <1>1, <1>2, PTL DEF Spec

-----------------------------------------------------------------------------
(* The graph that a pass walks.                                            *)

HeldInv ==
  held # 0 /\ fn \in DOMAIN cfg =>
    /\ cfg[fn].id = held
    /\ cfg[fn].conservative = (Pass = "SCHED")
    /\ Pass \notin {"NOPIN", "TEST"}

\* What the step at the head of the script tells of the pass.
LEMMA WhoAsks ==
  ASSUME StepsInv, NEW step, At(step)
  PROVE  /\ step = "cfg" => Pass \in GraphPasses
         /\ step = "lsg" => Pass \in FinderPasses
         /\ step \in {"cfgC", "lsgC"} => Pass = "SCHED"
         /\ step = "uncfg" => Pass = "NOPIN"
         /\ step \in {"align", "scan", "move"} =>
              Pass \in LoopPasses /\ \A j \in 1 .. Len(steps) : ~Finds(steps[j])
         /\ step \in {"cfg", "cfgC"} /\ Pass \in LoopPasses =>
              \E j \in 2 .. Len(steps) : Finds(steps[j])
<1>1. 1 \in 1 .. Len(steps) /\ steps[1] = step
  BY DEF StepsInv, Fits, At
<1>. QED BY <1>1 DEF StepsInv, Fits

LEMMA AskedGraph ==
  ASSUME NEW c \in BOOLEAN, fn \in DOMAIN cfg, GetCFG(c)
  PROVE  /\ cfg'[fn].conservative = c
         /\ DOMAIN cfg' = DOMAIN cfg
         /\ \A f \in DOMAIN cfg : f # fn => cfg'[f] = cfg[f]
         /\ cfg[fn].id # 0 /\ cfg[fn].conservative = c => cfg' = cfg
  BY DEF GetCFG, Reusable

\* The graph that a pass walks is not freed under it: the loop finder it asks
\* uses the same kind of graph, and the pass that invalidates walks none.
THEOREM HeldTheorem == Spec => []HeldIsAlive
<1>1. Init => HeldInv
  BY DEF Init, HeldInv
<1>2. StepsInv /\ HeldInv /\ [Next]_vars => HeldInv'
  <2>. SUFFICES ASSUME StepsInv, HeldInv, [Next]_vars PROVE HeldInv'
    OBVIOUS
  <2>. USE DEF HeldInv, Pass, where, cached
  <2>1. ASSUME NEW c \in BOOLEAN, NEW step, step = IF c THEN "cfgC" ELSE "cfg", AskCFG(step, c)
        PROVE  HeldInv'
    <3>1. At(step) /\ GetCFG(c) /\ held' = cfg'[fn].id /\ UNCHANGED <<list, fn, pos>>
      BY <2>1 DEF AskCFG
    <3>2. c = (Pass = "SCHED") /\ Pass \notin {"NOPIN", "TEST"}
      BY <2>1, <3>1, WhoAsks DEF GraphPasses
    <3>3. cfg'[fn].conservative = c
      BY <3>1, AskedGraph DEF At, Running
    <3>. QED BY <3>1, <3>2, <3>3
  <2>2. ASSUME NEW c \in BOOLEAN, NEW step, step = IF c THEN "lsgC" ELSE "lsg", AskLSG(step, c)
        PROVE  HeldInv'
    <3>1. At(step) /\ UNCHANGED <<list, fn, pos, held>> /\ fn \in DOMAIN cfg
      BY <2>2 DEF AskLSG, At, Running
    <3>2. cfg' = cfg \/ GetCFG(c)
      BY <2>2 DEF AskLSG, FinderGraph
    <3>3. c = (Pass = "SCHED")
      BY <2>2, <3>1, WhoAsks DEF FinderPasses
    <3>4. held # 0 => cfg' = cfg
      BY <3>1, <3>2, <3>3, AskedGraph
    <3>. QED BY <3>1, <3>4
  <2>3. CASE DropCFG
    <3>1. At("uncfg") /\ held' = held /\ fn \in DOMAIN cfg
      BY <2>3 DEF DropCFG, At, Running
    <3>2. Pass = "NOPIN"
      BY <3>1, WhoAsks
    <3>. QED BY <3>1, <3>2
  <2>4. CASE NextPass
    BY <2>4 DEF NextPass
  <2>5. CASE Quiet
    BY <2>5 DEF Quiet
  <2>6. CASE UNCHANGED vars
    BY <2>6 DEF vars
  <2>. QED BY <2>1, <2>2, <2>3, <2>4, <2>5, <2>6, StepCases
<1>3. HeldInv => HeldIsAlive
  BY DEF HeldInv, HeldIsAlive, Running
<1>. QED BY <1>1, <1>2, <1>3, StepsTheorem, PTL DEF Spec

-----------------------------------------------------------------------------
(* The loops that a pass reads.                                            *)

\* Lists that mix graphs of both kinds, or drop a graph and keep its loops.
Mixes ==
  \/ In("NOPIN")
  \/ In("SCHED") /\ \E i \in DOMAIN list :
       list[i] \in {"LOOP16", "PALIAS", "TEST", "ADDADD", "ZEE", "PREFNTA"}

\* The pass still has to ask for the loops.
ToFind == \E j \in 1 .. Len(steps) : Finds(steps[j])

LoopsInv ==
  ~Mixes =>
    /\ DOMAIN lsg = DOMAIN cfg
    /\ \A f \in DOMAIN cfg :
         /\ cfg[f].id # 0 => cfg[f].conservative = In("SCHED")
         /\ lsg[f] \in {0, cfg[f].id}
    /\ fn \in DOMAIN cfg /\ Pass \in LoopPasses /\ steps # <<>> /\ ~ToFind =>
         lsg[fn] = cfg[fn].id
    /\ "loops" \notin misread

LEMMA SameList ==
  ASSUME [Next]_vars
  PROVE  list' = list
<1>1. CASE AskCFG("cfg", FALSE) \/ AskCFG("cfgC", TRUE)
  BY <1>1 DEF AskCFG, where
<1>2. CASE AskLSG("lsg", FALSE) \/ AskLSG("lsgC", TRUE)
  BY <1>2 DEF AskLSG, where
<1>3. CASE DropCFG
  BY <1>3 DEF DropCFG, where
<1>4. CASE NextPass
  BY <1>4 DEF NextPass
<1>5. CASE Quiet
  BY <1>5 DEF Quiet, where
<1>6. CASE UNCHANGED vars
  BY <1>6 DEF vars, where
<1>. QED BY <1>1, <1>2, <1>3, <1>4, <1>5, <1>6, StepCases

LEMMA LoopsAreAsked ==
  ASSUME NEW p \in LoopPasses
  PROVE  \E j \in 1 .. Len(Script[p]) : Finds(Script[p][j])
<1>1. Script["LOOP16"][2] = "lsg" /\ 2 \in 1 .. Len(Script["LOOP16"])
  BY DEF Script
<1>2. Script["PALIAS"][4] = "lsg" /\ 4 \in 1 .. Len(Script["PALIAS"])
  BY DEF Script
<1>3. Script["SCHED"][2] = "lsgC" /\ 2 \in 1 .. Len(Script["SCHED"])
  BY DEF Script
<1>. QED BY <1>1, <1>2, <1>3 DEF LoopPasses, Finds

\* Graphs of one kind are never remade, so that loops stay loops of the graph;
\* where nobody drops it either, no pass reads loops of a graph that is gone.
THEOREM LoopsTheorem == Spec => []LoopsAreAlive
<1>1. StepsInv /\ Init => LoopsInv
  <2>. SUFFICES ASSUME StepsInv, Init PROVE LoopsInv
    OBVIOUS
  <2>1. steps = Script[Pass] /\ misread = {}
    BY DEF Init, Pass
  <2>2. Pass \in LoopPasses => ToFind
    BY <2>1, LoopsAreAsked DEF ToFind
  <2>3. PICK t \in Texts : cfg = [f \in DOMAIN t |-> NoCFG] /\ lsg = [f \in DOMAIN t |-> 0]
    BY DEF Init
  <2>. QED BY <2>1, <2>2, <2>3 DEF LoopsInv, NoCFG
<1>2. StepsInv /\ LoopsInv /\ [Next]_vars => LoopsInv'
  <2>. SUFFICES ASSUME StepsInv, LoopsInv, [Next]_vars PROVE LoopsInv'
    OBVIOUS
  <2>00. list' = list
    BY SameList
  <2>. SUFFICES ASSUME ~Mixes PROVE LoopsInv'
    BY <2>00 DEF LoopsInv, Mixes, In
  <2>0. In(Pass) /\ (Mixes' <=> Mixes) /\ In("SCHED")' = In("SCHED")
    BY <2>00 DEF In, Mixes, StepsInv, Pass
  <2>. DEFINE Goal ==
         /\ DOMAIN lsg' = DOMAIN cfg'
         /\ \A f \in DOMAIN cfg' :
              /\ cfg'[f].id # 0 => cfg'[f].conservative = In("SCHED")
              /\ lsg'[f] \in {0, cfg'[f].id}
         /\ fn' \in DOMAIN cfg' /\ Pass' \in LoopPasses /\ steps' # <<>> /\ ~ToFind' =>
              lsg'[fn'] = cfg'[fn'].id
         /\ "loops" \notin misread'
  <2>. SUFFICES Goal
    BY <2>0 DEF LoopsInv
  <2>. USE DEF LoopsInv
  <2>1. ASSUME NEW c \in BOOLEAN, NEW step, step = IF c THEN "cfgC" ELSE "cfg", AskCFG(step, c)
        PROVE  Goal
    <3>1. /\ At(step) /\ GetCFG(c) /\ UNCHANGED <<fn, pos, lsg, misread>>
          /\ fn \in DOMAIN cfg /\ steps # <<>> /\ steps' = Tail(steps)
      BY <2>1 DEF AskCFG, At, Running, where
    <3>2. c = In("SCHED")
      BY <2>1, <2>0, <3>1, WhoAsks DEF GraphPasses, Mixes, In
    <3>3. /\ DOMAIN cfg' = DOMAIN cfg
          /\ \A f \in DOMAIN cfg :
               /\ cfg'[f].id # 0 => cfg'[f].conservative = In("SCHED")
               /\ lsg[f] \in {0, cfg'[f].id}
      BY <3>1, <3>2, AskedGraph
    <3>4. Pass \in LoopPasses => ToFind'
      <4>1. SUFFICES ASSUME Pass \in LoopPasses PROVE ToFind'
        OBVIOUS
      <4>2. PICK j \in 2 .. Len(steps) : Finds(steps[j])
        BY <2>1, <3>1, <4>1, WhoAsks
      <4>3. j - 1 \in 1 .. Len(steps') /\ steps'[j - 1] = steps[j]
        BY <3>1, <4>2 DEF StepsInv, Fits
      <4>. QED BY <4>2, <4>3 DEF ToFind
    <3>5. Pass' = Pass
      BY <2>00, <3>1 DEF Pass
    <3>6. \A f \in DOMAIN cfg' :
            /\ cfg'[f].id # 0 => cfg'[f].conservative = In("SCHED")
            /\ lsg'[f] \in {0, cfg'[f].id}
      BY <3>1, <3>3
    <3>7. DOMAIN lsg' = DOMAIN cfg' /\ "loops" \notin misread'
      BY <3>1, <3>3
    <3>8. Pass' \in LoopPasses => ToFind'
      BY <3>4, <3>5
    <3>. QED BY <3>6, <3>7, <3>8
  <2>2. ASSUME NEW c \in BOOLEAN, NEW step, step = IF c THEN "lsgC" ELSE "lsg", AskLSG(step, c)
        PROVE  Goal
    <3>1. At(step) /\ UNCHANGED <<fn, pos, misread>> /\ fn \in DOMAIN cfg
      BY <2>2 DEF AskLSG, At, Running, where
    <3>2. \/ lsg[fn] # 0 /\ cfg' = cfg /\ lsg' = lsg
          \/ lsg[fn] = 0 /\ GetCFG(c) /\ lsg' = [lsg EXCEPT ![fn] = cfg'[fn].id]
      BY <2>2 DEF AskLSG, FinderGraph
    <3>3. c = In("SCHED")
      BY <2>2, <2>0, <3>1, WhoAsks DEF FinderPasses, Mixes, In
    <3>4. /\ DOMAIN lsg' = DOMAIN cfg' /\ DOMAIN cfg' = DOMAIN cfg
          /\ \A f \in DOMAIN cfg :
               /\ cfg'[f].id # 0 => cfg'[f].conservative = In("SCHED")
               /\ lsg'[f] \in {0, cfg'[f].id}
          /\ lsg'[fn] = cfg'[fn].id
      BY <3>1, <3>2, <3>3, AskedGraph
    <3>. QED BY <2>0, <3>1, <3>4
  <2>3. CASE DropCFG
    BY <2>0, <2>3, WhoAsks DEF DropCFG, Mixes, In
  <2>4. CASE NextPass
    <3>1. /\ pos' \in 1 .. Len(list) /\ steps' = Script[Pass'] /\ UNCHANGED <<cfg, lsg, misread>>
      BY <2>4 DEF NextPass, StepsInv, Pass
    <3>2. Pass' \in LoopPasses => ToFind'
      BY <3>1, LoopsAreAsked DEF ToFind
    <3>. QED BY <2>0, <3>1, <3>2
  <2>5. CASE Quiet
    <3>1. /\ steps # <<>> /\ ~Finds(steps[1]) /\ steps' \in {steps, Tail(steps)}
          /\ UNCHANGED <<fn, pos, cfg, lsg>> /\ Pass' = Pass
      BY <2>5 DEF Quiet, where, cached, Pass
    <3>2. ToFind => ToFind'
      <4>1. SUFFICES ASSUME ToFind, steps' = Tail(steps) PROVE ToFind'
        BY <3>1 DEF ToFind
      <4>2. PICK j \in 1 .. Len(steps) : Finds(steps[j])
        BY <4>1 DEF ToFind
      <4>3. j # 1
        BY <3>1, <4>2
      <4>4. j - 1 \in 1 .. Len(steps') /\ steps'[j - 1] = steps[j]
        BY <3>1, <4>1, <4>2, <4>3 DEF StepsInv, Fits
      <4>. QED BY <4>2, <4>4 DEF ToFind
    <3>3. "loops" \notin misread'
      <4>1. SUFFICES ASSUME Running, steps[1] \in {"align", "scan", "move"}, lsg[fn] # cfg[fn].id
                     PROVE  FALSE
        BY <2>5 DEF Quiet
      <4>2. Pass \in LoopPasses /\ ~ToFind
        BY <3>1, <4>1, WhoAsks DEF At, ToFind
      <4>. QED BY <3>1, <4>1, <4>2 DEF Running
    <3>. QED BY <2>0, <3>1, <3>2, <3>3
  <2>6. CASE UNCHANGED vars
    BY <2>0, <2>6 DEF vars, where, cached, Pass, ToFind
  <2>. QED BY <2>1, <2>2, <2>3, <2>4, <2>5, <2>6, StepCases
<1>3. LoopsInv => LoopsAreAlive
  BY DEF LoopsInv, LoopsAreAlive, Mixes
<1>. QED BY <1>1, <1>2, <1>3, StepsTheorem, PTL DEF Spec
-----------------------------------------------------------------------------
(* The sizes and offsets that a pass reads.                                *)

Current == unit.sizes.known /\ unit.sizes.of = TextOf(unit.entries)

\* A step that edits reads no sizes, but for SeparateBranches.
Edits ==
  \E step \in EditSteps :
    /\ At(step) /\ UNCHANGED where /\ steps' \in {steps, Tail(steps)}
    /\ "sizes" \in misread' => "sizes" \in misread \/ step = "separate"

LEMMA WorkIsEdit ==
  ASSUME NEW step \in EditSteps, NEW u, NEW marked, NEW read, At(step), Work(u, marked, read),
         "sizes" \in read => step = "separate"
  PROVE  Edits
<1>1. /\ UNCHANGED where /\ steps' \in {steps, Tail(steps)}
      /\ "sizes" \in misread' => "sizes" \in misread \/ step = "separate"
  BY DEF Work
<1>. QED BY <1>1 DEF Edits

LEMMA SizeCases ==
  ASSUME Next
  PROVE  \/ AskCFG("cfg", FALSE) \/ AskCFG("cfgC", TRUE)
         \/ AskLSG("lsg", FALSE) \/ AskLSG("lsgC", TRUE)
         \/ AskSizes \/ DropSizes \/ DropCFG \/ NextPass \/ AlignLoops \/ Scan \/ Edits
<1>1. "sizes" \notin LoopsRead
  BY DEF LoopsRead
<1>. USE DEF EditSteps
<1>2. CASE SeparateBranches
  BY <1>2, WorkIsEdit DEF SeparateBranches
<1>a. ASSUME NEW step \in EditSteps, NEW u, NEW marked, At(step), Work(u, marked, {})
      PROVE  Edits
  BY <1>a, WorkIsEdit
<1>3. CASE MergeAdds \/ MarkExtents \/ Prefetch
  <2>1. GoAstray => \E u, marked : Work(u, marked, {})
    BY AstrayWork
  <2>2. \E step \in {"merge", "extents", "prefetch"} :
          At(step) /\ \E u, marked : Work(u, marked, {})
    BY <1>3, <2>1 DEF MergeAdds, MarkExtents, Prefetch
  <2>. QED BY <2>2, <1>a
<1>4. CASE MarkNops \/ InsertNop
  <2>1. \E step \in {"nops", "insert"} : At(step) /\ \E u, marked : Work(u, marked, {})
    BY <1>4 DEF MarkNops, InsertNop
  <2>. QED BY <2>1, <1>a
<1>5. CASE Replace("incs", AddsOfOne, "inc") \/ Replace("adds", Incs, "add")
  <2>1. \E step \in {"incs", "adds"} : At(step) /\ \E u, marked : Work(u, marked, {})
    BY <1>5 DEF Replace
  <2>. QED BY <2>1, <1>a
<1>6. CASE Scheduled
  <2>1. CASE Astray
    BY <1>6, <2>1, AstrayWork, WorkIsEdit DEF Scheduled
  <2>2. CASE ~Astray
    BY <1>1, <1>6, <2>2, WorkIsEdit DEF Scheduled
  <2>. QED BY <2>1, <2>2
<1>7. CASE Schedule
  <2>1. /\ At("move") /\ UNCHANGED where /\ steps' = steps
        /\ misread' = misread \cup LoopsRead
    BY <1>7 DEF Schedule
  <2>. QED BY <1>1, <2>1 DEF Edits
<1>. QED BY <1>2, <1>3, <1>4, <1>5, <1>6, <1>7 DEF Next

\* Where the head of the script is, and where it is after it.
LEMMA SizeStep ==
  ASSUME StepsInv, NEW step, At(step)
  PROVE  /\ SizedAt(steps, 1, Pass) /\ steps[1] = step
         /\ Len(steps) \in Nat \ {0} /\ Len(Tail(steps)) = Len(steps) - 1
         /\ Len(<<>>) = 0
         /\ In(Pass)
<1>1. steps \in Seq(Asked) /\ steps # <<>> /\ steps[1] = step
  BY DEF StepsInv, Fits, At
<1>2. Len(steps) \in Nat \ {0} /\ Len(Tail(steps)) = Len(steps) - 1
  BY <1>1
<1>3. SizedAt(steps, 1, Pass)
  BY <1>2 DEF StepsInv, Fits
<1>4. In(Pass)
  BY DEF StepsInv, In, Pass
<1>. QED BY <1>1, <1>2, <1>3, <1>4

LEMMA ScriptLengths ==
  Len(Script["PALIAS"]) = 5 /\ Len(Script["LOOP16"]) = 4
<1>1. Script["PALIAS"] = <<"cfg", "drop", "sizes", "lsg", "scan">>
  BY DEF Script
<1>2. Script["LOOP16"] = <<"cfg", "lsg", "sizes", "align">>
  BY DEF Script
<1>. QED BY <1>1, <1>2

LEMMA RelaxedIsCurrent ==
  ASSUME NEW u, unit' = WithSizes(u, Relaxed(u))
  PROVE  Current'
<1>1. unit'.entries = u.entries /\ unit'.sizes = Relaxed(u)
  BY DEF WithSizes
<1>2. Relaxed(u).known /\ Relaxed(u).of = TextOf(u.entries)
  BY DEF Relaxed
<1>. QED BY <1>1, <1>2 DEF Current

LEMMA AskedSizes ==
  ASSUME AskSizes
  PROVE  /\ At("sizes") /\ UNCHANGED <<where, misread>> /\ steps' = Tail(steps)
         /\ redundants' = <<>>
         /\ IF unit.sizes.known THEN unit' = unit ELSE Current'
<1>1. /\ At("sizes") /\ UNCHANGED where /\ misread' = misread \cup {} /\ steps' = Tail(steps)
      /\ redundants' = <<>>
      /\ unit' = IF unit.sizes.known THEN unit ELSE WithSizes(unit, Relaxed(unit))
  BY DEF AskSizes, Work
<1>2. ~unit.sizes.known => Current'
  BY <1>1, RelaxedIsCurrent
<1>. QED BY <1>1, <1>2

LEMMA DroppedSizes ==
  ASSUME DropSizes
  PROVE  /\ At("drop") /\ UNCHANGED <<where, misread>> /\ steps' = Tail(steps)
         /\ redundants' = <<>> /\ ~unit'.sizes.known
<1>1. /\ At("drop") /\ UNCHANGED where /\ misread' = misread \cup {} /\ steps' = Tail(steps)
      /\ redundants' = <<>> /\ unit' = WithSizes(unit, NoMap)
  BY DEF DropSizes, Work
<1>2. unit'.sizes = NoMap
  BY <1>1 DEF WithSizes
<1>. QED BY <1>1, <1>2 DEF NoMap

LEMMA ScannedSizes ==
  ASSUME Scan
  PROVE  /\ At("scan") /\ UNCHANGED where /\ steps' = Tail(steps)
         /\ redundants' = <<>>
         /\ unit'.sizes = unit.sizes /\ Current' = Current
         /\ Current /\ "sizes" \notin misread => "sizes" \notin misread'
<1>1. "sizes" \notin LoopsRead
  BY DEF LoopsRead
<1>2. Current => "sizes" \notin SizesRead
  BY DEF Current, SizesRead
<1>3. PICK u, read : /\ Work(u, <<>>, read) /\ u.sizes = unit.sizes /\ u.entries = unit.entries
                     /\ read \in {{}, LoopsRead \cup SizesRead}
  <2>1. CASE Astray
    BY <2>1, AstrayWork DEF Scan
  <2>2. CASE ~Astray
    BY <2>2 DEF Scan
  <2>. QED BY <2>1, <2>2
<1>4. unit' = u /\ misread' = misread \cup read
  BY <1>3 DEF Work
<1>5. unit'.sizes = unit.sizes /\ Current' = Current
  BY <1>3, <1>4 DEF Current
<1>6. Current /\ "sizes" \notin misread => "sizes" \notin misread'
  BY <1>1, <1>2, <1>3, <1>4
<1>7. At("scan") /\ UNCHANGED where /\ steps' = Tail(steps) /\ redundants' = <<>>
  BY <1>3 DEF Scan, Work
<1>. QED BY <1>5, <1>6, <1>7

LEMMA AlignedSizes ==
  ASSUME AlignLoops
  PROVE  /\ At("align") /\ UNCHANGED where /\ steps' = Tail(steps)
         /\ redundants' = <<>>
         /\ unit' = unit \/ Current'
         /\ Current /\ "sizes" \notin misread => "sizes" \notin misread'
<1>1. "sizes" \notin LoopsRead
  BY DEF LoopsRead
<1>2. Current => "sizes" \notin SizesRead
  BY DEF Current, SizesRead
<1>3. PICK u : Work(u, <<>>, LoopsRead \cup SizesRead)
               /\ (u = unit \/ \E v : u = WithSizes(v, Relaxed(v)))
  BY DEF AlignLoops, Realigned
<1>4. unit' = unit \/ Current'
  BY <1>3, RelaxedIsCurrent DEF Work
<1>. QED BY <1>1, <1>2, <1>3, <1>4 DEF AlignLoops, Work

\* PALIAS drops the sizes and asks for new ones before it reads any.
RenewedInv ==
  ~In("LOOP16") /\ ~In("BRSEP") =>
    /\ "sizes" \notin misread
    /\ Pass = "PALIAS" => /\ Len(steps) \in 1 .. 2 => Current
                          /\ Len(steps) = 3 => ~unit.sizes.known

\* Among passes that only keep sizes, whatever is known is current.
KeptInv ==
  (\A i \in DOMAIN list : list[i] \in Keepers) =>
    /\ redundants = <<>>
    /\ "sizes" \notin misread
    /\ unit.sizes.known => Current
    /\ Pass = "LOOP16" /\ Len(steps) = 1 => Current
    /\ Pass = "PALIAS" /\ Len(steps) \in 1 .. 2 => Current

LEMMA RenewedStep ==
  ASSUME StepsInv, RenewedInv, [Next]_vars
  PROVE  RenewedInv'
<1>1. list' = list
  BY SameList
<1>. SUFFICES ASSUME ~In("LOOP16"), ~In("BRSEP") PROVE RenewedInv'
  BY <1>1 DEF RenewedInv, In
<1>. DEFINE Goal ==
       /\ "sizes" \notin misread'
       /\ Pass' = "PALIAS" => /\ Len(steps') \in 1 .. 2 => Current'
                              /\ Len(steps') = 3 => ~unit'.sizes.known
<1>. SUFFICES Goal
  BY DEF RenewedInv
<1>. USE DEF RenewedInv
<1>2. ASSUME UNCHANGED where
      PROVE  Pass' = Pass
  BY <1>2 DEF where, Pass
<1>3. UNCHANGED unit => Current' = Current
  BY DEF Current
<1>4. CASE AskCFG("cfg", FALSE) \/ AskCFG("cfgC", TRUE)
  <2>1. PICK step \in {"cfg", "cfgC"} :
          At(step) /\ UNCHANGED <<where, unit, misread>> /\ steps' = Tail(steps)
    BY <1>4 DEF AskCFG
  <2>. QED BY <2>1, <1>2, <1>3, SizeStep DEF SizedAt
<1>5. CASE AskLSG("lsg", FALSE) \/ AskLSG("lsgC", TRUE)
  <2>1. PICK step \in {"lsg", "lsgC"} :
          At(step) /\ UNCHANGED <<where, unit, misread>> /\ steps' \in {Tail(steps), <<>>}
    BY <1>5 DEF AskLSG
  <2>2. /\ Len(steps) \in Nat /\ Len(Tail(steps)) = Len(steps) - 1 /\ Len(<<>>) = 0
        /\ SizedAt(steps, 1, Pass) /\ steps[1] \in {"lsg", "lsgC"}
    BY <2>1, SizeStep
  <2>3. ASSUME Pass = "PALIAS" PROVE Len(steps) \notin 3 .. 4
    BY <2>2, <2>3 DEF SizedAt
  <2>4. Pass' = Pass /\ misread' = misread /\ unit' = unit /\ Current' = Current
    BY <2>1, <1>2, <1>3
  <2>5. Pass = "PALIAS" => Len(steps') # 3 /\ (Len(steps') \in 1 .. 2 => Len(steps) \in 1 .. 2)
    <3>1. CASE steps' = Tail(steps)
      BY <2>2, <2>3, <3>1
    <3>2. CASE steps' = <<>>
      BY <2>2, <3>2
    <3>. QED BY <2>1, <3>1, <3>2
  <2>. QED BY <2>4, <2>5
<1>6. CASE DropCFG
  <2>1. At("uncfg") /\ UNCHANGED <<where, unit, misread>> /\ steps' = Tail(steps)
    BY <1>6 DEF DropCFG
  <2>2. Pass = "NOPIN"
    BY <2>1, WhoAsks
  <2>. QED BY <2>1, <2>2, <1>2
<1>7. CASE AskSizes
  BY <1>7, <1>2, AskedSizes, SizeStep DEF SizedAt
<1>8. CASE DropSizes
  <2>1. Len(steps) = 4
    BY <1>8, DroppedSizes, SizeStep DEF SizedAt
  <2>2. Len(steps') = 3
    <3>1. At("drop") /\ steps' = Tail(steps)
      BY <1>8, DroppedSizes
    <3>2. Len(Tail(steps)) = Len(steps) - 1
      BY <3>1, SizeStep
    <3>3. Len(Tail(steps)) = 3
      BY <3>2, <2>1
    <3>. QED BY <3>1, <3>3
  <2>3. misread' = misread /\ ~unit'.sizes.known
    BY <1>8, DroppedSizes
  <2>. QED BY <2>2, <2>3
<1>9. CASE Scan
  <2>1. /\ At("scan") /\ UNCHANGED where /\ steps' = Tail(steps)
        /\ unit'.sizes = unit.sizes /\ Current' = Current
        /\ Current /\ "sizes" \notin misread => "sizes" \notin misread'
    BY <1>9, ScannedSizes
  <2>2. /\ SizedAt(steps, 1, Pass) /\ steps[1] = "scan" /\ Len(steps) \in Nat
        /\ Len(steps') = Len(steps) - 1
    BY <2>1, SizeStep
  <2>3. Pass = "PALIAS" /\ Len(steps) = 1
    BY <2>2 DEF SizedAt
  <2>. QED BY <2>1, <2>2, <2>3, <1>2
<1>10. CASE AlignLoops
  BY <1>10, AlignedSizes, SizeStep DEF SizedAt
<1>11. CASE Edits
  <2>1. PICK step \in EditSteps :
          /\ At(step) /\ UNCHANGED where
          /\ "sizes" \in misread' => "sizes" \in misread \/ step = "separate"
    BY <1>11 DEF Edits
  <2>. QED BY <2>1, <1>2, SizeStep DEF SizedAt, Keepers
<1>12. CASE NextPass
  <2>1. misread' = misread /\ steps' = Script[Pass']
    BY <1>1, <1>12 DEF NextPass, Pass
  <2>. QED BY <2>1, ScriptLengths
<1>13. CASE UNCHANGED vars
  BY <1>2, <1>3, <1>13 DEF vars
<1>. QED
  BY <1>4, <1>5, <1>6, <1>7, <1>8, <1>9, <1>10, <1>11, <1>12, <1>13, SizeCases

\* Deleting what was not marked changes nothing.
LEMMA NothingMarked ==
  ASSUME NEW u
  PROVE  Each(DeleteEntry, u, <<>>) = u
<1>. DEFINE Walk(w) ==
       [k \in 0 .. 0 |-> IF k = 0 THEN u
                          ELSE LET v == w[k - 1] IN DeleteEntry(v, <<>>[k])]
<1>1. Len(<<>>) = 0
  OBVIOUS
<1>2. \A w : (w = Walk(w)) => w[0] = u
  OBVIOUS
<1>3. [k \in 0 .. 0 |-> u] = Walk([k \in 0 .. 0 |-> u])
  OBVIOUS
<1>4. \E w : w = Walk(w)
  BY <1>3
<1>5. Each(DeleteEntry, u, <<>>) = (CHOOSE w : w = Walk(w))[0]
  BY <1>1 DEF Each
<1>. HIDE DEF Walk
<1>. QED BY <1>2, <1>4, <1>5

LEMMA KeptStep ==
  ASSUME StepsInv, KeptInv, [Next]_vars
  PROVE  KeptInv'
<1>1. list' = list
  BY SameList
<1>. SUFFICES ASSUME \A i \in DOMAIN list : list[i] \in Keepers PROVE KeptInv'
  BY <1>1 DEF KeptInv
<1>. DEFINE Goal ==
       /\ redundants' = <<>>
       /\ "sizes" \notin misread'
       /\ unit'.sizes.known => Current'
       /\ Pass' = "LOOP16" /\ Len(steps') = 1 => Current'
       /\ Pass' = "PALIAS" /\ Len(steps') \in 1 .. 2 => Current'
<1>. SUFFICES Goal
  BY DEF KeptInv
<1>. USE DEF KeptInv
<1>2. ASSUME UNCHANGED where
      PROVE  Pass' = Pass
  BY <1>2 DEF where, Pass
<1>3. UNCHANGED unit => Current' = Current
  BY DEF Current
<1>4. Current => unit.sizes.known
  BY DEF Current
<1>5. Pass \in Keepers
  BY DEF StepsInv, Pass
<1>6. CASE AskCFG("cfg", FALSE) \/ AskCFG("cfgC", TRUE)
  <2>1. PICK step \in {"cfg", "cfgC"} :
          /\ At(step) /\ UNCHANGED <<where, unit, misread, redundants>>
          /\ steps' = Tail(steps)
    BY <1>6 DEF AskCFG
  <2>. QED BY <2>1, <1>2, <1>3, SizeStep DEF SizedAt
<1>7. CASE AskLSG("lsg", FALSE) \/ AskLSG("lsgC", TRUE)
  <2>1. PICK step \in {"lsg", "lsgC"} :
          /\ At(step) /\ UNCHANGED <<where, unit, misread, redundants>>
          /\ steps' \in {Tail(steps), <<>>}
    BY <1>7 DEF AskLSG
  <2>2. /\ Len(steps) \in Nat /\ Len(Tail(steps)) = Len(steps) - 1 /\ Len(<<>>) = 0
        /\ SizedAt(steps, 1, Pass) /\ steps[1] \in {"lsg", "lsgC"}
    BY <2>1, SizeStep
  <2>3. ASSUME Pass = "PALIAS" PROVE Len(steps) # 3
    BY <2>2, <2>3 DEF SizedAt
  <2>4. ASSUME Pass = "LOOP16" PROVE Len(steps) # 2
    BY <2>2, <2>4 DEF SizedAt
  <2>5. /\ Pass' = Pass /\ misread' = misread /\ unit' = unit /\ Current' = Current
        /\ redundants' = redundants
    BY <2>1, <1>2, <1>3
  <2>6. /\ Pass = "PALIAS" /\ Len(steps') \in 1 .. 2 => Len(steps) \in 1 .. 2
        /\ ~(Pass = "LOOP16" /\ Len(steps') = 1)
    <3>1. CASE steps' = Tail(steps)
      BY <2>2, <2>3, <2>4, <3>1
    <3>2. CASE steps' = <<>>
      BY <2>2, <3>2
    <3>. QED BY <2>1, <3>1, <3>2
  <2>. QED BY <2>5, <2>6
<1>8. CASE DropCFG
  <2>1. At("uncfg")
    BY <1>8 DEF DropCFG
  <2>. QED BY <2>1, <1>5, WhoAsks DEF Keepers
<1>9. CASE AskSizes
  BY <1>9, <1>2, <1>3, <1>4, AskedSizes
<1>10. CASE DropSizes
  BY <1>10, <1>2, DroppedSizes, SizeStep, SMTT(60) DEF SizedAt
<1>11. CASE Scan
  BY <1>11, <1>2, <1>3, ScannedSizes, SizeStep DEF SizedAt
<1>12. CASE AlignLoops
  BY <1>12, <1>2, <1>3, <1>4, AlignedSizes, SizeStep DEF SizedAt
<1>13. CASE Edits
  <2>1. PICK step \in EditSteps : At(step)
    BY <1>13 DEF Edits
  <2>. QED BY <2>1, <1>5, SizeStep DEF SizedAt
<1>14. CASE NextPass
  <2>1. /\ misread' = misread /\ steps' = Script[Pass'] /\ redundants' = <<>>
        /\ unit' = Each(DeleteEntry, unit, <<>>)
    BY <1>1, <1>14 DEF NextPass, Pass
  <2>2. unit' = unit
    BY <2>1, NothingMarked
  <2>. QED BY <2>1, <2>2, <1>3, ScriptLengths
<1>15. CASE UNCHANGED vars
  BY <1>2, <1>3, <1>15 DEF vars
<1>. QED
  BY <1>6, <1>7, <1>8, <1>9, <1>10, <1>11, <1>12, <1>13, <1>14, <1>15, SizeCases

\* Sizes of an older text are read only where the list has a pass that reads
\* sizes without renewing them, and one that edits without dropping them.
THEOREM SizesTheorem == Spec => []SizesAreCurrent
<1>1. StepsInv /\ Init => RenewedInv /\ KeptInv
  <2>. SUFFICES ASSUME StepsInv, Init PROVE RenewedInv /\ KeptInv
    OBVIOUS
  <2>1. steps = Script[Pass] /\ misread = {} /\ redundants = <<>>
    BY DEF Init, Pass
  <2>2. PICK t \in Texts : unit = Parsed(t)
    BY DEF Init
  <2>3. ~unit.sizes.known
    BY <2>2 DEF Parsed, NoMap
  <2>. QED BY <2>1, <2>3, ScriptLengths DEF RenewedInv, KeptInv
<1>2. StepsInv /\ RenewedInv /\ KeptInv /\ [Next]_vars => RenewedInv' /\ KeptInv'
  BY RenewedStep, KeptStep
<1>3. RenewedInv /\ KeptInv => SizesAreCurrent
  BY DEF RenewedInv, KeptInv, SizesAreCurrent, Keepers
<1>. QED BY <1>1, <1>2, <1>3, StepsTheorem, PTL DEF Spec

-----------------------------------------------------------------------------
(* Recursion.                                                              *)

\* Every nonempty set of natural numbers has a least element.
LEMMA LeastElement ==
  ASSUME NEW T, T \subseteq Nat, T # {}
  PROVE  \E x \in T : \A y \in T : x <= y
PROOF
<1>1. \E x \in T : \A y \in T : ~ (<<y, x>> \in OpToRel(<, Nat))
  BY NatLessThanWellFounded, WFMin, Zenon
<1>2. \A x, y \in T : <<y, x>> \notin OpToRel(<, Nat) => x <= y
  BY DEF OpToRel
<1> QED
  BY <1>1, <1>2

\* What goes up with every number holds for all, if it holds for the first.
LEMMA CountUp ==
  ASSUME NEW n \in Nat, NEW R, 0 \in R, \A i \in 1 .. n : i - 1 \in R => i \in R
  PROVE  0 .. n \subseteq R
PROOF
<1> DEFINE D == {k \in 0 .. n : k \notin R}
<1> SUFFICES ASSUME D # {} PROVE FALSE
  OBVIOUS
<1>1. PICK k \in D : \A m \in D : k <= m
  <2>1. D \subseteq Nat /\ D # {}
    OBVIOUS
  <2> HIDE DEF D
  <2> QED
    BY ONLY <2>1, LeastElement
<1>2. k # 0
  OBVIOUS
<1>3. k - 1 \in 0 .. n /\ k - 1 \notin D /\ k \in 1 .. n
  BY <1>1, <1>2
<1> QED
  BY <1>3

\* f goes from a by n steps in S.
IsRun(f, S, a, step, n) ==
  /\ f \in [0 .. n -> S] /\ f[0] = a
  /\ \A k \in 1 .. n : f[k] = step[<<f[k - 1], k>>]

\* A recursion that stays in a set has a solution.
LEMMA Recursion ==
  ASSUME NEW S, NEW a \in S, NEW step \in [S \X Nat -> S], NEW n \in Nat
  PROVE  \E f : IsRun(f, S, a, step, n)
PROOF
<1> DEFINE D == {m \in Nat : \A f : ~IsRun(f, S, a, step, m)}
<1> SUFFICES ASSUME D # {} PROVE FALSE
  OBVIOUS
<1>1. PICK m \in D : \A k \in D : m <= k
  <2>1. D \subseteq Nat /\ D # {}
    OBVIOUS
  <2> HIDE DEF D
  <2> QED
    BY ONLY <2>1, LeastElement
<1>2. m # 0
  <2>1. IsRun([k \in 0 .. 0 |-> a], S, a, step, 0)
    BY DEF IsRun
  <2> QED
    BY <1>1, <2>1
<1>3. m - 1 \in Nat /\ m - 1 \notin D
  BY <1>1, <1>2
<1>4. PICK f : IsRun(f, S, a, step, m - 1)
  BY <1>3
<1> HIDE DEF D
<1> DEFINE next == step[<<f[m - 1], m>>]
           g == [k \in 0 .. m |-> IF k = m THEN next ELSE f[k]]
<1>0. m \in Nat
  BY <1>1 DEF D
<1>5. next \in S
  BY <1>0, <1>3, <1>4 DEF IsRun
<1>6. g \in [0 .. m -> S] /\ g[0] = a
  BY <1>0, <1>2, <1>4, <1>5 DEF IsRun
<1>7. ASSUME NEW k \in 1 .. m PROVE g[k] = step[<<g[k - 1], k>>]
  <2>1. g[k - 1] = f[k - 1] /\ k - 1 # m
    BY <1>0
  <2>2. CASE k = m
    <3>1. g[m] = next
      BY <1>0
    <3>2. next = step[<<f[m - 1], m>>]
      OBVIOUS
    <3> HIDE DEF g, next
    <3> QED
      BY ONLY <2>1, <2>2, <3>1, <3>2
  <2>3. CASE k # m
    <3>1. k \in 1 .. m - 1 /\ g[k] = f[k]
      BY <1>0, <2>3
    <3> QED
      BY <1>4, <2>1, <3>1 DEF IsRun
  <2> QED
    BY <2>2, <2>3
<1> HIDE DEF g
<1>8. IsRun(g, S, a, step, m)
  BY <1>6, <1>7 DEF IsRun
<1> QED
  BY <1>1, <1>8 DEF D

\* What every deletion keeps.
LEMMA EachDeleted ==
  ASSUME NEW S, NEW u \in S, NEW s \in Seq(Nat),
         \A v \in S : \A k \in 1 .. Len(s) : DeleteEntry(v, s[k]) \in S
  PROVE  Each(DeleteEntry, u, s) \in S
PROOF
<1> DEFINE n == Len(s)
           Is(w) == w = [k \in 0 .. n |-> IF k = 0 THEN u ELSE LET v == w[k - 1] IN DeleteEntry(v, s[k])]
           step == [p \in S \X Nat |-> IF p[2] \in 1 .. n THEN DeleteEntry(p[1], s[p[2]]) ELSE p[1]]
<1>1. n \in Nat
  OBVIOUS
<1>0. u \in S
  OBVIOUS
<1>2. step \in [S \X Nat -> S]
  BY <1>1
<1>3. \E w : Is(w)
  <2>0. PICK f : IsRun(f, S, u, step, n)
    <3> HIDE DEF step, n
    <3> QED
      BY <1>1, <1>2, <1>0, Recursion
  <2>1. /\ f \in [0 .. n -> S] /\ f[0] = u
        /\ \A k \in 1 .. n : f[k] = step[<<f[k - 1], k>>]
    BY <2>0 DEF IsRun
  <2>2. ASSUME NEW k \in 1 .. n PROVE f[k] = DeleteEntry(f[k - 1], s[k])
    <3>1. f[k - 1] \in S /\ k \in Nat
      BY <1>1, <2>1
    <3>2. step[<<f[k - 1], k>>] = DeleteEntry(f[k - 1], s[k])
      BY <3>1
    <3> QED
      BY <2>1, <3>2
  <2>3. Is(f)
    BY <1>1, <2>1, <2>2
  <2> QED
    BY <2>3
<1>4. ASSUME NEW w, Is(w) PROVE w[n] \in S
  <2> DEFINE R == {k \in 0 .. n : w[k] \in S}
  <2>1. 0 \in R
    BY <1>1, <1>4
  <2>2. ASSUME NEW k \in 1 .. n, k - 1 \in R PROVE k \in R
    <3>1. w[k] = DeleteEntry(w[k - 1], s[k]) /\ w[k - 1] \in S
      BY <1>1, <1>4, <2>2
    <3> QED
      BY <3>1, <1>1
  <2>3. 0 .. n \subseteq R
    <3> HIDE DEF R, n
    <3> QED
      BY <1>1, <2>1, <2>2, CountUp
  <2> QED
    BY <1>1, <2>3
<1> HIDE DEF step
<1>5. (CHOOSE w : Is(w))[n] \in S
  <2> HIDE DEF Is
  <2> QED
    BY <1>3, <1>4
<1> QED
  BY <1>5 DEF Each

\* What every merge keeps.
LEMMA EachMerged ==
  ASSUME NEW S, NEW u \in S, NEW s \in Seq(Nat),
         \A v \in S : \A k \in 1 .. Len(s) : Merge(v, s[k]) \in S
  PROVE  Each(Merge, u, s) \in S
PROOF
<1> DEFINE n == Len(s)
           Is(w) == w = [k \in 0 .. n |-> IF k = 0 THEN u ELSE LET v == w[k - 1] IN Merge(v, s[k])]
           step == [p \in S \X Nat |-> IF p[2] \in 1 .. n THEN Merge(p[1], s[p[2]]) ELSE p[1]]
<1>1. n \in Nat
  OBVIOUS
<1>0. u \in S
  OBVIOUS
<1>2. step \in [S \X Nat -> S]
  BY <1>1
<1>3. \E w : Is(w)
  <2>0. PICK f : IsRun(f, S, u, step, n)
    <3> HIDE DEF step, n
    <3> QED
      BY <1>1, <1>2, <1>0, Recursion
  <2>1. /\ f \in [0 .. n -> S] /\ f[0] = u
        /\ \A k \in 1 .. n : f[k] = step[<<f[k - 1], k>>]
    BY <2>0 DEF IsRun
  <2>2. ASSUME NEW k \in 1 .. n PROVE f[k] = Merge(f[k - 1], s[k])
    <3>1. f[k - 1] \in S /\ k \in Nat
      BY <1>1, <2>1
    <3>2. step[<<f[k - 1], k>>] = Merge(f[k - 1], s[k])
      BY <3>1
    <3> QED
      BY <2>1, <3>2
  <2>3. Is(f)
    BY <1>1, <2>1, <2>2
  <2> QED
    BY <2>3
<1>4. ASSUME NEW w, Is(w) PROVE w[n] \in S
  <2> DEFINE R == {k \in 0 .. n : w[k] \in S}
  <2>1. 0 \in R
    BY <1>1, <1>4
  <2>2. ASSUME NEW k \in 1 .. n, k - 1 \in R PROVE k \in R
    <3>1. w[k] = Merge(w[k - 1], s[k]) /\ w[k - 1] \in S
      BY <1>1, <1>4, <2>2
    <3> QED
      BY <3>1, <1>1
  <2>3. 0 .. n \subseteq R
    <3> HIDE DEF R, n
    <3> QED
      BY <1>1, <2>1, <2>2, CountUp
  <2> QED
    BY <1>1, <2>3
<1> HIDE DEF step
<1>5. (CHOOSE w : Is(w))[n] \in S
  <2> HIDE DEF Is
  <2> QED
    BY <1>3, <1>4
<1> QED
  BY <1>5 DEF Each

\* What every link keeps.
LEMMA EachIsLinked ==
  ASSUME NEW S, NEW u \in S, NEW s \in Seq(Nat), NEW kind,
         \A v \in S : \A k \in 1 .. Len(s) : LinkBefore(v, s[k], kind) \in S
  PROVE  EachLinked(u, s, kind) \in S
PROOF
<1> DEFINE n == Len(s)
           Is(w) == w = [k \in 0 .. n |-> IF k = 0 THEN u ELSE LET v == w[k - 1] IN LinkBefore(v, s[k], kind)]
           step == [p \in S \X Nat |-> IF p[2] \in 1 .. n THEN LinkBefore(p[1], s[p[2]], kind) ELSE p[1]]
<1>1. n \in Nat
  OBVIOUS
<1>0. u \in S
  OBVIOUS
<1>2. step \in [S \X Nat -> S]
  BY <1>1
<1>3. \E w : Is(w)
  <2>0. PICK f : IsRun(f, S, u, step, n)
    <3> HIDE DEF step, n
    <3> QED
      BY <1>1, <1>2, <1>0, Recursion
  <2>1. /\ f \in [0 .. n -> S] /\ f[0] = u
        /\ \A k \in 1 .. n : f[k] = step[<<f[k - 1], k>>]
    BY <2>0 DEF IsRun
  <2>2. ASSUME NEW k \in 1 .. n PROVE f[k] = LinkBefore(f[k - 1], s[k], kind)
    <3>1. f[k - 1] \in S /\ k \in Nat
      BY <1>1, <2>1
    <3>2. step[<<f[k - 1], k>>] = LinkBefore(f[k - 1], s[k], kind)
      BY <3>1
    <3> QED
      BY <2>1, <3>2
  <2>3. Is(f)
    BY <1>1, <2>1, <2>2
  <2> QED
    BY <2>3
<1>4. ASSUME NEW w, Is(w) PROVE w[n] \in S
  <2> DEFINE R == {k \in 0 .. n : w[k] \in S}
  <2>1. 0 \in R
    BY <1>1, <1>4
  <2>2. ASSUME NEW k \in 1 .. n, k - 1 \in R PROVE k \in R
    <3>1. w[k] = LinkBefore(w[k - 1], s[k], kind) /\ w[k - 1] \in S
      BY <1>1, <1>4, <2>2
    <3> QED
      BY <3>1, <1>1
  <2>3. 0 .. n \subseteq R
    <3> HIDE DEF R, n
    <3> QED
      BY <1>1, <2>1, <2>2, CountUp
  <2> QED
    BY <1>1, <2>3
<1> HIDE DEF step
<1>5. (CHOOSE w : Is(w))[n] \in S
  <2> HIDE DEF Is
  <2> QED
    BY <1>3, <1>4
<1> QED
  BY <1>5 DEF EachLinked, Each

\* One turn of Pick.
PickOne(v, e, set) == IF e \in set THEN Append(v, e) ELSE v

\* What every pick keeps.
LEMMA PickKeeps ==
  ASSUME NEW T, NEW s \in Seq(T), NEW set, NEW S, <<>> \in S,
         \A v \in S : \A k \in 1 .. Len(s) : PickOne(v, s[k], set) \in S
  PROVE  Pick(s, set) \in S
PROOF
<1> DEFINE n == Len(s)
           Is(w) == w = [k \in 0 .. n |-> IF k = 0 THEN <<>> ELSE PickOne(w[k - 1], s[k], set)]
           step == [p \in S \X Nat |-> IF p[2] \in 1 .. n THEN PickOne(p[1], s[p[2]], set) ELSE p[1]]
<1>1. n \in Nat
  OBVIOUS
<1>0. <<>> \in S
  OBVIOUS
<1>2. step \in [S \X Nat -> S]
  BY <1>1
<1>3. \E w : Is(w)
  <2>0. PICK f : IsRun(f, S, <<>>, step, n)
    <3> HIDE DEF step, n
    <3> QED
      BY <1>1, <1>2, <1>0, Recursion
  <2>1. /\ f \in [0 .. n -> S] /\ f[0] = <<>>
        /\ \A k \in 1 .. n : f[k] = step[<<f[k - 1], k>>]
    BY <2>0 DEF IsRun
  <2>2. ASSUME NEW k \in 1 .. n PROVE f[k] = PickOne(f[k - 1], s[k], set)
    <3>1. f[k - 1] \in S /\ k \in Nat
      BY <1>1, <2>1
    <3>2. step[<<f[k - 1], k>>] = PickOne(f[k - 1], s[k], set)
      BY <3>1
    <3> QED
      BY <2>1, <3>2
  <2>3. Is(f)
    BY <1>1, <2>1, <2>2
  <2> QED
    BY <2>3
<1>4. ASSUME NEW w, Is(w) PROVE w[n] \in S
  <2> DEFINE R == {k \in 0 .. n : w[k] \in S}
  <2>1. 0 \in R
    BY <1>1, <1>4
  <2>2. ASSUME NEW k \in 1 .. n, k - 1 \in R PROVE k \in R
    <3>1. w[k] = PickOne(w[k - 1], s[k], set) /\ w[k - 1] \in S
      BY <1>1, <1>4, <2>2
    <3> QED
      BY <3>1, <1>1
  <2>3. 0 .. n \subseteq R
    <3> HIDE DEF R, n
    <3> QED
      BY <1>1, <2>1, <2>2, CountUp
  <2> QED
    BY <1>1, <2>3
<1> HIDE DEF step
<1>5. (CHOOSE w : Is(w))[n] \in S
  <2> HIDE DEF Is
  <2> QED
    BY <1>3, <1>4
<1> QED
  BY <1>5 DEF Pick, PickOne

\* One turn of Joined.
JoinOne(v, part) == v \o part

\* What every join keeps.
LEMMA JoinKeeps ==
  ASSUME NEW T, NEW parts \in Seq(T), NEW S, <<>> \in S,
         \A v \in S : \A k \in 1 .. Len(parts) : JoinOne(v, parts[k]) \in S
  PROVE  Joined(parts) \in S
PROOF
<1> DEFINE n == Len(parts)
           Is(w) == w = [k \in 0 .. n |-> IF k = 0 THEN <<>> ELSE JoinOne(w[k - 1], parts[k])]
           step == [p \in S \X Nat |-> IF p[2] \in 1 .. n THEN JoinOne(p[1], parts[p[2]]) ELSE p[1]]
<1>1. n \in Nat
  OBVIOUS
<1>0. <<>> \in S
  OBVIOUS
<1>2. step \in [S \X Nat -> S]
  BY <1>1
<1>3. \E w : Is(w)
  <2>0. PICK f : IsRun(f, S, <<>>, step, n)
    <3> HIDE DEF step, n
    <3> QED
      BY <1>1, <1>2, <1>0, Recursion
  <2>1. /\ f \in [0 .. n -> S] /\ f[0] = <<>>
        /\ \A k \in 1 .. n : f[k] = step[<<f[k - 1], k>>]
    BY <2>0 DEF IsRun
  <2>2. ASSUME NEW k \in 1 .. n PROVE f[k] = JoinOne(f[k - 1], parts[k])
    <3>1. f[k - 1] \in S /\ k \in Nat
      BY <1>1, <2>1
    <3>2. step[<<f[k - 1], k>>] = JoinOne(f[k - 1], parts[k])
      BY <3>1
    <3> QED
      BY <2>1, <3>2
  <2>3. Is(f)
    BY <1>1, <2>1, <2>2
  <2> QED
    BY <2>3
<1>4. ASSUME NEW w, Is(w) PROVE w[n] \in S
  <2> DEFINE R == {k \in 0 .. n : w[k] \in S}
  <2>1. 0 \in R
    BY <1>1, <1>4
  <2>2. ASSUME NEW k \in 1 .. n, k - 1 \in R PROVE k \in R
    <3>1. w[k] = JoinOne(w[k - 1], parts[k]) /\ w[k - 1] \in S
      BY <1>1, <1>4, <2>2
    <3> QED
      BY <3>1, <1>1
  <2>3. 0 .. n \subseteq R
    <3> HIDE DEF R, n
    <3> QED
      BY <1>1, <2>1, <2>2, CountUp
  <2> QED
    BY <1>1, <2>3
<1> HIDE DEF step
<1>5. (CHOOSE w : Is(w))[n] \in S
  <2> HIDE DEF Is
  <2> QED
    BY <1>3, <1>4
<1> QED
  BY <1>5 DEF Joined, JoinOne

\* Picking from a sequence gives some of its elements.
LEMMA PickLemma ==
  ASSUME NEW T, NEW s \in Seq(T), NEW set
  PROVE  Pick(s, set) \in Seq(T \cap set)
PROOF
<1> DEFINE S == Seq(T \cap set)
<1>1. <<>> \in S
  OBVIOUS
<1>2. ASSUME NEW v \in S, NEW k \in 1 .. Len(s)
      PROVE  PickOne(v, s[k], set) \in S
  BY DEF PickOne
<1> QED
  BY <1>1, <1>2, PickKeeps

\* Joining sequences makes up no element.
LEMMA JoinedLemma ==
  ASSUME NEW T, NEW parts \in Seq(Seq(T))
  PROVE  Joined(parts) \in Seq(T)
PROOF
<1> DEFINE S == Seq(T)
<1>1. <<>> \in S
  OBVIOUS
<1>2. ASSUME NEW v \in S, NEW k \in 1 .. Len(parts)
      PROVE  JoinOne(v, parts[k]) \in S
  BY DEF JoinOne
<1> QED
  BY <1>1, <1>2, JoinKeeps

-----------------------------------------------------------------------------
(* The entries.                                                            *)

EntryType ==
  [kind : Kinds, n : Int, fn : Nat, next : Nat, prev : Nat, deleted : BOOLEAN]

\* Units of the functions fns, whose sizes are of the text `of'.
Units(fns, of) ==
  [entries : Seq(EntryType), first : [fns -> Nat], last : [fns -> Nat],
   sizes : [known : BOOLEAN, keys : SUBSET Nat, of : {of}],
   fate : {"ok", "aborted", "astray"}]

\* Where next_ may lead: on in the function until its .size, and there to the
\* next one.  Where prev_ may: back in the function, or to the .size of the one
\* before.  That is so of deleted entries too, whatever becomes of the list.
NextOk(es, e, to) ==
  /\ to \in DOMAIN es \cup {0}
  /\ IF es[e].kind = "size" THEN to # 0 => es[to].fn = es[e].fn + 1
     ELSE to # 0 /\ es[to].fn = es[e].fn
PrevOk(es, e, to) ==
  /\ to \in DOMAIN es \cup {0}
  /\ to # 0 => IF es[to].kind = "size" THEN es[to].fn + 1 = es[e].fn
               ELSE es[to].fn = es[e].fn
LinkedOn(es, e) == NextOk(es, e, es[e].next) /\ PrevOk(es, e, es[e].prev)

\* A function has its first entry, and ends with its .size, the only one.
Bounded(u, f) ==
  /\ u.first[f] \in DOMAIN u.entries /\ u.entries[u.first[f]].fn = f
  /\ u.last[f] \in DOMAIN u.entries /\ u.entries[u.last[f]].fn = f
  /\ u.entries[u.last[f]].kind = "size"

\* An entry without a size: of a function before f, or a kind in `made' of f.
Sized(u, f, made) ==
  u.sizes.known => \A e \in DOMAIN u.entries :
    \/ u.entries[e].deleted \/ e \in u.sizes.keys
    \/ u.entries[e].fn < f
    \/ u.entries[e].fn = f /\ u.entries[e].kind \in made

Listed(es) == es \in Seq(EntryType) /\ \A i \in 1 .. Len(es) : LinkedOn(es, i)
Linked(u, fns) ==
  /\ Listed(u.entries)
  /\ \A e \in 1 .. Len(u.entries) :
       /\ u.entries[e].fn \in fns
       /\ u.entries[e].kind = "size" => e = u.last[u.entries[e].fn]
  /\ \A f \in fns : Bounded(u, f)

\* The kinds that a pass puts in without a size, and those it deletes.
Makes == {<<"BRSEP", "align">>, <<"NOPIN", "nop">>, <<"ADD2INC", "inc">>,
          <<"INC2ADD", "add">>, <<"PREFNTA", "pref">>}
Deletes == {<<"NOPKILL", "nop">>, <<"NOPKILL", "align">>, <<"ZEE", "ext">>,
            <<"ADD2INC", "add">>, <<"INC2ADD", "inc">>, <<"ADDADD", "add">>}

\* What the passes so far may have left without a size in the function.
Made == {k \in Kinds : \E i \in 1 .. pos : <<list[i], k>> \in Makes}

\* What OnlyUnsizedAbort says of the list.
Excused ==
  /\ In("LOOP16") \/ In("BRSEP") \/ In("PALIAS") \/ In("TEST")
  /\ \/ Before({"BRSEP", "NOPIN"}, {"NOPKILL"})
     \/ Before({"ADD2INC"}, {"INC2ADD"})
     \/ Before({"INC2ADD"}, {"ADD2INC", "ADDADD"})

\* The entries of a function; where its blocks may begin and end.
Its(es, f) == {e \in 1 .. Len(es) : es[e].fn = f}
Ends(es, f) == {e \in Its(es, f) : es[e].kind # "size"}

\* The blocks of a graph begin and end in its function, whatever was deleted.
BlocksInv ==
  \A f \in DOMAIN cfg :
    cfg[f].blocks \in Seq(Ends(unit.entries, f) \X Ends(unit.entries, f))

\* What is marked is of the function, and of a kind that the pass deletes.
Marked == {e \in Its(unit.entries, fn) : <<Pass, unit.entries[e].kind>> \in Deletes}
MarkedInv == redundants \in Seq(Marked)

UnitInv ==
  /\ fn \in Nat
  /\ unit \in Units(DOMAIN cfg, unit.sizes.of) /\ Linked(unit, DOMAIN cfg)
  /\ Sized(unit, fn, Made)
  /\ unit.sizes.known => \E i \in DOMAIN list : list[i] \in Relaxers
  /\ unit.fate = "aborted" => Excused

-----------------------------------------------------------------------------
(* Edits.                                                                  *)

\* The same entries, linked otherwise.
Relinked(es) ==
  {es2 \in Seq(EntryType) :
     /\ Len(es2) = Len(es)
     /\ \A i \in 1 .. Len(es) :
          /\ es2[i].kind = es[i].kind /\ es2[i].fn = es[i].fn
          /\ es2[i].deleted = es[i].deleted
          /\ LinkedOn(es2, i)}

\* What a pointer may be does not depend on the pointers.
LEMMA StillOk ==
  ASSUME NEW es \in Seq(EntryType), NEW es2 \in Relinked(es), NEW i \in 1 .. Len(es), NEW to
  PROVE  /\ NextOk(es, i, to) = NextOk(es2, i, to)
         /\ PrevOk(es, i, to) = PrevOk(es2, i, to)
PROOF
<1>1. /\ DOMAIN es = 1 .. Len(es) /\ DOMAIN es2 = 1 .. Len(es)
      /\ \A k \in 1 .. Len(es) : es2[k].kind = es[k].kind /\ es2[k].fn = es[k].fn
  BY DEF Relinked
<1>2. Len(es) \in Nat
  OBVIOUS
<1> QED
  BY ONLY <1>1, <1>2, i \in 1 .. Len(es) DEF NextOk, PrevOk

\* An entry with another pointer.
LEMMA PointerLemma ==
  ASSUME NEW r \in EntryType, NEW to \in Nat
  PROVE  /\ LET q == [r EXCEPT !.prev = to] IN
              /\ q \in EntryType /\ q.kind = r.kind /\ q.fn = r.fn /\ q.deleted = r.deleted
              /\ q.next = r.next /\ q.prev = to
         /\ LET q == [r EXCEPT !.next = to] IN
              /\ q \in EntryType /\ q.kind = r.kind /\ q.fn = r.fn /\ q.deleted = r.deleted
              /\ q.next = to /\ q.prev = r.prev
PROOF
  BY DEF EntryType

\* An entry put for another in a sequence of entries.
LEMMA PutLemma ==
  ASSUME NEW S, NEW s \in Seq(S), NEW e \in 1 .. Len(s), NEW r \in S
  PROVE  LET s2 == [s EXCEPT ![e] = r] IN
           /\ s2 \in Seq(S) /\ Len(s2) = Len(s) /\ s2[e] = r
           /\ \A i \in 1 .. Len(s) : i # e => s2[i] = s[i]
PROOF
  OBVIOUS

\* set_next to an entry that it may lead to.
LEMMA SetNextStays ==
  ASSUME NEW es \in Seq(EntryType), NEW v \in Relinked(es), NEW e \in 0 .. Len(es),
         NEW to \in Nat, e # 0 => NextOk(es, e, to)
  PROVE  SetNext(v, e, to) \in Relinked(es)
PROOF
<1> SUFFICES ASSUME e # 0 PROVE [v EXCEPT ![e].next = to] \in Relinked(es)
  BY DEF SetNext
<1>1. v \in Seq(EntryType) /\ Len(v) = Len(es) /\ Len(es) \in Nat /\ e \in 1 .. Len(v)
  BY DEF Relinked
<1> DEFINE r == [v[e] EXCEPT !.next = to]
           w == [v EXCEPT ![e] = r]
<1>2. /\ r \in EntryType /\ r.kind = v[e].kind /\ r.fn = v[e].fn /\ r.deleted = v[e].deleted
      /\ r.next = to /\ r.prev = v[e].prev
  <2>1. v[e] \in EntryType
    BY <1>1
  <2> QED
    BY <2>1, PointerLemma
<1>3. [v EXCEPT ![e].next = to] = w
  OBVIOUS
<1> HIDE DEF r
<1>4. /\ w \in Seq(EntryType) /\ Len(w) = Len(es) /\ w[e] = r
      /\ \A i \in 1 .. Len(es) : i # e => w[i] = v[i]
  BY <1>1, <1>2, PutLemma
<1> HIDE DEF w
<1>5. ASSUME NEW i \in 1 .. Len(es)
      PROVE  /\ w[i].kind = es[i].kind /\ w[i].fn = es[i].fn /\ w[i].deleted = es[i].deleted
             /\ w[i].kind = v[i].kind /\ w[i].fn = v[i].fn
  BY <1>2, <1>4 DEF Relinked
<1>6. ASSUME NEW i \in 1 .. Len(es)
      PROVE  LinkedOn(w, i)
  <2>1. LinkedOn(v, i) /\ DOMAIN w = DOMAIN v
    BY <1>1, <1>4 DEF Relinked
  <2>2. w[i].prev = v[i].prev /\ NextOk(v, i, w[i].next)
    BY <1>2, <1>4, <2>1, StillOk DEF LinkedOn
  <2>3. DOMAIN v = 1 .. Len(es)
    BY <1>1
  <2> QED
    BY ONLY <1>1, <1>5, <2>1, <2>2, <2>3, i \in 1 .. Len(es) DEF LinkedOn, NextOk, PrevOk
<1> QED
  BY <1>3, <1>4, <1>5, <1>6 DEF Relinked

\* set_prev to an entry that it may lead to.
LEMMA SetPrevStays ==
  ASSUME NEW es \in Seq(EntryType), NEW v \in Relinked(es), NEW e \in 0 .. Len(es),
         NEW to \in Nat, e # 0 => PrevOk(es, e, to)
  PROVE  SetPrev(v, e, to) \in Relinked(es)
PROOF
<1> SUFFICES ASSUME e # 0 PROVE [v EXCEPT ![e].prev = to] \in Relinked(es)
  BY DEF SetPrev
<1>1. v \in Seq(EntryType) /\ Len(v) = Len(es) /\ Len(es) \in Nat /\ e \in 1 .. Len(v)
  BY DEF Relinked
<1> DEFINE r == [v[e] EXCEPT !.prev = to]
           w == [v EXCEPT ![e] = r]
<1>2. /\ r \in EntryType /\ r.kind = v[e].kind /\ r.fn = v[e].fn /\ r.deleted = v[e].deleted
      /\ r.prev = to /\ r.next = v[e].next
  <2>1. v[e] \in EntryType
    BY <1>1
  <2> QED
    BY <2>1, PointerLemma
<1>3. [v EXCEPT ![e].prev = to] = w
  OBVIOUS
<1> HIDE DEF r
<1>4. /\ w \in Seq(EntryType) /\ Len(w) = Len(es) /\ w[e] = r
      /\ \A i \in 1 .. Len(es) : i # e => w[i] = v[i]
  BY <1>1, <1>2, PutLemma
<1> HIDE DEF w
<1>5. ASSUME NEW i \in 1 .. Len(es)
      PROVE  /\ w[i].kind = es[i].kind /\ w[i].fn = es[i].fn /\ w[i].deleted = es[i].deleted
             /\ w[i].kind = v[i].kind /\ w[i].fn = v[i].fn
  BY <1>2, <1>4 DEF Relinked
<1>6. ASSUME NEW i \in 1 .. Len(es)
      PROVE  LinkedOn(w, i)
  <2>1. LinkedOn(v, i) /\ DOMAIN w = DOMAIN v
    BY <1>1, <1>4 DEF Relinked
  <2>2. w[i].next = v[i].next /\ PrevOk(v, i, w[i].prev)
    BY <1>2, <1>4, <2>1, StillOk DEF LinkedOn
  <2>3. DOMAIN v = 1 .. Len(es)
    BY <1>1
  <2> QED
    BY ONLY <1>1, <1>5, <2>1, <2>2, <2>3, i \in 1 .. Len(es) DEF LinkedOn, NextOk, PrevOk
<1> QED
  BY <1>3, <1>4, <1>5, <1>6 DEF Relinked

\* Where a pointer of a listed entry leads.
LEMMA ListedLemma ==
  ASSUME NEW es, Listed(es), NEW e \in 1 .. Len(es)
  PROVE  /\ es \in Seq(EntryType) /\ es \in Relinked(es) /\ DOMAIN es = 1 .. Len(es)
         /\ Len(es) \in Nat /\ es[e] \in EntryType /\ \A i \in 1 .. Len(es) : es[i].fn \in Nat
         /\ es[e].next \in 0 .. Len(es) /\ es[e].prev \in 0 .. Len(es)
         /\ NextOk(es, e, es[e].next) /\ PrevOk(es, e, es[e].prev)
PROOF
<1>1. /\ es \in Seq(EntryType) /\ DOMAIN es = 1 .. Len(es) /\ Len(es) \in Nat
      /\ es[e] \in EntryType /\ \A i \in 1 .. Len(es) : es[i].fn \in Nat
  <2>1. \A i \in 1 .. Len(es) : es[i] \in EntryType
    BY DEF Listed
  <2>2. \A r \in EntryType : r.fn \in Nat
    BY DEF EntryType
  <2> QED
    BY <2>1, <2>2 DEF Listed
<1>2. NextOk(es, e, es[e].next) /\ PrevOk(es, e, es[e].prev)
  BY DEF Listed, LinkedOn
<1>3. es \in Relinked(es)
  BY <1>1 DEF Listed, Relinked
<1> QED
  BY ONLY <1>1, <1>2, <1>3, e \in 1 .. Len(es) DEF NextOk, PrevOk

\* The neighbours of an entry may point to each other.
LEMMA UnhookStays ==
  ASSUME NEW es, Listed(es), NEW e \in 1 .. Len(es), es[e].kind # "size"
  PROVE  Unhook(es, e) \in Relinked(es)
PROOF
<1> DEFINE p == es[e].prev
           n == es[e].next
<1>1. /\ es \in Seq(EntryType) /\ es \in Relinked(es) /\ DOMAIN es = 1 .. Len(es)
      /\ Len(es) \in Nat /\ \A i \in 1 .. Len(es) : es[i].fn \in Nat
      /\ n \in 0 .. Len(es) /\ p \in 0 .. Len(es) /\ p \in Nat /\ n \in Nat
      /\ NextOk(es, e, n) /\ PrevOk(es, e, p)
  BY ListedLemma
<1>2. p # 0 => NextOk(es, p, n)
  BY <1>1 DEF NextOk, PrevOk
<1>3. n # 0 => PrevOk(es, n, p)
  BY <1>1 DEF NextOk, PrevOk
<1>4. SetNext(es, p, n) \in Relinked(es)
  BY <1>1, <1>2, SetNextStays
<1>5. SetPrev(SetNext(es, p, n), n, p) \in Relinked(es)
  BY <1>1, <1>3, <1>4, SetPrevStays
<1> QED
  BY <1>5 DEF Unhook

\* Instructions of a function may change places.
LEMMA SwapStays ==
  ASSUME NEW es, Listed(es), NEW a \in 1 .. Len(es), NEW b \in 1 .. Len(es),
         es[a].kind # "size", es[b].kind # "size", es[a].fn = es[b].fn
  PROVE  Swap(es, a, b) \in Relinked(es)
PROOF
<1> DEFINE p == es[a].prev
           n == es[b].next
           s1 == SetPrev(es, a, b)
           s2 == SetNext(s1, a, n)
           s3 == SetPrev(s2, b, p)
           s4 == SetNext(s3, b, a)
           s5 == SetNext(s4, p, b)
           s6 == SetPrev(s5, n, a)
<1>1. /\ es \in Seq(EntryType) /\ es \in Relinked(es) /\ DOMAIN es = 1 .. Len(es)
      /\ Len(es) \in Nat /\ \A i \in 1 .. Len(es) : es[i].fn \in Nat
      /\ n \in 0 .. Len(es) /\ p \in 0 .. Len(es) /\ p \in Nat /\ n \in Nat
      /\ NextOk(es, b, n) /\ PrevOk(es, a, p)
      /\ a \in 0 .. Len(es) /\ b \in 0 .. Len(es) /\ a \in Nat /\ b \in Nat
  BY ListedLemma
<1>2. /\ PrevOk(es, a, b) /\ NextOk(es, a, n) /\ PrevOk(es, b, p) /\ NextOk(es, b, a)
      /\ p # 0 => NextOk(es, p, b)
      /\ n # 0 => PrevOk(es, n, a)
  BY <1>1 DEF NextOk, PrevOk
<1>3. s1 \in Relinked(es)
  BY <1>1, <1>2, SetPrevStays
<1> HIDE DEF s1
<1>4. s2 \in Relinked(es)
  BY <1>1, <1>2, <1>3, SetNextStays
<1> HIDE DEF s2
<1>5. s3 \in Relinked(es)
  BY <1>1, <1>2, <1>4, SetPrevStays
<1> HIDE DEF s3
<1>6. s4 \in Relinked(es)
  BY <1>1, <1>2, <1>5, SetNextStays
<1> HIDE DEF s4
<1>7. s5 \in Relinked(es)
  BY <1>1, <1>2, <1>6, SetNextStays
<1> HIDE DEF s5
<1>8. s6 \in Relinked(es)
  BY <1>1, <1>2, <1>7, SetPrevStays
<1> QED
  BY <1>8 DEF Swap, s1, s2, s3, s4, s5

\* A new entry.
LEMMA EntryLemma ==
  ASSUME NEW k \in Kinds, NEW f \in Nat, NEW a \in Nat, NEW b \in Nat
  PROVE  LET r == Entry(k, f, a, b) IN
           r \in EntryType /\ r.kind = k /\ r.fn = f /\ r.next = a /\ r.prev = b /\ ~r.deleted
PROOF
<1> DEFINE n == IF k \in {"add", "inc"} THEN 1 ELSE 0
<1>1. n \in Int
  OBVIOUS
<1>2. Entry(k, f, a, b)
        = [kind |-> k, n |-> n, fn |-> f, next |-> a, prev |-> b, deleted |-> FALSE]
  BY DEF Entry
<1> HIDE DEF n
<1> QED
  BY <1>1, <1>2 DEF EntryType

\* A new entry at the end of the sequence, linked before e.
LEMMA AppendStays ==
  ASSUME NEW es, Listed(es), NEW e \in 1 .. Len(es), NEW k \in Kinds \ {"size"}
  PROVE  LET more == Append(es, Entry(k, es[e].fn, e, es[e].prev)) IN
           /\ Listed(more) /\ Len(more) = Len(es) + 1
           /\ \A i \in 1 .. Len(es) : more[i] = es[i]
           /\ more[Len(es) + 1].kind = k /\ more[Len(es) + 1].fn = es[e].fn
PROOF
<1> DEFINE f == es[e].fn
           p == es[e].prev
           r == Entry(k, f, e, p)
           N == Len(es)
           more == Append(es, r)
<1>1. /\ es \in Seq(EntryType) /\ DOMAIN es = 1 .. N
      /\ N \in Nat /\ \A i \in 1 .. N : LinkedOn(es, i)
      /\ p \in 0 .. N /\ f \in Nat /\ e \in 1 .. N /\ PrevOk(es, e, p)
  BY ListedLemma DEF Listed
<1>2. r \in EntryType /\ r.kind = k /\ r.fn = f /\ r.next = e /\ r.prev = p
  <2> HIDE DEF f, p, N
  <2> QED
    BY <1>1, EntryLemma
<1> HIDE DEF r
<1>3. /\ more \in Seq(EntryType) /\ Len(more) = N + 1 /\ DOMAIN more = 1 .. N + 1
      /\ more[N + 1] = r /\ \A i \in 1 .. N : more[i] = es[i]
  BY <1>1, <1>2
<1> HIDE DEF more
<1>4. f = es[e].fn /\ k # "size"
  OBVIOUS
<1> HIDE DEF f, p, N
<1>5. ASSUME NEW i \in 1 .. N
      PROVE  LinkedOn(more, i)
  <2>1. more[i] = es[i] /\ NextOk(es, i, es[i].next) /\ PrevOk(es, i, es[i].prev)
    BY ONLY <1>1, <1>3, i \in 1 .. N DEF LinkedOn
  <2>2. \A to \in 1 .. N : to \in DOMAIN es /\ to \in DOMAIN more /\ more[to] = es[to]
    BY ONLY <1>1, <1>3
  <2>3. \A to \in DOMAIN es : to \in 1 .. N
    BY ONLY <1>1
  <2>4. NextOk(more, i, es[i].next)
    BY ONLY <2>1, <2>2, <2>3 DEF NextOk
  <2>5. PrevOk(more, i, es[i].prev)
    BY ONLY <2>1, <2>2, <2>3 DEF PrevOk
  <2> QED
    BY ONLY <2>1, <2>4, <2>5 DEF LinkedOn
<1>6. LinkedOn(more, N + 1)
  BY ONLY <1>1, <1>2, <1>3, <1>4 DEF LinkedOn, NextOk, PrevOk
<1>7. Listed(more)
  BY <1>1, <1>3, <1>5, <1>6 DEF Listed
<1> QED
  BY <1>2, <1>3, <1>7 DEF more, r, f, p, N

\* The list that LinkBefore leaves.
LEMMA LinkedBefore ==
  ASSUME NEW es, Listed(es), NEW e \in 1 .. Len(es), NEW k \in Kinds \ {"size"}
  PROVE  LET new == Len(es) + 1
             p == es[e].prev
             more == Append(es, Entry(k, es[e].fn, e, p))
             es2 == SetNext(SetPrev(more, e, new), p, new)
         IN  /\ Listed(es2) /\ Len(es2) = new
             /\ \A i \in 1 .. Len(es) :
                  /\ es2[i].kind = es[i].kind /\ es2[i].fn = es[i].fn
                  /\ es2[i].deleted = es[i].deleted
             /\ es2[new].kind = k /\ es2[new].fn = es[e].fn
PROOF
<1> DEFINE N == Len(es)
           new == N + 1
           p == es[e].prev
           more == Append(es, Entry(k, es[e].fn, e, p))
           back == SetPrev(more, e, new)
           es2 == SetNext(back, p, new)
<1>1. /\ Listed(more) /\ Len(more) = new
      /\ \A i \in 1 .. N : more[i] = es[i]
      /\ more[new].kind = k /\ more[new].fn = es[e].fn
  BY AppendStays
<1>2. /\ N \in Nat /\ DOMAIN es = 1 .. N /\ p \in 0 .. N /\ e \in 1 .. N /\ PrevOk(es, e, p)
      /\ k # "size"
  BY ListedLemma
<1> HIDE DEF more
<1>3. /\ more \in Seq(EntryType) /\ more \in Relinked(more) /\ DOMAIN more = 1 .. new
      /\ \A i \in 1 .. new : more[i].fn \in Nat
      /\ e \in 0 .. Len(more) /\ p \in 0 .. Len(more) /\ new \in Nat
  <2>1. 1 \in 1 .. Len(more)
    BY <1>1, <1>2
  <2> QED
    BY <1>1, <1>2, <2>1, ListedLemma
<1> HIDE DEF N, p
<1>4. PrevOk(more, e, new) /\ (p # 0 => NextOk(more, p, new))
  BY <1>1, <1>2, <1>3 DEF PrevOk, NextOk
<1>5. back \in Relinked(more)
  BY <1>3, <1>4, SetPrevStays
<1> HIDE DEF back
<1>6. es2 \in Relinked(more)
  BY <1>3, <1>4, <1>5, SetNextStays
<1> HIDE DEF es2
<1>7. Listed(es2) /\ Len(es2) = new
  BY <1>1, <1>6 DEF Relinked, Listed
<1>8. /\ es2[new].kind = k /\ es2[new].fn = es[e].fn
      /\ \A i \in 1 .. N : /\ es2[i].kind = es[i].kind /\ es2[i].fn = es[i].fn
                           /\ es2[i].deleted = es[i].deleted
  BY <1>1, <1>2, <1>6 DEF Relinked
<1> QED
  BY <1>7, <1>8 DEF es2, back, more, p, N

\* The units that edits of a function f make of u, where the kinds `made' may
\* have been put in.
Edited(u, fns, f, made) ==
  {v \in Units(fns, u.sizes.of) :
     /\ Linked(v, fns) /\ Sized(v, f, made)
     /\ Len(u.entries) <= Len(v.entries)
     /\ \A i \in 1 .. Len(u.entries) :
          v.entries[i].kind = u.entries[i].kind /\ v.entries[i].fn = u.entries[i].fn
     /\ v.sizes.known = u.sizes.known
     /\ v.fate = "aborted" => Excused}

\* A unit with an entry more.
LEMMA LinkShape ==
  ASSUME NEW fns, NEW of, NEW u \in Units(fns, of), NEW e, NEW k,
         LET p == u.entries[e].prev
             more == Append(u.entries, Entry(k, u.entries[e].fn, e, p))
         IN  SetNext(SetPrev(more, e, Len(u.entries) + 1), p, Len(u.entries) + 1)
               \in Seq(EntryType)
  PROVE  LET v == LinkBefore(u, e, k)
             p == u.entries[e].prev
             more == Append(u.entries, Entry(k, u.entries[e].fn, e, p))
         IN  /\ v \in Units(fns, of) /\ v.sizes = u.sizes /\ v.fate = u.fate
             /\ v.last = u.last
             /\ v.entries
                  = SetNext(SetPrev(more, e, Len(u.entries) + 1), p, Len(u.entries) + 1)
             /\ \A f \in fns : v.first[f] = IF f = u.entries[e].fn /\ u.first[f] = e
                                              THEN Len(u.entries) + 1 ELSE u.first[f]
PROOF
<1> DEFINE new == Len(u.entries) + 1
           f == u.entries[e].fn
           p == u.entries[e].prev
           more == Append(u.entries, Entry(k, f, e, p))
           es2 == SetNext(SetPrev(more, e, new), p, new)
           v == LinkBefore(u, e, k)
<1>1. es2 \in Seq(EntryType) /\ new \in Nat
  BY DEF Units
<1>2. v = [u EXCEPT !.entries = es2, !.first[f] = IF @ = e THEN new ELSE @]
  BY DEF LinkBefore
<1> HIDE DEF es2, v, new, f
<1>3. /\ v \in Units(fns, of) /\ v.sizes = u.sizes /\ v.fate = u.fate
      /\ v.last = u.last /\ v.entries = es2
      /\ \A g \in fns : v.first[g] = IF g = f /\ u.first[g] = e THEN new ELSE u.first[g]
  BY <1>1, <1>2 DEF Units
<1> QED
  BY <1>3 DEF es2, v, new, f

\* A new entry of a kind that is made keeps the unit in order.
LEMMA LinkStays ==
  ASSUME NEW u, NEW fns, NEW f \in fns, NEW made, NEW v \in Edited(u, fns, f, made),
         u.entries \in Seq(EntryType),
         NEW e \in 1 .. Len(v.entries), v.entries[e].fn = f, NEW k \in Kinds \ {"size"},
         u.sizes.known => k \in made
  PROVE  LinkBefore(v, e, k) \in Edited(u, fns, f, made)
PROOF
<1> DEFINE N == Len(v.entries)
           w == LinkBefore(v, e, k)
           p == v.entries[e].prev
           more == Append(v.entries, Entry(k, v.entries[e].fn, e, p))
           es2 == SetNext(SetPrev(more, e, N + 1), p, N + 1)
<1>1. /\ v \in Units(fns, u.sizes.of) /\ Listed(v.entries) /\ v.entries \in Seq(EntryType)
      /\ N \in Nat /\ Len(u.entries) \in Nat /\ e \in 1 .. N /\ v.entries[e].fn = f
      /\ DOMAIN v.entries = 1 .. N
      /\ v.first \in [fns -> Nat]
  BY DEF Edited, Linked, Listed, Units
<1>0. N \in Nat
  BY <1>1
<1>2. /\ Listed(es2) /\ Len(es2) = N + 1
      /\ \A i \in 1 .. N :
           /\ es2[i].kind = v.entries[i].kind /\ es2[i].fn = v.entries[i].fn
           /\ es2[i].deleted = v.entries[i].deleted
      /\ es2[N + 1].kind = k /\ es2[N + 1].fn = f
  <2> DEFINE es == v.entries
             q == es[e].prev
             es3 == SetNext(SetPrev(Append(es, Entry(k, es[e].fn, e, q)), e, Len(es) + 1),
                            q, Len(es) + 1)
  <2>1. Listed(es) /\ e \in 1 .. Len(es)
    BY <1>1
  <2> HIDE DEF es
  <2>2. /\ Listed(es3) /\ Len(es3) = Len(es) + 1
        /\ \A i \in 1 .. Len(es) :
             /\ es3[i].kind = es[i].kind /\ es3[i].fn = es[i].fn
             /\ es3[i].deleted = es[i].deleted
        /\ es3[Len(es) + 1].kind = k /\ es3[Len(es) + 1].fn = es[e].fn
    BY <2>1, LinkedBefore
  <2>3. es3 = es2
    BY DEF es
  <2> HIDE DEF es3, es2
  <2> QED
    BY <1>1, <2>2, <2>3 DEF es
<1> HIDE DEF es2
<1>3. es2 \in Seq(EntryType) /\ DOMAIN es2 = 1 .. N + 1
  BY <1>2 DEF Listed
<1>4. /\ w \in Units(fns, u.sizes.of) /\ w.sizes = v.sizes /\ w.fate = v.fate
      /\ w.last = v.last /\ w.entries = es2
      /\ \A g \in fns : w.first[g] = IF g = f /\ v.first[g] = e THEN N + 1 ELSE v.first[g]
  BY <1>1, <1>3, LinkShape DEF es2
<1> HIDE DEF w, N
<1>5. Linked(w, fns)
  <2>1. ASSUME NEW g \in fns PROVE Bounded(w, g)
    <3>1. Bounded(v, g)
      BY DEF Edited, Linked
    <3>2. /\ v.last[g] \in 1 .. N /\ v.entries[v.last[g]].fn = g
          /\ v.entries[v.last[g]].kind = "size"
          /\ v.first[g] \in 1 .. N /\ v.entries[v.first[g]].fn = g
      BY <1>1, <3>1 DEF Bounded, N
    <3>3. /\ w.last[g] \in 1 .. N + 1 /\ es2[w.last[g]].fn = g
          /\ es2[w.last[g]].kind = "size"
      BY ONLY <1>0, <1>2, <1>4, <3>2
    <3>4. w.first[g] \in 1 .. N + 1 /\ es2[w.first[g]].fn = g
      <4>1. w.first[g] = IF g = f /\ v.first[g] = e THEN N + 1 ELSE v.first[g]
        BY <1>4
      <4> QED
        BY ONLY <1>0, <1>2, <3>2, <4>1
    <3> QED
      BY ONLY <1>3, <1>4, <3>3, <3>4 DEF Bounded
  <2>2. ASSUME NEW i \in 1 .. N + 1
        PROVE  /\ es2[i].fn \in fns
               /\ es2[i].kind = "size" => i = w.last[es2[i].fn]
    <3>1. CASE i = N + 1
      BY <3>1, <1>2
    <3>2. CASE i # N + 1
      <4>1. i \in 1 .. N
        BY ONLY <3>2, <1>0, i \in 1 .. N + 1
      <4>2. /\ v.entries[i].fn \in fns
            /\ v.entries[i].kind = "size" => i = v.last[v.entries[i].fn]
        BY <4>1 DEF Edited, Linked, N
      <4> QED
        BY <4>1, <4>2, <1>2, <1>4
    <3> QED
      BY <3>1, <3>2
  <2> QED
    BY <1>2, <1>4, <2>1, <2>2 DEF Linked
<1>6. Sized(w, f, made)
  <2> SUFFICES ASSUME w.sizes.known, NEW i \in 1 .. N + 1
               PROVE  \/ es2[i].deleted \/ i \in v.sizes.keys
                      \/ es2[i].fn < f
                      \/ es2[i].fn = f /\ es2[i].kind \in made
    BY <1>3, <1>4 DEF Sized
  <2>1. Sized(v, f, made) /\ v.sizes.known /\ u.sizes.known
    BY <1>4 DEF Edited
  <2>2. CASE i = N + 1
    BY <2>1, <2>2, <1>2
  <2>3. CASE i # N + 1
    <3>1. i \in 1 .. N
      BY ONLY <2>3, <1>0, i \in 1 .. N + 1
    <3> QED
      BY <2>1, <3>1, <1>1, <1>2 DEF Sized
  <2> QED
    BY <2>2, <2>3
<1>7. /\ Len(u.entries) <= Len(es2) /\ v.sizes.known = u.sizes.known
      /\ v.fate = "aborted" => Excused
      /\ \A i \in 1 .. Len(u.entries) :
           es2[i].kind = u.entries[i].kind /\ es2[i].fn = u.entries[i].fn
  <2>1. /\ Len(u.entries) <= N /\ v.sizes.known = u.sizes.known
        /\ v.fate = "aborted" => Excused
        /\ \A i \in 1 .. Len(u.entries) :
             v.entries[i].kind = u.entries[i].kind /\ v.entries[i].fn = u.entries[i].fn
    BY DEF Edited, N
  <2> QED
    BY <1>1, <1>2, <2>1
<1> QED
  BY <1>4, <1>5, <1>6, <1>7 DEF Edited, w

\* An entry marked as deleted.
LEMMA DeadLemma ==
  ASSUME NEW es \in Seq(EntryType), Listed(es), NEW e \in 1 .. Len(es)
  PROVE  LET dead == [es EXCEPT ![e].deleted = TRUE] IN
           /\ Listed(dead) /\ Len(dead) = Len(es) /\ dead[e].deleted
           /\ \A i \in 1 .. Len(es) :
                /\ dead[i].kind = es[i].kind /\ dead[i].fn = es[i].fn
                /\ i # e => dead[i].deleted = es[i].deleted
PROOF
<1> DEFINE r == [es[e] EXCEPT !.deleted = TRUE]
           dead == [es EXCEPT ![e] = r]
<1>1. Len(es) \in Nat /\ DOMAIN es = 1 .. Len(es)
  OBVIOUS
<1>2. /\ r \in EntryType /\ r.kind = es[e].kind /\ r.fn = es[e].fn /\ r.deleted
      /\ r.next = es[e].next /\ r.prev = es[e].prev
  <2>1. es[e] \in EntryType
    OBVIOUS
  <2> QED
    BY <2>1 DEF EntryType
<1>3. [es EXCEPT ![e].deleted = TRUE] = dead
  OBVIOUS
<1> HIDE DEF r
<1>4. /\ dead \in Seq(EntryType) /\ Len(dead) = Len(es) /\ dead[e] = r
      /\ DOMAIN dead = 1 .. Len(es)
      /\ \A i \in 1 .. Len(es) : i # e => dead[i] = es[i]
  BY <1>2, PutLemma
<1> HIDE DEF dead
<1>5. ASSUME NEW i \in 1 .. Len(es)
      PROVE  /\ dead[i].kind = es[i].kind /\ dead[i].fn = es[i].fn
             /\ dead[i].next = es[i].next /\ dead[i].prev = es[i].prev
             /\ i # e => dead[i].deleted = es[i].deleted
  BY <1>2, <1>4
<1>6. ASSUME NEW i \in 1 .. Len(es)
      PROVE  LinkedOn(dead, i)
  <2>1. LinkedOn(es, i)
    BY DEF Listed
  <2> QED
    BY ONLY <1>1, <1>4, <1>5, <2>1, i \in 1 .. Len(es) DEF LinkedOn, NextOk, PrevOk
<1> QED
  BY <1>2, <1>3, <1>4, <1>5, <1>6 DEF Listed

\* A unit with an entry less.
LEMMA DeleteShape ==
  ASSUME NEW fns, NEW of, NEW u \in Units(fns, of), NEW e \in 1 .. Len(u.entries),
         Unhook(u.entries, e) \in Seq(EntryType),
         [Unhook(u.entries, e) EXCEPT ![e].deleted = TRUE] \in Seq(EntryType)
  PROVE  LET w == DeleteEntry(u, e)
             r == u.entries[e]
             cut == Unhook(u.entries, e)
         IN  /\ w \in Units(fns, of)
             /\ r.deleted =>
                  /\ w.entries = cut /\ w.first = u.first /\ w.last = u.last
                  /\ w.sizes = u.sizes /\ w.fate = u.fate
             /\ ~r.deleted =>
                  /\ w.entries = [cut EXCEPT ![e].deleted = TRUE]
                  /\ \A g \in fns :
                       /\ w.first[g] = IF g = r.fn /\ u.first[g] = e THEN r.next ELSE u.first[g]
                       /\ w.last[g] = IF g = r.fn /\ u.last[g] = e THEN r.prev ELSE u.last[g]
                  /\ w.sizes.known = u.sizes.known /\ w.sizes.keys = u.sizes.keys \ {e}
                  /\ w.fate = IF HasSize(u, e) THEN u.fate ELSE "aborted"
PROOF
<1> DEFINE r == u.entries[e]
           cut == Unhook(u.entries, e)
           dead == [cut EXCEPT ![e].deleted = TRUE]
           w == DeleteEntry(u, e)
<1>1. r.next \in Nat /\ r.prev \in Nat
  <2>1. r \in EntryType
    BY DEF Units
  <2> QED
    BY <2>1 DEF EntryType
<1>2. w = IF r.deleted THEN [u EXCEPT !.entries = cut]
          ELSE [u EXCEPT !.entries = dead,
                         !.first[r.fn] = IF @ = e THEN r.next ELSE @,
                         !.last[r.fn] = IF @ = e THEN r.prev ELSE @,
                         !.sizes.keys = @ \ {e},
                         !.fate = IF HasSize(u, e) THEN @ ELSE "aborted"]
  BY DEF DeleteEntry
<1> HIDE DEF cut, dead, w, r
<1>3. cut \in Seq(EntryType) /\ dead \in Seq(EntryType)
  BY DEF cut, dead
<1>4. ASSUME r.deleted
      PROVE  /\ w \in Units(fns, of)
             /\ w.entries = cut /\ w.first = u.first /\ w.last = u.last
             /\ w.sizes = u.sizes /\ w.fate = u.fate
  BY <1>2, <1>3, <1>4 DEF Units
<1>5. ASSUME ~r.deleted
      PROVE  /\ w \in Units(fns, of)
             /\ w.entries = dead
             /\ \A g \in fns :
                  /\ w.first[g] = IF g = r.fn /\ u.first[g] = e THEN r.next ELSE u.first[g]
                  /\ w.last[g] = IF g = r.fn /\ u.last[g] = e THEN r.prev ELSE u.last[g]
             /\ w.sizes.known = u.sizes.known /\ w.sizes.keys = u.sizes.keys \ {e}
             /\ w.fate = IF HasSize(u, e) THEN u.fate ELSE "aborted"
  <2>1. w = [u EXCEPT !.entries = dead,
                      !.first[r.fn] = IF @ = e THEN r.next ELSE @,
                      !.last[r.fn] = IF @ = e THEN r.prev ELSE @,
                      !.sizes.keys = @ \ {e},
                      !.fate = IF HasSize(u, e) THEN @ ELSE "aborted"]
    BY ONLY <1>2, <1>5
  <2>2. /\ u \in Units(fns, of) /\ r.next \in Nat /\ r.prev \in Nat
        /\ dead \in Seq(EntryType)
    BY <1>1, <1>3
  <2> DEFINE fs == [u.first EXCEPT ![r.fn] = IF @ = e THEN r.next ELSE @]
             ls == [u.last EXCEPT ![r.fn] = IF @ = e THEN r.prev ELSE @]
             fate == IF HasSize(u, e) THEN u.fate ELSE "aborted"
  <2>3. fs \in [fns -> Nat] /\ ls \in [fns -> Nat]
        /\ \A g \in fns :
             /\ fs[g] = IF g = r.fn /\ u.first[g] = e THEN r.next ELSE u.first[g]
             /\ ls[g] = IF g = r.fn /\ u.last[g] = e THEN r.prev ELSE u.last[g]
    BY ONLY <2>2 DEF Units
  <2>4. w = [entries |-> dead, first |-> fs, last |-> ls,
             sizes |-> [known |-> u.sizes.known, keys |-> u.sizes.keys \ {e},
                        of |-> u.sizes.of],
             fate |-> fate]
    BY ONLY <2>1, <2>2 DEF Units
  <2>5. /\ u.sizes.known \in BOOLEAN /\ u.sizes.keys \ {e} \in SUBSET Nat
        /\ u.sizes.of = of /\ fate \in {"ok", "aborted", "astray"}
    BY ONLY <2>2 DEF Units
  <2> HIDE DEF fs, ls, fate
  <2>6. w \in Units(fns, of)
    BY ONLY <2>2, <2>3, <2>4, <2>5 DEF Units
  <2> QED
    BY ONLY <2>3, <2>4, <2>6 DEF fate
<1> QED
  BY <1>4, <1>5 DEF cut, dead, w, r

\* A deletion keeps the unit in order; it aborts only if the entry has no size.
LEMMA DeleteStays ==
  ASSUME NEW u, NEW fns, NEW f \in fns, NEW made, NEW v \in Edited(u, fns, f, made),
         f \in Nat, NEW e \in 1 .. Len(v.entries), u.entries \in Seq(EntryType),
         v.entries[e].fn = f, v.entries[e].kind # "size",
         u.sizes.known /\ v.entries[e].kind \in made => Excused
  PROVE  DeleteEntry(v, e) \in Edited(u, fns, f, made)
PROOF
<1> DEFINE es == v.entries
           N == Len(es)
           w == DeleteEntry(v, e)
           cut == Unhook(es, e)
           dead == [cut EXCEPT ![e].deleted = TRUE]
<1>1. /\ v \in Units(fns, u.sizes.of) /\ Listed(es)
      /\ N \in Nat /\ Len(u.entries) \in Nat /\ e \in 1 .. N
      /\ es[e].fn = f /\ es[e].kind # "size" /\ es[e].kind = v.entries[e].kind
      /\ es \in Seq(EntryType)
  BY DEF Edited, Linked, Listed, Units
<1>0. N \in Nat
  BY <1>1
<1>2. /\ Sized(v, f, made) /\ Linked(v, fns) /\ v.sizes.known = u.sizes.known
      /\ v.fate = "aborted" => Excused
      /\ Len(u.entries) <= N
      /\ \A i \in 1 .. Len(u.entries) :
           es[i].kind = u.entries[i].kind /\ es[i].fn = u.entries[i].fn
  BY DEF Edited
<1>3. /\ Listed(cut) /\ cut \in Seq(EntryType) /\ Len(cut) = N /\ DOMAIN cut = 1 .. N
      /\ \A i \in 1 .. N : /\ cut[i].kind = es[i].kind /\ cut[i].fn = es[i].fn
                           /\ cut[i].deleted = es[i].deleted
  <2>1. cut \in Relinked(es)
    <3> HIDE DEF es
    <3> QED
      BY <1>1, UnhookStays DEF N
  <2> HIDE DEF cut, es
  <2> QED
    BY <2>1 DEF Relinked, Listed
<1>4. /\ Listed(dead) /\ Len(dead) = N /\ dead[e].deleted
      /\ \A i \in 1 .. N : /\ dead[i].kind = es[i].kind /\ dead[i].fn = es[i].fn
                           /\ i # e => dead[i].deleted = es[i].deleted
  <2> HIDE DEF cut, es
  <2>1. e \in 1 .. Len(cut)
    BY <1>1, <1>3
  <2>2. /\ Listed(dead) /\ Len(dead) = Len(cut) /\ dead[e].deleted
        /\ \A i \in 1 .. Len(cut) :
             /\ dead[i].kind = cut[i].kind /\ dead[i].fn = cut[i].fn
             /\ i # e => dead[i].deleted = cut[i].deleted
    BY <1>3, <2>1, DeadLemma
  <2> HIDE DEF dead
  <2> QED
    BY <1>3, <2>2
<1>5. /\ es[e].next \in 1 .. N /\ es[es[e].next].fn = f
  <2>1. NextOk(es, e, es[e].next) /\ es[e].kind # "size" /\ DOMAIN es = 1 .. N
    BY <1>1 DEF Listed, LinkedOn
  <2> HIDE DEF N, es
  <2> QED
    BY <1>1, <2>1 DEF NextOk
<1>6. /\ w \in Units(fns, u.sizes.of)
      /\ es[e].deleted =>
           /\ w.entries = cut /\ w.first = v.first /\ w.last = v.last
           /\ w.sizes = v.sizes /\ w.fate = v.fate
      /\ ~es[e].deleted =>
           /\ w.entries = dead
           /\ \A g \in fns :
                /\ w.first[g] = IF g = f /\ v.first[g] = e THEN es[e].next ELSE v.first[g]
                /\ w.last[g] = IF g = f /\ v.last[g] = e THEN es[e].prev ELSE v.last[g]
           /\ w.sizes.known = v.sizes.known /\ w.sizes.keys = v.sizes.keys \ {e}
           /\ w.fate = IF HasSize(v, e) THEN v.fate ELSE "aborted"
  <2>1. dead \in Seq(EntryType)
    BY <1>4 DEF Listed
  <2>2. /\ cut \in Seq(EntryType) /\ e \in 1 .. Len(v.entries)
        /\ v \in Units(fns, u.sizes.of) /\ es[e].fn = f
    BY <1>1, <1>3
  <2> HIDE DEF w
  <2>3. w = DeleteEntry(v, e)
    BY DEF w
  <2> QED
    BY ONLY <2>1, <2>2, <2>3, DeleteShape
<1> HIDE DEF w, N, cut, dead, es
<1>7. /\ Listed(w.entries) /\ Len(w.entries) = N /\ DOMAIN w.entries = 1 .. N
      /\ w.entries \in Seq(EntryType)
      /\ \A i \in 1 .. N : /\ w.entries[i].kind = es[i].kind /\ w.entries[i].fn = es[i].fn
                           /\ i # e => w.entries[i].deleted = es[i].deleted
      /\ w.entries[e].deleted
  <2>1. CASE es[e].deleted
    BY <2>1, <1>1, <1>3, <1>6
  <2>2. CASE ~es[e].deleted
    BY <2>2, <1>1, <1>4, <1>6 DEF Listed
  <2> QED
    BY <2>1, <2>2
<1>8. ASSUME NEW g \in fns
      PROVE  w.last[g] = v.last[g] /\ Bounded(w, g)
  <2>1. /\ v.first[g] \in 1 .. N /\ es[v.first[g]].fn = g
        /\ v.last[g] \in 1 .. N /\ es[v.last[g]].fn = g /\ es[v.last[g]].kind = "size"
    <3>1. Bounded(v, g) /\ DOMAIN v.entries = 1 .. N /\ v.entries = es
      BY <1>1, <1>2 DEF Linked, N, es
    <3> QED
      BY <3>1 DEF Bounded
  <2>2. v.last[g] # e
    BY <1>1, <2>1
  <2>3. w.last[g] = v.last[g]
    BY <1>6, <2>2
  <2>4. w.first[g] \in 1 .. N /\ es[w.first[g]].fn = g
    BY <1>5, <1>6, <2>1
  <2>5. w.last[g] \in 1 .. N /\ w.entries[w.last[g]].fn = g
        /\ w.entries[w.last[g]].kind = "size"
    BY ONLY <1>7, <2>1, <2>3
  <2>6. w.first[g] \in 1 .. N /\ w.entries[w.first[g]].fn = g
    BY ONLY <1>7, <2>4
  <2> QED
    BY ONLY <1>7, <2>3, <2>5, <2>6 DEF Bounded
<1>9. Linked(w, fns)
  <2>1. ASSUME NEW i \in 1 .. N
        PROVE  /\ w.entries[i].fn \in fns
               /\ w.entries[i].kind = "size" => i = w.last[w.entries[i].fn]
    <3>1. es[i].fn \in fns /\ (es[i].kind = "size" => i = v.last[es[i].fn])
      BY <1>2 DEF Linked, N, es
    <3>2. w.entries[i].kind = es[i].kind /\ w.entries[i].fn = es[i].fn
      BY ONLY <1>7, i \in 1 .. N
    <3>3. w.last[es[i].fn] = v.last[es[i].fn]
      BY <3>1, <1>8
    <3> QED
      BY ONLY <3>1, <3>2, <3>3
  <2> QED
    BY <1>7, <1>8, <2>1 DEF Linked
<1>10. Sized(w, f, made)
  <2> SUFFICES ASSUME w.sizes.known, NEW i \in 1 .. N, ~w.entries[i].deleted
               PROVE  \/ i \in w.sizes.keys
                      \/ w.entries[i].fn < f
                      \/ w.entries[i].fn = f /\ w.entries[i].kind \in made
    BY <1>7 DEF Sized
  <2>1. i # e /\ v.sizes.known /\ ~es[i].deleted
    BY <1>6, <1>7
  <2>2. \/ i \in v.sizes.keys \/ es[i].fn < f
        \/ es[i].fn = f /\ es[i].kind \in made
    BY <1>1, <1>2, <2>1 DEF Sized, N, es
  <2>3. i \in v.sizes.keys => i \in w.sizes.keys
    BY <2>1, <1>6
  <2> QED
    BY <2>2, <2>3, <1>7
<1>11. w.fate = "aborted" => Excused
  <2> SUFFICES ASSUME ~es[e].deleted, ~HasSize(v, e) PROVE Excused
    BY <1>2, <1>6
  <2>1. v.sizes.known /\ e \notin v.sizes.keys
    BY DEF HasSize
  <2>2. es[e].kind \in made
    BY <1>1, <1>2, <2>1 DEF Sized, N, es
  <2> QED
    BY <1>1, <1>2, <2>1, <2>2
<1>12. w.sizes.known = u.sizes.known
  BY <1>2, <1>6
<1>13. /\ Len(u.entries) <= Len(w.entries)
       /\ \A i \in 1 .. Len(u.entries) :
            w.entries[i].kind = u.entries[i].kind /\ w.entries[i].fn = u.entries[i].fn
  BY <1>1, <1>2, <1>7
<1> QED
  BY <1>6, <1>9, <1>10, <1>11, <1>12, <1>13 DEF Edited, w

\* Entries linked otherwise keep the unit in order.
LEMMA RelinkStays ==
  ASSUME NEW u, NEW fns, NEW f \in fns, NEW made, NEW v \in Edited(u, fns, f, made),
         NEW es2 \in Relinked(v.entries), u.entries \in Seq(EntryType)
  PROVE  [v EXCEPT !.entries = es2] \in Edited(u, fns, f, made)
PROOF
<1> DEFINE es == v.entries
           N == Len(es)
           w == [v EXCEPT !.entries = es2]
<1>1. /\ v \in Units(fns, u.sizes.of) /\ Listed(es) /\ N \in Nat /\ DOMAIN es = 1 .. N
      /\ Linked(v, fns) /\ Sized(v, f, made)
      /\ Len(u.entries) \in Nat /\ Len(u.entries) <= N
      /\ \A i \in 1 .. Len(u.entries) :
           es[i].kind = u.entries[i].kind /\ es[i].fn = u.entries[i].fn
      /\ v.sizes.known = u.sizes.known
      /\ v.fate = "aborted" => Excused
  BY DEF Edited, Linked, Listed, Units
<1>2. /\ es2 \in Seq(EntryType) /\ Len(es2) = N /\ DOMAIN es2 = 1 .. N
      /\ \A i \in 1 .. N : /\ es2[i].kind = es[i].kind /\ es2[i].fn = es[i].fn
                           /\ es2[i].deleted = es[i].deleted
      /\ Listed(es2)
  <2> HIDE DEF es
  <2> QED
    BY DEF Relinked, Listed, es
<1>3. /\ w \in Units(fns, u.sizes.of) /\ w.entries = es2 /\ w.first = v.first
      /\ w.last = v.last /\ w.sizes = v.sizes /\ w.fate = v.fate
  BY <1>1, <1>2 DEF Units
<1>4. ASSUME NEW g \in fns PROVE Bounded(w, g)
  <2>1. Bounded(v, g)
    BY <1>1 DEF Linked
  <2> HIDE DEF w
  <2> QED
    BY <1>1, <1>2, <1>3, <2>1 DEF Bounded
<1>5. ASSUME NEW i \in 1 .. N
      PROVE  es[i].fn \in fns /\ (es[i].kind = "size" => i = v.last[es[i].fn])
  BY <1>1 DEF Linked
<1>6. Linked(w, fns)
  <2> HIDE DEF w, es, N
  <2> QED
    BY <1>2, <1>3, <1>4, <1>5 DEF Linked
<1>7. Sized(w, f, made)
  <2> HIDE DEF w
  <2> QED
    BY <1>1, <1>2, <1>3 DEF Sized
<1> HIDE DEF w
<1>8. w \in Edited(u, fns, f, made)
  <2>1. /\ Len(u.entries) <= Len(es2)
        /\ \A i \in 1 .. Len(u.entries) :
             es2[i].kind = u.entries[i].kind /\ es2[i].fn = u.entries[i].fn
    <3> HIDE DEF es, N
    <3> QED
      BY ONLY <1>1, <1>2
  <2> QED
    BY <1>1, <1>3, <1>6, <1>7, <2>1 DEF Edited
<1> QED
  BY <1>8 DEF w

\* Another immediate.
LEMMA ImmediateStays ==
  ASSUME NEW es, Listed(es), NEW e \in 1 .. Len(es), NEW m \in Int
  PROVE  [es EXCEPT ![e].n = m] \in Relinked(es)
PROOF
<1> DEFINE r == [es[e] EXCEPT !.n = m]
           es2 == [es EXCEPT ![e] = r]
<1>1. es \in Seq(EntryType) /\ Len(es) \in Nat /\ DOMAIN es = 1 .. Len(es)
  BY DEF Listed
<1>2. /\ r \in EntryType /\ r.kind = es[e].kind /\ r.fn = es[e].fn
      /\ r.deleted = es[e].deleted /\ r.next = es[e].next /\ r.prev = es[e].prev
  <2>1. es[e] \in EntryType
    BY <1>1
  <2> QED
    BY <2>1 DEF EntryType
<1>3. [es EXCEPT ![e].n = m] = es2
  OBVIOUS
<1> HIDE DEF r
<1>4. /\ es2 \in Seq(EntryType) /\ Len(es2) = Len(es) /\ es2[e] = r
      /\ DOMAIN es2 = 1 .. Len(es)
      /\ \A i \in 1 .. Len(es) : i # e => es2[i] = es[i]
  BY <1>1, <1>2, PutLemma
<1> HIDE DEF es2
<1>5. ASSUME NEW i \in 1 .. Len(es)
      PROVE  /\ es2[i].kind = es[i].kind /\ es2[i].fn = es[i].fn
             /\ es2[i].next = es[i].next /\ es2[i].prev = es[i].prev
             /\ es2[i].deleted = es[i].deleted
  BY <1>2, <1>4
<1>6. ASSUME NEW i \in 1 .. Len(es)
      PROVE  LinkedOn(es2, i)
  <2>1. LinkedOn(es, i)
    BY DEF Listed
  <2> QED
    BY ONLY <1>1, <1>4, <1>5, <2>1, i \in 1 .. Len(es) DEF LinkedOn, NextOk, PrevOk
<1> QED
  BY <1>3, <1>4, <1>5, <1>6 DEF Relinked

\* A merge keeps the unit in order: it deletes an add of the same function.
LEMMA MergeStays ==
  ASSUME NEW u, NEW fns, NEW f \in fns, NEW made, NEW v \in Edited(u, fns, f, made),
         f \in Nat, u.entries \in Seq(EntryType),
         NEW e \in 1 .. Len(v.entries), v.entries[e].fn = f,
         u.sizes.known /\ "add" \in made => Excused
  PROVE  Merge(v, e) \in Edited(u, fns, f, made)
PROOF
<1> DEFINE es == v.entries
           p == es[e].prev
           m == es[e].n + es[p].n
           es2 == [es EXCEPT ![e].n = m]
           w == [v EXCEPT !.entries = es2]
<1> SUFFICES ASSUME p # 0, es[e].kind = "add", es[p].kind = "add"
             PROVE  DeleteEntry([v EXCEPT !.entries[e].n = @ + es[p].n], p)
                      \in Edited(u, fns, f, made)
  BY DEF Merge
<1>1. Listed(es) /\ e \in 1 .. Len(es) /\ v \in Units(fns, u.sizes.of)
  BY DEF Edited, Linked
<1>2. p \in 1 .. Len(es) /\ es[p].fn = f
  <2>1. p \in 0 .. Len(es) /\ PrevOk(es, e, p) /\ Len(es) \in Nat
    <3> HIDE DEF es
    <3> QED
      BY <1>1, ListedLemma
  <2> QED
    BY <2>1 DEF PrevOk
<1>3. m \in Int
  <2>1. es[e] \in EntryType /\ es[p] \in EntryType
    BY <1>1, <1>2 DEF Listed
  <2> QED
    BY <2>1 DEF EntryType
<1>4. es2 \in Relinked(es)
  <2> HIDE DEF es, m
  <2> QED
    BY <1>1, <1>3, ImmediateStays
<1>5. [v EXCEPT !.entries[e].n = @ + es[p].n] = w
  BY <1>1 DEF Units
<1>6. w.entries = es2 /\ Len(es2) = Len(es) /\ es2[p].fn = f /\ es2[p].kind = "add"
  <2>1. w.entries = es2
    BY <1>1 DEF Units
  <2> HIDE DEF es2, es
  <2> QED
    BY <1>2, <1>4, <2>1 DEF Relinked
<1>7. w \in Edited(u, fns, f, made)
  BY <1>4, RelinkStays
<1> HIDE DEF w
<1>8. p \in 1 .. Len(w.entries) /\ w.entries[p].fn = f /\ w.entries[p].kind = "add"
  BY <1>2, <1>6
<1>9. DeleteEntry(w, p) \in Edited(u, fns, f, made)
  BY <1>7, <1>8, DeleteStays
<1> QED
  BY <1>5, <1>9

-----------------------------------------------------------------------------
(* Walks.                                                                  *)

\* One turn of Upto.
WalkOne(w, es, end) ==
  IF w.here \in {0, end} THEN w
  ELSE [here |-> es[w.here].next, seen |-> Append(w.seen, w.here)]

\* What every turn of a walk keeps.
LEMMA WalkKeeps ==
  ASSUME NEW es, NEW a, NEW end, NEW S, [here |-> a, seen |-> <<>>] \in S, Len(es) \in Nat,
         \A w \in S : WalkOne(w, es, end) \in S
  PROVE  \E w \in S : /\ Upto(es, a, end).ends = (w.here = end)
                      /\ Upto(es, a, end).seen = w.seen
PROOF
<1> DEFINE n == Len(es) + 1
           u == [here |-> a, seen |-> <<>>]
           Is(w) == w = [k \in 0 .. n |-> IF k = 0 THEN u ELSE WalkOne(w[k - 1], es, end)]
           step == [p \in S \X Nat |-> WalkOne(p[1], es, end)]
<1>1. n \in Nat
  OBVIOUS
<1>0. u \in S
  OBVIOUS
<1> HIDE DEF u, n
<1>2. step \in [S \X Nat -> S]
  BY <1>1
<1>3. \E w : Is(w)
  <2>0. PICK f : IsRun(f, S, u, step, n)
    <3> HIDE DEF step
    <3> QED
      BY <1>1, <1>2, <1>0, Recursion
  <2>1. /\ f \in [0 .. n -> S] /\ f[0] = u
        /\ \A k \in 1 .. n : f[k] = step[<<f[k - 1], k>>]
    BY <2>0 DEF IsRun
  <2>2. ASSUME NEW k \in 1 .. n PROVE f[k] = WalkOne(f[k - 1], es, end)
    <3>1. f[k - 1] \in S /\ k \in Nat
      BY <1>1, <2>1
    <3>2. step[<<f[k - 1], k>>] = WalkOne(f[k - 1], es, end)
      BY <3>1
    <3> QED
      BY <2>1, <3>2
  <2>3. Is(f)
    BY <1>1, <2>1, <2>2
  <2> QED
    BY <2>3
<1>4. ASSUME NEW w, Is(w) PROVE w[n] \in S
  <2> DEFINE R == {k \in 0 .. n : w[k] \in S}
  <2>1. 0 \in R
    BY <1>0, <1>1, <1>4
  <2>2. ASSUME NEW k \in 1 .. n, k - 1 \in R PROVE k \in R
    <3>1. w[k] = WalkOne(w[k - 1], es, end) /\ w[k - 1] \in S
      BY <1>1, <1>4, <2>2
    <3> QED
      BY <3>1, <1>1
  <2>3. 0 .. n \subseteq R
    <3> HIDE DEF R
    <3> QED
      BY <1>1, <2>1, <2>2, CountUp
  <2> QED
    BY <1>1, <2>3
<1> HIDE DEF step
<1> DEFINE all == (CHOOSE w : Is(w))[n]
<1>5. all \in S
  <2> HIDE DEF Is
  <2> QED
    BY <1>3, <1>4
<1>6. Upto(es, a, end) = [ends |-> all.here = end, seen |-> all.seen]
  BY DEF Upto, WalkOne, u, n
<1> HIDE DEF all
<1> QED
  BY <1>5, <1>6

\* A sequence of elements of T.
LEMMA SeqOf ==
  ASSUME NEW S, NEW T, NEW s \in Seq(S), \A j \in 1 .. Len(s) : s[j] \in T
  PROVE  s \in Seq(T)
PROOF
<1>1. s \in [1 .. Len(s) -> S] /\ Len(s) \in Nat
  BY LenProperties
<1>2. s \in [1 .. Len(s) -> T]
  BY <1>1
<1> QED
  BY <1>1, <1>2, SeqDef

\* A sequence of elements of fewer is one of more.
LEMMA SeqGrows ==
  ASSUME NEW S, NEW T, S \subseteq T, NEW s \in Seq(S)
  PROVE  s \in Seq(T)
PROOF
<1>1. \A j \in 1 .. Len(s) : s[j] \in T
  OBVIOUS
<1> QED
  BY <1>1, SeqOf

\* FORALL_FUNC_ENTRY visits only entries of the function.
LEMMA FunctionWalk ==
  ASSUME NEW u, NEW fns, Linked(u, fns), NEW f \in fns
  PROVE  InFunction(u, f) \in Seq(Its(u.entries, f))
PROOF
<1> DEFINE es == u.entries
           T == Its(es, f)
           end == es[u.last[f]].next
           S == [here : T \cup {end}, seen : Seq(T)]
<1>1. /\ Listed(es) /\ Len(es) \in Nat /\ DOMAIN es = 1 .. Len(es) /\ u.first[f] \in T
      /\ \A e \in 1 .. Len(es) : LinkedOn(es, e)
  BY DEF Linked, Listed, Bounded, Its
<1>2. ASSUME NEW e \in T PROVE es[e].next \in T \cup {end}
  <2>1. /\ e \in 1 .. Len(es) /\ es[e].fn = f
        /\ es[e].kind = "size" => e = u.last[f]
    BY DEF Its, Linked
  <2>2. NextOk(es, e, es[e].next)
    BY <1>1, <2>1 DEF LinkedOn
  <2> HIDE DEF es
  <2> QED
    BY <1>1, <2>1, <2>2 DEF NextOk, Its
<1> HIDE DEF es, T, end
<1>3. ASSUME NEW w \in S PROVE WalkOne(w, es, end) \in S
  <2> SUFFICES ASSUME w.here \notin {0, end}
               PROVE  [here |-> es[w.here].next, seen |-> Append(w.seen, w.here)] \in S
    BY DEF WalkOne
  <2>1. w.here \in T /\ w.seen \in Seq(T)
    OBVIOUS
  <2>2. Append(w.seen, w.here) \in Seq(T) /\ es[w.here].next \in T \cup {end}
    BY <1>2, <2>1
  <2> QED
    BY <2>2
<1>4. [here |-> u.first[f], seen |-> <<>>] \in S
  BY <1>1
<1> HIDE DEF S
<1>5. PICK w \in S : Upto(es, u.first[f], end).seen = w.seen
  BY <1>1, <1>3, <1>4, WalkKeeps
<1> QED
  BY <1>5 DEF InFunction, S, es, T, end

\* A walk over a block that ends visits only entries of the block's function:
\* next_ never leads back to an earlier one.
LEMMA BlockWalk ==
  ASSUME NEW u, NEW fns, Linked(u, fns), NEW f \in Nat,
         NEW b, b[1] \in Its(u.entries, f), b[2] \in Its(u.entries, f),
         u.entries[b[2]].kind # "size", InBlock(u, b).ends
  PROVE  InBlock(u, b).seen \in Seq(Its(u.entries, f))
PROOF
<1> DEFINE es == u.entries
           N == Len(es)
           end == es[b[2]].next
           Below(w) == w.here # 0 => /\ f <= es[w.here].fn
                                     /\ \A j \in 1 .. Len(w.seen) :
                                          es[w.seen[j]].fn \in f .. es[w.here].fn
           S == {w \in [here : 0 .. N, seen : Seq(1 .. N)] : Below(w)}
<1>1. /\ Listed(es) /\ N \in Nat /\ DOMAIN es = 1 .. N
      /\ b[1] \in 1 .. N /\ es[b[1]].fn = f /\ b[2] \in 1 .. N /\ es[b[2]].fn = f
      /\ es[b[2]].kind # "size"
      /\ \A e \in 1 .. N : NextOk(es, e, es[e].next)
  BY DEF Linked, Listed, LinkedOn, Its
<1> HIDE DEF es
<1>2. \A e \in 1 .. N : es[e].fn \in Nat
  BY <1>1, ListedLemma
<1> HIDE DEF N
<1>3. ASSUME NEW e \in 1 .. N
      PROVE  es[e].next \in 0 .. N /\ (es[e].next # 0 => es[es[e].next].fn >= es[e].fn)
  BY <1>1, <1>2 DEF NextOk
<1>4. end \in 1 .. N /\ es[end].fn = f
  BY <1>1 DEF NextOk
<1> HIDE DEF end
<1>5. ASSUME NEW w \in S PROVE WalkOne(w, es, end) \in S
  <2> SUFFICES ASSUME w.here \notin {0, end}
               PROVE  [here |-> es[w.here].next, seen |-> Append(w.seen, w.here)] \in S
    BY DEF WalkOne
  <2> DEFINE x == w.here
             y == es[x].next
             s == w.seen
             s2 == Append(s, x)
  <2>1. /\ x \in 1 .. N /\ s \in Seq(1 .. N) /\ f <= es[x].fn
        /\ \A j \in 1 .. Len(s) : es[s[j]].fn \in f .. es[x].fn
    BY <1>1
  <2>2. y \in 0 .. N /\ (y # 0 => es[y].fn >= es[x].fn)
    BY <1>3, <2>1
  <2> HIDE DEF x, y, s
  <2>3. /\ s2 \in Seq(1 .. N) /\ Len(s2) = Len(s) + 1 /\ s2[Len(s) + 1] = x
        /\ \A j \in 1 .. Len(s) : s2[j] = s[j]
        /\ Len(s) \in Nat
    BY <2>1
  <2> HIDE DEF s2
  <2>4. ASSUME y # 0
        PROVE  /\ f <= es[y].fn
               /\ \A j \in 1 .. Len(s2) : es[s2[j]].fn \in f .. es[y].fn
    <3>1. es[x].fn \in Nat /\ es[y].fn \in Nat /\ es[x].fn <= es[y].fn
      BY <1>2, <2>1, <2>2, <2>4
    <3>2. ASSUME NEW j \in 1 .. Len(s2) PROVE es[s2[j]].fn \in f .. es[x].fn
      <4>1. CASE j = Len(s) + 1
        BY <4>1, <2>1, <2>3, <3>1
      <4>2. CASE j # Len(s) + 1
        <5>1. j \in 1 .. Len(s)
          BY <4>2, <2>3
        <5> QED
          BY <5>1, <2>1, <2>3
      <4> QED
        BY <4>1, <4>2
    <3>3. \A j \in 1 .. Len(s2) : es[s2[j]].fn \in f .. es[y].fn
      BY <3>1, <3>2
    <3> QED
      BY <2>1, <3>1, <3>3
  <2>5. Below([here |-> y, seen |-> s2])
    BY <2>4
  <2> QED
    BY <2>2, <2>3, <2>5 DEF x, y, s, s2
<1>6. [here |-> b[1], seen |-> <<>>] \in S
  BY <1>1
<1>7. PICK w \in S : /\ Upto(es, b[1], end).ends = (w.here = end)
                     /\ Upto(es, b[1], end).seen = w.seen
  <2> HIDE DEF S
  <2> QED
    BY <1>1, <1>5, <1>6, WalkKeeps DEF N
<1>8. InBlock(u, b) = Upto(es, b[1], end)
  BY DEF InBlock, end, es
<1>9. w.here = end
  BY <1>7, <1>8
<1>10. w.seen \in Seq(1 .. N) /\ Below(w)
  OBVIOUS
<1>11. end # 0 /\ \A j \in 1 .. Len(w.seen) : es[w.seen[j]].fn \in f .. es[end].fn
  BY <1>4, <1>9, <1>10
<1> DEFINE s == w.seen
<1> HIDE DEF Below
<1>12. s \in Seq(1 .. N)
  BY <1>10
<1>13. \A j \in 1 .. Len(s) : es[s[j]].fn \in f .. f
  BY <1>4, <1>11
<1> HIDE DEF s
<1>14. ASSUME NEW j \in 1 .. Len(s) PROVE s[j] \in Its(es, f)
  <2>1. s[j] \in 1 .. Len(es)
    BY ONLY <1>12, j \in 1 .. Len(s) DEF N
  <2>2. es[s[j]].fn = f
    BY <1>13
  <2> QED
    BY ONLY <2>1, <2>2 DEF Its
<1>15. s \in Seq(Its(es, f))
  BY <1>12, <1>14, SeqOf
<1> QED
  BY <1>7, <1>8, <1>15 DEF es, s

-----------------------------------------------------------------------------
(* Blocks.                                                                 *)

\* Of a set of numbers there is, for each count up to its size, one number up
\* to which it has so many.
LEMMA NthElement ==
  ASSUME NEW n \in Nat, NEW H, H \subseteq 1 .. n
  PROVE  /\ Cardinality(H) \in Nat
         /\ \A i \in 1 .. Cardinality(H) : \E k \in H : Cardinality({h \in H : h <= k}) = i
PROOF
<1> DEFINE To(k) == {h \in H : h <= k}
           c(k) == Cardinality(To(k))
<1>1. IsFiniteSet(1 .. n)
  BY FS_Interval
<1>2. IsFiniteSet(H) /\ \A k \in 0 .. n : IsFiniteSet(To(k))
  BY <1>1, FS_Subset
<1>3. Cardinality(H) \in Nat /\ \A k \in 0 .. n : c(k) \in Nat
  BY <1>2, FS_CardinalityType
<1>0. ASSUME NEW k \in 0 .. n, NEW h
      PROVE  h \in To(k) <=> h \in H /\ h \in 1 .. k
  <2>1. h \in H => h \in 1 .. n
    OBVIOUS
  <2> QED
    BY <2>1
<1> HIDE DEF To
<1>4. To(0) = {} /\ To(n) = H
  <2>1. \A h : h \notin To(0)
    BY <1>0
  <2>2. \A h : h \in To(n) <=> h \in H
    <3>1. n \in 0 .. n
      OBVIOUS
    <3>2. \A h : h \in H => h \in 1 .. n
      OBVIOUS
    <3> QED
      BY ONLY <1>0, <3>1, <3>2
  <2> QED
    BY <2>1, <2>2
<1>5. c(0) = 0 /\ c(n) = Cardinality(H)
  BY <1>4, FS_EmptySet
<1>6. ASSUME NEW k \in 1 .. n
      PROVE  IF k \in H THEN c(k) = c(k - 1) + 1 ELSE c(k) = c(k - 1)
  <2>1. k - 1 \in 0 .. n
    BY SMT
  <2>2. CASE k \in H
    <3>0. \A h : h \in 1 .. k <=> h \in 1 .. k - 1 \/ h = k
      OBVIOUS
    <3>1. /\ \A h : h \in To(k) <=> h \in To(k - 1) \/ h = k
          /\ k \notin To(k - 1)
      BY <1>0, <2>1, <2>2, <3>0
    <3>2. IsFiniteSet(To(k - 1))
      BY <1>2, <2>1
    <3>3. To(k) = To(k - 1) \cup {k}
      BY <3>1
    <3>4. c(k) = c(k - 1) + 1
      BY ONLY <3>1, <3>2, <3>3, FS_AddElement
    <3> QED
      BY ONLY <2>2, <3>4
  <2>3. CASE k \notin H
    <3>0. \A h : h \in 1 .. k <=> h \in 1 .. k - 1 \/ h = k
      OBVIOUS
    <3>1. \A h : h \in To(k) <=> h \in To(k - 1)
      BY <1>0, <2>1, <2>3, <3>0
    <3>2. To(k) = To(k - 1)
      BY <3>1
    <3> QED
      BY <2>3, <3>2
  <2> QED
    BY <2>2, <2>3
<1>7. ASSUME NEW i \in 1 .. Cardinality(H)
      PROVE  \E k \in H : c(k) = i
  <2> DEFINE T == {k \in 0 .. n : c(k) >= i}
  <2> HIDE DEF c
  <2>1. T \subseteq Nat /\ n \in T
    BY <1>3, <1>5
  <2>2. PICK k \in T : \A y \in T : k <= y
    <3> HIDE DEF T
    <3> QED
      BY ONLY <2>1, LeastElement
  <2>3. k # 0 /\ k \in 0 .. n /\ c(k) >= i
    BY <1>3, <1>5
  <2>4. k \in 1 .. n /\ k - 1 \in 0 .. n /\ k - 1 \notin T
    BY <2>2, <2>3
  <2>5. c(k - 1) < i /\ c(k - 1) \in Nat /\ c(k) \in Nat
    BY <1>3, <2>3, <2>4
  <2>6. k \in H /\ c(k) = c(k - 1) + 1
    BY <1>6, <2>3, <2>4, <2>5
  <2> QED
    BY <2>3, <2>5, <2>6
<1> QED
  BY <1>3, <1>7 DEF To

\* With the heads H of n entries, a block that begins at k ends at j.
EndsAt(H, n, k, j) == (j = n \/ j + 1 \in H) /\ \A i \in k + 1 .. j : i \notin H

\* From every head of a block there is a last entry before the next head.
LEMMA BlockEnds ==
  ASSUME NEW n \in Nat, NEW H, NEW k \in 1 .. n
  PROVE  \E j \in k .. n : EndsAt(H, n, k, j)
PROOF
<1> DEFINE T == {j \in k .. n : j = n \/ j + 1 \in H}
<1>1. T \subseteq Nat /\ n \in T
  OBVIOUS
<1>2. PICK j \in T : \A y \in T : j <= y
  <2> HIDE DEF T
  <2> QED
    BY ONLY <1>1, LeastElement
<1>3. ASSUME NEW i \in k + 1 .. j, i \in H PROVE FALSE
  <2>1. i - 1 \in k .. n /\ (i - 1) + 1 \in H
    BY <1>3
  <2>2. i - 1 \in T /\ i - 1 < j
    BY <1>3, <2>1
  <2> QED
    BY <1>2, <2>2
<1> QED
  BY <1>2, <1>3 DEF EndsAt

\* Blocks begin and end in the function, at what is no directive.
LEMMA BlocksLemma ==
  ASSUME NEW u, NEW fns, Linked(u, fns), NEW f \in fns, NEW c
  PROVE  Blocks(u, f, c) \in Seq(Ends(u.entries, f) \X Ends(u.entries, f))
PROOF
<1> DEFINE E == Ends(u.entries, f)
           s == Pick(InFunction(u, f), OfKind(u, Kinds \ Directives))
           H == {k \in DOMAIN s :
                  \/ k = 1
                  \/ u.entries[s[k - 1]].kind = "jcc"
                  \/ u.entries[s[k]].kind = "label" /\ (c \/ IsTarget(s, k, u))}
           EndOf(k) == CHOOSE j \in k .. Len(s) : EndsAt(H, Len(s), k, j)
           nth(i) == CHOOSE k \in H : Cardinality({h \in H : h <= k}) = i
<1>1. s \in Seq(E)
  <2>1. InFunction(u, f) \in Seq(Its(u.entries, f))
    BY FunctionWalk
  <2>2. s \in Seq(Its(u.entries, f) \cap OfKind(u, Kinds \ Directives))
    BY <2>1, PickLemma
  <2>3. Its(u.entries, f) \cap OfKind(u, Kinds \ Directives) \subseteq E
    BY DEF OfKind, Ends, Directives
  <2> HIDE DEF s, E
  <2> QED
    BY ONLY <2>2, <2>3, SeqGrows
<1> HIDE DEF E, s
<1>2. Len(s) \in Nat /\ H \subseteq 1 .. Len(s)
  BY <1>1
<1> DEFINE m == Cardinality(H)
<1>3. Blocks(u, f, c) = [i \in 1 .. m |-> <<s[nth(i)], s[EndOf(nth(i))]>>]
  BY DEF Blocks, EndsAt, s
<1> HIDE DEF H
<1>4. ASSUME NEW i \in 1 .. m PROVE nth(i) \in 1 .. Len(s)
  <2>0. \A j \in 1 .. Cardinality(H) :
          \E k \in H : Cardinality({h \in H : h <= k}) = j
    BY ONLY <1>2, NthElement
  <2>1. \E k \in H : Cardinality({h \in H : h <= k}) = i
    BY ONLY <2>0, i \in 1 .. m
  <2>2. nth(i) \in H
    BY <2>1, Zenon
  <2> QED
    BY <1>2, <2>2
<1>5. ASSUME NEW k \in 1 .. Len(s) PROVE EndOf(k) \in 1 .. Len(s)
  <2>1. \E j \in k .. Len(s) : EndsAt(H, Len(s), k, j)
    BY <1>2, BlockEnds
  <2>2. EndOf(k) \in k .. Len(s)
    BY <2>1, Zenon
  <2> HIDE DEF EndOf
  <2> QED
    BY <1>2, <2>2
<1>6. m \in Nat
  BY <1>2, NthElement
<1> HIDE DEF nth, EndOf, m
<1>7. ASSUME NEW i \in 1 .. m
      PROVE  <<s[nth(i)], s[EndOf(nth(i))]>> \in E \X E
  BY <1>1, <1>4, <1>5
<1>8. [i \in 1 .. m |-> <<s[nth(i)], s[EndOf(nth(i))]>>] \in [1 .. m -> E \X E]
  BY <1>7
<1>9. [i \in 1 .. m |-> <<s[nth(i)], s[EndOf(nth(i))]>>] \in Seq(E \X E)
  BY <1>6, <1>8, SeqDef
<1> QED
  BY <1>3, <1>9 DEF E

-----------------------------------------------------------------------------
(* What is parsed.                                                         *)

\* Where the functions of a text start, one after the other.
IsStart(w, t) ==
  w = [f \in 1 .. Len(t) + 1 |-> IF f = 1 THEN 1 ELSE w[f - 1] + Len(t[f - 1])]

\* Where the functions of a text start.
LEMMA StartLemma ==
  ASSUME NEW t \in Seq(Seq(Kinds) \ {<<>>})
  PROVE  LET w == CHOOSE x : IsStart(x, t) IN
           /\ w \in [1 .. Len(t) + 1 -> Nat \ {0}] /\ w[1] = 1
           /\ \A f \in 1 .. Len(t) : w[f + 1] = w[f] + Len(t[f])
PROOF
<1> DEFINE n == Len(t)
           S == Nat \ {0}
           step == [p \in S \X Nat |-> IF p[2] \in 1 .. n THEN p[1] + Len(t[p[2]]) ELSE p[1]]
           w == CHOOSE x : IsStart(x, t)
<1>1. n \in Nat /\ 1 \in S /\ \A f \in 1 .. n : Len(t[f]) \in Nat
  OBVIOUS
<1>2. step \in [S \X Nat -> S]
  <2> HIDE DEF n
  <2>1. ASSUME NEW p \in S \X Nat
        PROVE  (IF p[2] \in 1 .. n THEN p[1] + Len(t[p[2]]) ELSE p[1]) \in S
    BY <1>1
  <2> QED
    BY <2>1
<1>3. PICK g : IsRun(g, S, 1, step, n)
  <2> HIDE DEF step, n, S
  <2> QED
    BY <1>1, <1>2, Recursion
<1>4. /\ g \in [0 .. n -> S] /\ g[0] = 1
      /\ \A k \in 1 .. n : g[k] = step[<<g[k - 1], k>>]
  BY <1>3 DEF IsRun
<1>5. ASSUME NEW k \in 1 .. n PROVE g[k] = g[k - 1] + Len(t[k])
  <2>0. k - 1 \in 0 .. n /\ k \in Nat
    BY <1>1
  <2>1. g[k - 1] \in S
    <3> HIDE DEF step, n, S
    <3> QED
      BY <1>4, <2>0
  <2>2. step[<<g[k - 1], k>>] = g[k - 1] + Len(t[k])
    BY <2>0, <2>1
  <2> QED
    BY <1>4, <2>2
<1> HIDE DEF step
<1> DEFINE x == [f \in 1 .. n + 1 |-> g[f - 1]]
<1>6. IsStart(x, t)
  <2>1. ASSUME NEW f \in 1 .. n + 1
        PROVE  x[f] = IF f = 1 THEN 1 ELSE x[f - 1] + Len(t[f - 1])
    <3>1. CASE f = 1
      BY <1>1, <1>4, <3>1
    <3>2. CASE f # 1
      <4>1. f - 1 \in 1 .. n /\ f - 1 \in 1 .. n + 1
        BY <1>1, <3>2
      <4>2. x[f] = g[f - 1] /\ x[f - 1] = g[(f - 1) - 1]
        BY <4>1
      <4> QED
        BY <1>5, <3>2, <4>1, <4>2
    <3> QED
      BY <3>1, <3>2
  <2> HIDE DEF n
  <2>2. x = [f \in 1 .. n + 1 |-> IF f = 1 THEN 1 ELSE x[f - 1] + Len(t[f - 1])]
    <3>1. x = [f \in 1 .. n + 1 |-> x[f]]
      OBVIOUS
    <3> HIDE DEF x
    <3> QED
      BY <2>1, <3>1
  <2> QED
    BY <2>2 DEF IsStart, n
<1>7. IsStart(w, t)
  BY <1>6, Zenon
<1> HIDE DEF w
<1>8. w = [f \in 1 .. n + 1 |-> IF f = 1 THEN 1 ELSE w[f - 1] + Len(t[f - 1])]
  BY <1>7 DEF IsStart
<1> HIDE DEF n
<1>9. w[1] = 1 /\ \A f \in 1 .. n : w[f + 1] = w[f] + Len(t[f])
  <2>1. w[1] = 1
    BY <1>1, <1>8
  <2>2. ASSUME NEW f \in 1 .. n PROVE w[f + 1] = w[f] + Len(t[f])
    <3>1. f + 1 \in 1 .. n + 1 /\ f + 1 # 1 /\ (f + 1) - 1 = f
      BY <1>1
    <3> QED
      BY <1>8, <3>1
  <2> QED
    BY <2>1, <2>2
<1>10. ASSUME NEW f \in 1 .. n + 1 PROVE w[f] \in S
  <2> DEFINE R == {k \in 0 .. n : w[k + 1] \in S}
  <2>1. 0 \in R
    BY <1>1, <1>9
  <2>2. ASSUME NEW k \in 1 .. n, k - 1 \in R PROVE k \in R
    <3>1. w[k] \in S
      BY <2>2
    <3>2. w[k + 1] = w[k] + Len(t[k]) /\ Len(t[k]) \in Nat /\ k \in 0 .. n
      BY <1>1, <1>9
    <3>3. w[k + 1] \in S
      BY <3>1, <3>2
    <3> QED
      BY <3>2, <3>3
  <2>3. 0 .. n \subseteq R
    <3> HIDE DEF R
    <3> QED
      BY <1>1, <2>1, <2>2, CountUp
  <2>4. f - 1 \in 0 .. n /\ (f - 1) + 1 = f
    BY <1>1
  <2> QED
    BY <2>3, <2>4
<1>11. w \in [1 .. n + 1 -> S]
  BY <1>8, <1>10
<1> QED
  BY <1>9, <1>11 DEF n, w

\* Starts of n functions, one after the other.
Rises(w, n) ==
  /\ n \in Nat /\ w \in [1 .. n + 1 -> Nat \ {0}] /\ w[1] = 1
  /\ \A f \in 1 .. n : w[f] < w[f + 1]

\* A later function starts later.
LEMMA RisesLemma ==
  ASSUME NEW w, NEW n, Rises(w, n), NEW f \in 1 .. n + 1, NEW g \in 1 .. n + 1, f < g
  PROVE  w[f] < w[g]
PROOF
<1> DEFINE R == {k \in 0 .. n : f <= k => w[f] < w[k + 1]}
<1>1. /\ n \in Nat /\ \A k \in 1 .. n + 1 : w[k] \in Nat
      /\ \A k \in 1 .. n : w[k] < w[k + 1]
  BY DEF Rises
<1>2. 0 \in R
  BY <1>1
<1>3. ASSUME NEW k \in 1 .. n, k - 1 \in R PROVE k \in R
  <2>1. k \in 0 .. n /\ k \in 1 .. n + 1 /\ k + 1 \in 1 .. n + 1 /\ (k - 1) + 1 = k
    BY <1>1
  <2>2. w[k] < w[k + 1] /\ w[k] \in Nat /\ w[k + 1] \in Nat /\ w[f] \in Nat
    BY <1>1, <2>1
  <2>3. f <= k - 1 => w[f] < w[k]
    BY <1>3, <2>1
  <2>4. f = k \/ f <= k - 1 \/ ~ f <= k
    BY <1>1
  <2> QED
    BY <2>1, <2>2, <2>3, <2>4
<1>4. 0 .. n \subseteq R
  <2> HIDE DEF R
  <2> QED
    BY <1>1, <1>2, <1>3, CountUp
<1>5. g - 1 \in 0 .. n /\ (g - 1) + 1 = g /\ f <= g - 1
  BY <1>1
<1> QED
  BY <1>4, <1>5

\* Every entry is in one function.
LEMMA OwnerLemma ==
  ASSUME NEW w, NEW n, Rises(w, n), NEW e \in 1 .. w[n + 1] - 1
  PROVE  LET own == CHOOSE f \in 1 .. n : w[f] <= e /\ e < w[f + 1] IN
           /\ own \in 1 .. n /\ w[own] <= e /\ e < w[own + 1]
           /\ \A f \in 1 .. n : w[f] <= e /\ e < w[f + 1] => f = own
PROOF
<1> DEFINE In1(f) == w[f] <= e /\ e < w[f + 1]
           own == CHOOSE f \in 1 .. n : In1(f)
           T == {f \in 1 .. n : e < w[f + 1]}
<1>1. /\ n \in Nat /\ \A k \in 1 .. n + 1 : w[k] \in Nat
      /\ w[1] = 1 /\ \A k \in 1 .. n : k \in 1 .. n + 1 /\ k + 1 \in 1 .. n + 1
  BY DEF Rises
<1>2. T \subseteq Nat /\ n \in T
  <2>1. n # 0 /\ n \in 1 .. n
    BY <1>1
  <2> QED
    BY <1>1, <2>1
<1>3. PICK f \in T : \A y \in T : f <= y
  <2> HIDE DEF T
  <2> QED
    BY ONLY <1>2, LeastElement
<1>4. In1(f)
  <2>1. CASE f = 1
    BY <1>1, <1>3, <2>1
  <2>2. CASE f # 1
    <3>1. f - 1 \in 1 .. n /\ (f - 1) + 1 = f /\ f - 1 < f
      BY <1>1, <1>3, <2>2
    <3>2. f - 1 \notin T
      BY <1>1, <1>3, <3>1
    <3> QED
      BY <1>1, <1>3, <3>1, <3>2
  <2> QED
    BY <2>1, <2>2
<1>5. own \in 1 .. n /\ In1(own)
  <2> HIDE DEF In1
  <2>1. \E g \in 1 .. n : In1(g)
    BY <1>3, <1>4
  <2> QED
    BY <2>1, Zenon
<1> HIDE DEF own
<1>6. ASSUME NEW g \in 1 .. n, NEW h \in 1 .. n, In1(g), In1(h), g < h PROVE FALSE
  <2>1. g + 1 \in 1 .. n + 1 /\ h \in 1 .. n + 1 /\ (g + 1 = h \/ g + 1 < h)
    BY <1>1, <1>6
  <2>2. g + 1 < h => w[g + 1] < w[h]
    BY <2>1, RisesLemma
  <2>3. w[g + 1] \in Nat /\ w[h] \in Nat
    BY <1>1, <2>1
  <2> QED
    BY <1>6, <2>1, <2>2, <2>3
<1>7. ASSUME NEW g \in 1 .. n, In1(g) PROVE g = own
  <2>1. ~(g < own) /\ ~(own < g)
    BY <1>5, <1>6, <1>7
  <2> QED
    BY <1>5, <2>1
<1> QED
  BY <1>5, <1>7 DEF own

\* The file as it was parsed is in order, and has no sizes yet.
LEMMA ParsedLemma ==
  ASSUME NEW t \in Texts
  PROVE  LET u == Parsed(t) IN
           /\ Linked(u, DOMAIN t) /\ u \in Units(DOMAIN t, <<>>)
           /\ ~u.sizes.known /\ u.sizes.of = <<>> /\ u.fate = "ok"
           /\ DOMAIN u.first = DOMAIN t /\ Len(t) \in Nat /\ DOMAIN t = 1 .. Len(t)
PROOF
<1> DEFINE n == Len(t)
           w == CHOOSE x : IsStart(x, t)
           N == w[n + 1] - 1
           Of(e) == CHOOSE f \in 1 .. n : w[f] <= e /\ e < w[f + 1]
           kind(e) == t[Of(e)][e - w[Of(e)] + 1]
           es == [e \in 1 .. N |-> Entry(kind(e), Of(e), IF e = N THEN 0 ELSE e + 1, e - 1)]
           u == [entries |-> es, first |-> [f \in DOMAIN t |-> w[f]],
                 last |-> [f \in DOMAIN t |-> w[f + 1] - 1], sizes |-> NoMap, fate |-> "ok"]
<1>1. /\ t \in Seq(Seq(Kinds) \ {<<>>}) /\ n \in Nat /\ DOMAIN t = 1 .. n
      /\ \A f \in 1 .. n : /\ t[f] \in Seq(Kinds) /\ Len(t[f]) \in Nat \ {0}
                           /\ DOMAIN t[f] = 1 .. Len(t[f])
                           /\ \A i \in 1 .. Len(t[f]) : t[f][i] \in Kinds
                           /\ \A i \in 1 .. Len(t[f]) : t[f][i] = "size" <=> i = Len(t[f])
  <2>1. /\ t \in Seq(Seq(Kinds) \ {<<>>})
        /\ \A f \in DOMAIN t : \A i \in DOMAIN t[f] : t[f][i] = "size" <=> i = Len(t[f])
    BY TextsAssumption
  <2>2. n \in Nat /\ DOMAIN t = 1 .. n /\ \A f \in 1 .. n : t[f] \in Seq(Kinds) \ {<<>>}
    BY <2>1
  <2>3. ASSUME NEW s \in Seq(Kinds) \ {<<>>}
        PROVE  /\ Len(s) \in Nat \ {0} /\ DOMAIN s = 1 .. Len(s)
               /\ \A i \in 1 .. Len(s) : s[i] \in Kinds
    OBVIOUS
  <2> QED
    BY <2>1, <2>2, <2>3
<1>2. Parsed(t) = u
  BY <1>1 DEF Parsed, IsStart
<1>3. /\ w \in [1 .. n + 1 -> Nat \ {0}] /\ w[1] = 1
      /\ \A f \in 1 .. n : w[f + 1] = w[f] + Len(t[f])
  BY <1>1, StartLemma
<1> HIDE DEF w, n
<1>4. Rises(w, n)
  <2>1. ASSUME NEW f \in 1 .. n PROVE w[f] < w[f + 1]
    <3>1. w[f] \in Nat /\ Len(t[f]) \in Nat \ {0} /\ w[f + 1] = w[f] + Len(t[f])
      BY <1>1, <1>3
    <3> QED
      BY <3>1
  <2> QED
    BY <1>1, <1>3, <2>1 DEF Rises
<1>5. N \in Nat /\ \A f \in 1 .. n + 1 : w[f] \in Nat \ {0}
  BY <1>1, <1>3
<1>6. ASSUME NEW e \in 1 .. N
      PROVE  /\ Of(e) \in 1 .. n /\ w[Of(e)] <= e /\ e < w[Of(e) + 1]
             /\ \A f \in 1 .. n : w[f] <= e /\ e < w[f + 1] => f = Of(e)
  BY <1>4, OwnerLemma
<1> HIDE DEF Of
\* The kinds, and that the last entry of a function is its .size.
<1>7. ASSUME NEW e \in 1 .. N
      PROVE  kind(e) \in Kinds /\ (kind(e) = "size" <=> e + 1 = w[Of(e) + 1])
  <2> DEFINE f == Of(e)
             i == e - w[f] + 1
  <2>1. f \in 1 .. n /\ w[f] <= e /\ e < w[f + 1]
    BY <1>6
  <2> HIDE DEF f
  <2>2. w[f] \in Nat /\ w[f + 1] = w[f] + Len(t[f]) /\ Len(t[f]) \in Nat /\ e \in Nat
    BY <1>1, <1>3, <1>5, <2>1
  <2>3. i \in 1 .. Len(t[f]) /\ (i = Len(t[f]) <=> e + 1 = w[f + 1])
    BY <2>1, <2>2
  <2> HIDE DEF i
  <2>4. t[f][i] \in Kinds /\ (t[f][i] = "size" <=> i = Len(t[f]))
    BY <1>1, <2>1, <2>3
  <2> QED
    BY <2>3, <2>4 DEF f, i
<1> HIDE DEF kind
<1>8. ASSUME NEW e \in 1 .. N
      PROVE  /\ es[e] \in EntryType /\ es[e].kind = kind(e) /\ es[e].fn = Of(e)
             /\ es[e].next = (IF e = N THEN 0 ELSE e + 1) /\ es[e].prev = e - 1
  <2> DEFINE a == IF e = N THEN 0 ELSE e + 1
             b == e - 1
  <2>1. a \in Nat /\ b \in Nat /\ Of(e) \in Nat /\ kind(e) \in Kinds
    BY <1>5, <1>6, <1>7
  <2>2. es[e] = Entry(kind(e), Of(e), a, b)
    OBVIOUS
  <2> HIDE DEF a, b, es
  <2>3. /\ es[e] \in EntryType /\ es[e].kind = kind(e) /\ es[e].fn = Of(e)
        /\ es[e].next = a /\ es[e].prev = b
    <3>1. \A c \in Kinds, g \in Nat, x \in Nat, y \in Nat :
            LET r == Entry(c, g, x, y) IN
              r \in EntryType /\ r.kind = c /\ r.fn = g /\ r.next = x /\ r.prev = y
      BY EntryLemma
    <3> QED
      BY ONLY <2>1, <2>2, <3>1
  <2> QED
    BY <2>3 DEF a, b
<1>9. es \in Seq(EntryType) /\ Len(es) = N /\ DOMAIN es = 1 .. N
  <2>1. es \in [1 .. N -> EntryType]
    <3>1. \A e \in 1 .. N : Entry(kind(e), Of(e), IF e = N THEN 0 ELSE e + 1, e - 1)
                              \in EntryType
      BY <1>8
    <3> QED
      BY <3>1
  <2> HIDE DEF es, N
  <2> QED
    BY <1>5, <2>1, SeqDef, LenProperties
<1> HIDE DEF es
\* An entry and the one after it.
<1>10. ASSUME NEW e \in 1 .. N, e # N
       PROVE  /\ e + 1 \in 1 .. N
              /\ IF kind(e) = "size" THEN Of(e + 1) = Of(e) + 1 ELSE Of(e + 1) = Of(e)
  <2> DEFINE f == Of(e)
  <2>1. e + 1 \in 1 .. N /\ f \in 1 .. n /\ w[f] <= e /\ e < w[f + 1]
        /\ \A g \in 1 .. n : w[g] <= e + 1 /\ e + 1 < w[g + 1] => g = Of(e + 1)
    BY <1>5, <1>6, <1>10
  <2> HIDE DEF f
  <2>2. w[f] \in Nat /\ w[f + 1] \in Nat /\ f + 1 \in 1 .. n + 1
    BY <1>1, <1>5, <2>1
  <2>3. ASSUME kind(e) = "size" PROVE Of(e + 1) = f + 1
    <3>1. e + 1 = w[f + 1]
      BY <1>7, <2>3 DEF f
    <3>2. f # n
      BY <1>5, <1>10, <3>1
    <3>3. f + 1 \in 1 .. n
      BY <1>1, <2>1, <3>2
    <3>4. w[f + 1] < w[(f + 1) + 1]
      BY <1>4, <3>3 DEF Rises
    <3> QED
      BY <2>1, <2>2, <3>1, <3>3, <3>4
  <2>4. ASSUME kind(e) # "size" PROVE Of(e + 1) = f
    <3>1. e + 1 < w[f + 1]
      BY <1>7, <2>1, <2>2, <2>4 DEF f
    <3> QED
      BY <2>1, <2>2, <3>1
  <2> QED
    BY <2>1, <2>3, <2>4 DEF f
<1>11. kind(N) = "size" \/ N = 0
  <2> SUFFICES ASSUME N # 0 PROVE kind(N) = "size"
    OBVIOUS
  <2>0. N + 1 = w[n + 1] /\ n + 1 \in 1 .. n + 1
    BY <1>1, <1>5
  <2>1. N \in 1 .. N /\ Of(N) \in 1 .. n /\ N < w[Of(N) + 1] /\ N + 1 = w[n + 1]
    <3> HIDE DEF N
    <3>1. N \in 1 .. N
      BY <1>5
    <3> QED
      BY <1>6, <2>0, <3>1
  <2>2. Of(N) + 1 \in 1 .. n + 1 /\ n + 1 \in 1 .. n + 1
    BY <1>1, <2>1
  <2>3. Of(N) + 1 = n + 1 \/ Of(N) + 1 < n + 1
    BY <1>1, <2>1
  <2>4. Of(N) + 1 < n + 1 => w[Of(N) + 1] < w[n + 1]
    BY <1>4, <2>2, RisesLemma
  <2>5. N + 1 = w[Of(N) + 1]
    BY <1>5, <2>1, <2>2, <2>3, <2>4
  <2> QED
    BY <1>7, <2>1, <2>5
<1> HIDE DEF N
<1>12. ASSUME NEW e \in 1 .. N PROVE LinkedOn(es, e)
  <2>1. NextOk(es, e, es[e].next)
    <3>1. CASE e = N
      <4>1. es[e].next = 0 /\ es[e].kind = "size"
        BY <1>5, <1>8, <1>11, <3>1
      <4> QED
        BY <4>1 DEF NextOk
    <3>2. CASE e # N
      <4>1. /\ es[e].next = e + 1 /\ e + 1 \in 1 .. N
            /\ es[e].kind = kind(e) /\ es[e].fn = Of(e) /\ es[e + 1].fn = Of(e + 1)
        BY <1>8, <1>10, <3>2
      <4>2. IF kind(e) = "size" THEN Of(e + 1) = Of(e) + 1 ELSE Of(e + 1) = Of(e)
        BY <1>10, <3>2
      <4>3. e + 1 # 0
        BY <1>5
      <4> QED
        BY <1>9, <4>1, <4>2, <4>3 DEF NextOk
    <3> QED
      BY <3>1, <3>2
  <2>2. PrevOk(es, e, es[e].prev)
    <3>1. CASE e = 1
      <4>1. es[e].prev = 0
        BY <1>8, <3>1
      <4> QED
        BY <4>1 DEF PrevOk
    <3>2. CASE e # 1
      <4> DEFINE d == e - 1
      <4>1. d \in 1 .. N /\ d # N /\ d + 1 = e /\ es[e].prev = d
        BY <1>5, <1>8, <3>2
      <4> HIDE DEF d
      <4>2. /\ es[d].kind = kind(d) /\ es[d].fn = Of(d) /\ es[e].fn = Of(e)
            /\ IF kind(d) = "size" THEN Of(e) = Of(d) + 1 ELSE Of(e) = Of(d)
        BY <1>8, <1>10, <4>1
      <4> QED
        BY <1>9, <4>1, <4>2 DEF PrevOk
    <3> QED
      BY <3>1, <3>2
  <2> QED
    BY <2>1, <2>2 DEF LinkedOn
<1>13. ASSUME NEW f \in 1 .. n
       PROVE  /\ w[f] \in 1 .. N /\ Of(w[f]) = f
              /\ w[f + 1] - 1 \in 1 .. N /\ Of(w[f + 1] - 1) = f
              /\ kind(w[f + 1] - 1) = "size"
  <2>1. /\ w[f] \in Nat \ {0} /\ w[f + 1] \in Nat \ {0} /\ w[f] < w[f + 1]
        /\ w[n + 1] \in Nat /\ w[n + 1] = N + 1
        /\ f \in 1 .. n + 1 /\ f + 1 \in 1 .. n + 1 /\ n + 1 \in 1 .. n + 1
        /\ (f + 1 = n + 1 \/ f + 1 < n + 1)
    BY <1>1, <1>4, <1>5 DEF Rises, N
  <2>2. w[f + 1] <= w[n + 1]
    <3>1. f + 1 < n + 1 => w[f + 1] < w[n + 1]
      BY <1>4, <2>1, RisesLemma
    <3> QED
      BY <2>1, <3>1
  <2>3. w[f] \in 1 .. N /\ w[f + 1] - 1 \in 1 .. N
    BY <1>5, <2>1, <2>2
  <2>4. Of(w[f]) = f /\ Of(w[f + 1] - 1) = f
    BY <1>6, <2>1, <2>3
  <2>5. (w[f + 1] - 1) + 1 = w[f + 1]
    BY <2>1
  <2> QED
    BY <1>7, <2>3, <2>4, <2>5
<1>14. ASSUME NEW f \in 1 .. n PROVE Bounded(u, f)
  <2>1. /\ u.entries = es /\ u.first[f] = w[f] /\ u.last[f] = w[f + 1] - 1
    BY <1>1
  <2> HIDE DEF u
  <2> QED
    BY <1>8, <1>9, <1>13, <2>1 DEF Bounded
<1>15. Linked(u, 1 .. n)
  <2>1. ASSUME NEW e \in 1 .. N
        PROVE  es[e].fn \in 1 .. n /\ (es[e].kind = "size" => e = u.last[es[e].fn])
    <3>1. es[e].fn = Of(e) /\ Of(e) \in 1 .. n /\ es[e].kind = kind(e)
          /\ u.last[Of(e)] = w[Of(e) + 1] - 1
      BY <1>1, <1>6, <1>8
    <3> HIDE DEF u
    <3> QED
      BY <1>5, <1>7, <3>1
  <2>2. u.entries = es
    OBVIOUS
  <2> HIDE DEF u
  <2> QED
    BY <1>9, <1>12, <1>14, <2>1, <2>2 DEF Linked, Listed
<1>16. u \in Units(1 .. n, <<>>)
  <2>1. /\ [f \in DOMAIN t |-> w[f]] \in [1 .. n -> Nat]
        /\ [f \in DOMAIN t |-> w[f + 1] - 1] \in [1 .. n -> Nat]
    <3>1. ASSUME NEW f \in 1 .. n PROVE w[f] \in Nat /\ w[f + 1] - 1 \in Nat
      BY <1>5, <1>13
    <3> QED
      BY <1>1, <3>1
  <2>2. NoMap \in [known : BOOLEAN, keys : SUBSET Nat, of : {<<>>}]
    BY DEF NoMap
  <2> QED
    BY <1>9, <2>1, <2>2 DEF Units
<1>17. /\ ~u.sizes.known /\ u.sizes.of = <<>> /\ u.fate = "ok" /\ DOMAIN u.first = DOMAIN t
  BY DEF NoMap
<1> QED
  BY <1>1, <1>2, <1>15, <1>16, <1>17 DEF n

-----------------------------------------------------------------------------
(* What the actions do to the unit.                                        *)

\* A pass deletes what has no size only in the lists that the claim names.
LEMMA ExcuseLemma ==
  ASSUME StepsInv, NEW k \in Made, <<Pass, k>> \in Deletes,
         \E i \in DOMAIN list : list[i] \in Relaxers
  PROVE  Excused
PROOF
<1>1. PICK i \in 1 .. pos : <<list[i], k>> \in Makes
  BY DEF Made
<1>2. /\ DOMAIN list = 1 .. Len(list) /\ Len(list) \in Nat /\ pos \in 1 .. Len(list)
      /\ Pass = list[pos]
  BY DEF StepsInv, Pass
<1>3. i # pos
  BY <1>1, <1>2 DEF Makes, Deletes
<1>4. i \in DOMAIN list /\ pos \in DOMAIN list /\ i < pos
  BY <1>2, <1>3
<1>5. In("LOOP16") \/ In("BRSEP") \/ In("PALIAS") \/ In("TEST")
  BY DEF In, Relaxers
<1>6. \/ list[i] \in {"BRSEP", "NOPIN"} /\ list[pos] \in {"NOPKILL"}
      \/ list[i] \in {"ADD2INC"} /\ list[pos] \in {"INC2ADD"}
      \/ list[i] \in {"INC2ADD"} /\ list[pos] \in {"ADD2INC", "ADDADD"}
  BY <1>1, <1>2 DEF Makes, Deletes
<1>7. \/ Before({"BRSEP", "NOPIN"}, {"NOPKILL"})
      \/ Before({"ADD2INC"}, {"INC2ADD"})
      \/ Before({"INC2ADD"}, {"ADD2INC", "ADDADD"})
  BY <1>4, <1>6 DEF Before
<1> QED
  BY <1>5, <1>7 DEF Excused

\* A unit that may come after this one while the pass runs.
Follows(v) ==
  /\ v \in Units(DOMAIN cfg, v.sizes.of) /\ Linked(v, DOMAIN cfg) /\ Sized(v, fn, Made)
  /\ Len(unit.entries) <= Len(v.entries)
  /\ \A i \in 1 .. Len(unit.entries) :
       v.entries[i].kind = unit.entries[i].kind /\ v.entries[i].fn = unit.entries[i].fn
  /\ v.sizes.known => \E i \in DOMAIN list : list[i] \in Relaxers
  /\ v.fate = "aborted" => Excused

FlowInv == UnitInv /\ BlocksInv /\ MarkedInv

\* The unit itself may follow.
LEMMA UnitFacts ==
  ASSUME UnitInv
  PROVE  /\ unit.entries \in Seq(EntryType) /\ Len(unit.entries) \in Nat
         /\ DOMAIN unit.entries = 1 .. Len(unit.entries)
         /\ unit \in Edited(unit, DOMAIN cfg, fn, Made)
         /\ unit \in Edited(unit, DOMAIN cfg, fn, Kinds)
         /\ Follows(unit)
PROOF
<1>1. /\ unit.entries \in Seq(EntryType) /\ Len(unit.entries) \in Nat
      /\ DOMAIN unit.entries = 1 .. Len(unit.entries)
  BY DEF UnitInv, Units
<1>2. Made \subseteq Kinds
  BY DEF Made
<1>3. Sized(unit, fn, Made) /\ Sized(unit, fn, Kinds)
  BY <1>2 DEF UnitInv, Sized
<1> QED
  BY <1>1, <1>3 DEF UnitInv, Edited, Follows

\* An edit of a unit that may follow gives one that may.
LEMMA EditedFollows ==
  ASSUME NEW u, Follows(u), Len(unit.entries) \in Nat,
         NEW v \in Edited(u, DOMAIN cfg, fn, Made)
  PROVE  Follows(v)
PROOF
<1>1. v \in Units(DOMAIN cfg, v.sizes.of)
  <2>1. v \in Units(DOMAIN cfg, u.sizes.of)
    BY DEF Edited
  <2>2. v.sizes.of = u.sizes.of
    BY <2>1 DEF Units
  <2> QED
    BY <2>1, <2>2
<1>2. Len(u.entries) \in Nat /\ Len(v.entries) \in Nat
  BY <1>1 DEF Follows, Units
<1>3. /\ Linked(v, DOMAIN cfg) /\ Sized(v, fn, Made)
      /\ Len(u.entries) <= Len(v.entries)
      /\ \A i \in 1 .. Len(u.entries) :
           v.entries[i].kind = u.entries[i].kind /\ v.entries[i].fn = u.entries[i].fn
      /\ v.sizes.known = u.sizes.known
      /\ v.fate = "aborted" => Excused
  BY DEF Edited
<1> QED
  BY <1>1, <1>2, <1>3 DEF Follows

\* Relaxing gives every entry a size.
LEMMA RelaxedFollows ==
  ASSUME StepsInv, UnitInv, NEW v \in Edited(unit, DOMAIN cfg, fn, Kinds), Pass \in Relaxers
  PROVE  Follows(WithSizes(v, Relaxed(v)))
PROOF
<1> DEFINE w == WithSizes(v, Relaxed(v))
<1>1. /\ v \in Units(DOMAIN cfg, unit.sizes.of) /\ Linked(v, DOMAIN cfg)
      /\ Len(unit.entries) <= Len(v.entries)
      /\ \A i \in 1 .. Len(unit.entries) :
           v.entries[i].kind = unit.entries[i].kind /\ v.entries[i].fn = unit.entries[i].fn
      /\ v.fate = "aborted" => Excused
  BY DEF Edited
<1>2. /\ v.entries \in Seq(EntryType) /\ v.first \in [DOMAIN cfg -> Nat]
      /\ v.last \in [DOMAIN cfg -> Nat] /\ v.fate \in {"ok", "aborted", "astray"}
      /\ DOMAIN v.entries \subseteq Nat
  BY <1>1 DEF Units
<1> DEFINE r == Relaxed(v)
<1>3. /\ r \in [known : BOOLEAN, keys : SUBSET Nat, of : {r.of}]
      /\ r.keys = {e \in DOMAIN v.entries : ~v.entries[e].deleted}
  BY <1>2 DEF Relaxed
<1>4. w = [entries |-> v.entries, first |-> v.first, last |-> v.last, sizes |-> r,
           fate |-> v.fate]
  BY DEF WithSizes
<1> HIDE DEF r, w
<1>5. /\ w.entries = v.entries /\ w.first = v.first /\ w.last = v.last /\ w.sizes = r
      /\ w.fate = v.fate
  BY <1>4
<1>6. w \in Units(DOMAIN cfg, w.sizes.of)
  BY <1>2, <1>3, <1>4, <1>5 DEF Units
<1>7. Linked(w, DOMAIN cfg)
  BY <1>1, <1>5 DEF Linked, Bounded
<1>8. Sized(w, fn, Made)
  BY <1>3, <1>5 DEF Sized
<1>9. \E i \in DOMAIN list : list[i] \in Relaxers
  BY DEF StepsInv, Pass
<1> QED
  BY <1>1, <1>5, <1>6, <1>7, <1>8, <1>9 DEF Follows, w

\* Without sizes no entry lacks one.
LEMMA DroppedFollows ==
  ASSUME UnitInv
  PROVE  Follows(WithSizes(unit, NoMap))
PROOF
<1> DEFINE w == WithSizes(unit, NoMap)
<1>1. /\ unit.entries \in Seq(EntryType) /\ unit.first \in [DOMAIN cfg -> Nat]
      /\ unit.last \in [DOMAIN cfg -> Nat] /\ unit.fate \in {"ok", "aborted", "astray"}
      /\ Len(unit.entries) \in Nat
  BY DEF UnitInv, Units
<1>2. w = [entries |-> unit.entries, first |-> unit.first, last |-> unit.last, sizes |-> NoMap,
           fate |-> unit.fate]
  BY DEF WithSizes
<1> HIDE DEF w
<1>3. /\ w.entries = unit.entries /\ w.first = unit.first /\ w.last = unit.last
      /\ w.sizes = NoMap /\ w.fate = unit.fate /\ ~w.sizes.known
  BY <1>2 DEF NoMap
<1>4. NoMap \in [known : BOOLEAN, keys : SUBSET Nat, of : {NoMap.of}]
  BY DEF NoMap
<1>5. w \in Units(DOMAIN cfg, w.sizes.of)
  BY <1>1, <1>2, <1>3, <1>4 DEF Units
<1>6. Linked(w, DOMAIN cfg)
  BY <1>3 DEF UnitInv, Linked, Bounded
<1> QED
  BY <1>1, <1>3, <1>5, <1>6 DEF UnitInv, Sized, Follows, w

\* A step after which the unit is one that may follow, and what is marked is of
\* the kinds that the pass deletes.
LEMMA WorkFlows ==
  ASSUME FlowInv, list' = list, UNCHANGED <<fn, pos, cfg>>, Follows(unit'),
         redundants' \in Seq(Marked)
  PROVE  FlowInv'
PROOF
<1>1. /\ Made' = Made /\ Excused' = Excused /\ Pass' = Pass
  BY DEF Made, Excused, In, Before, Pass
<1>2. UnitInv'
  BY <1>1 DEF FlowInv, UnitInv, Follows
<1>3. /\ Len(unit.entries) \in Nat /\ Len(unit'.entries) \in Nat
  BY <1>2, UnitFacts DEF FlowInv, UnitInv, Units
<1>4. ASSUME NEW f PROVE Ends(unit.entries, f) \subseteq Ends(unit'.entries, f)
  BY <1>3 DEF Follows, Ends, Its
<1>5. BlocksInv'
  <2>1. ASSUME NEW f \in DOMAIN cfg
        PROVE  cfg[f].blocks \in Seq(Ends(unit'.entries, f) \X Ends(unit'.entries, f))
    <3>1. cfg[f].blocks \in Seq(Ends(unit.entries, f) \X Ends(unit.entries, f))
      BY DEF FlowInv, BlocksInv
    <3>2. Ends(unit.entries, f) \X Ends(unit.entries, f)
            \subseteq Ends(unit'.entries, f) \X Ends(unit'.entries, f)
      BY <1>4
    <3> QED
      BY ONLY <3>1, <3>2, SeqGrows
  <2> QED
    BY <2>1 DEF BlocksInv
<1>6. MarkedInv'
  <2>1. Marked \subseteq Marked'
    BY <1>1, <1>3 DEF Follows, Marked, Its
  <2>2. redundants' \in Seq(Marked')
    BY ONLY <2>1, SeqGrows, redundants' \in Seq(Marked)
  <2> QED
    BY <2>2 DEF MarkedInv
<1> QED
  BY <1>2, <1>5, <1>6 DEF FlowInv

\* A step of the running pass.
LEMMA WorkStep ==
  ASSUME FlowInv, NEW u, NEW marked, NEW read, Work(u, marked, read), Follows(u),
         marked \in Seq(Marked)
  PROVE  FlowInv'
PROOF
<1>1. /\ list' = list /\ UNCHANGED <<fn, pos, cfg>> /\ unit' = u /\ redundants' = marked
  BY DEF Work, where, cached
<1>2. Follows(unit') /\ redundants' \in Seq(Marked)
  BY <1>1
<1> QED
  BY <1>1, <1>2, WorkFlows

LEMMA NoneMarked == <<>> \in Seq(Marked)
PROOF
  OBVIOUS

\* Links before entries of the function keep the unit in order.
LEMMA LinksStay ==
  ASSUME NEW fns, NEW f \in fns, NEW made, NEW u, u \in Edited(u, fns, f, made),
         u.entries \in Seq(EntryType), NEW s \in Seq(Its(u.entries, f)),
         NEW k \in Kinds \ {"size"}, u.sizes.known => k \in made
  PROVE  EachLinked(u, s, k) \in Edited(u, fns, f, made)
PROOF
<1> DEFINE S == Edited(u, fns, f, made)
<1>1. s \in Seq(Nat) /\ u \in S
  <2>1. Its(u.entries, f) \subseteq Nat
    BY DEF Its
  <2> QED
    BY <2>1, SeqGrows
<1>2. ASSUME NEW v \in S, NEW i \in 1 .. Len(s)
      PROVE  LinkBefore(v, s[i], k) \in S
  <2> DEFINE e == s[i]
  <2>1. e \in 1 .. Len(u.entries) /\ u.entries[e].fn = f
    BY DEF Its
  <2> HIDE DEF e
  <2>2. Len(u.entries) <= Len(v.entries) /\ v.entries[e].fn = f /\ Len(v.entries) \in Nat
    BY <2>1 DEF Edited, Units
  <2>3. e \in 1 .. Len(v.entries)
    BY <2>1, <2>2
  <2>4. LinkBefore(v, e, k) \in S
    BY <2>2, <2>3, LinkStays
  <2> QED
    BY <2>4 DEF e
<1> HIDE DEF S
<1>3. EachLinked(u, s, k) \in S
  BY <1>1, <1>2, EachIsLinked
<1> QED
  BY <1>3 DEF S

\* So do merges.
LEMMA MergesStay ==
  ASSUME NEW fns, NEW f \in fns, NEW made, NEW u, u \in Edited(u, fns, f, made), f \in Nat,
         u.entries \in Seq(EntryType), NEW s \in Seq(Its(u.entries, f)),
         u.sizes.known /\ "add" \in made => Excused
  PROVE  Each(Merge, u, s) \in Edited(u, fns, f, made)
PROOF
<1> DEFINE S == Edited(u, fns, f, made)
<1>1. s \in Seq(Nat) /\ u \in S
  <2>1. Its(u.entries, f) \subseteq Nat
    BY DEF Its
  <2> QED
    BY <2>1, SeqGrows
<1>2. ASSUME NEW v \in S, NEW i \in 1 .. Len(s)
      PROVE  Merge(v, s[i]) \in S
  <2> DEFINE e == s[i]
  <2>1. e \in 1 .. Len(u.entries) /\ u.entries[e].fn = f
    BY DEF Its
  <2> HIDE DEF e
  <2>2. Len(u.entries) <= Len(v.entries) /\ v.entries[e].fn = f /\ Len(v.entries) \in Nat
    BY <2>1 DEF Edited, Units
  <2>3. e \in 1 .. Len(v.entries)
    BY <2>1, <2>2
  <2>4. Merge(v, e) \in S
    BY <2>2, <2>3, MergeStays
  <2> QED
    BY <2>4 DEF e
<1> HIDE DEF S
<1>3. Each(Merge, u, s) \in S
  BY <1>1, <1>2, EachMerged
<1> QED
  BY <1>3 DEF S

\* And so do deletions of what was marked.
LEMMA DeletesStay ==
  ASSUME StepsInv, UnitInv, fn \in DOMAIN cfg, NEW s \in Seq(Marked)
  PROVE  Each(DeleteEntry, unit, s) \in Edited(unit, DOMAIN cfg, fn, Made)
PROOF
<1> DEFINE S == Edited(unit, DOMAIN cfg, fn, Made)
<1>0. unit.entries \in Seq(EntryType) /\ unit \in S /\ fn \in Nat
  BY UnitFacts DEF UnitInv
<1>1. s \in Seq(Nat)
  <2>1. Marked \subseteq Nat
    BY DEF Marked, Its
  <2> QED
    BY <2>1, SeqGrows
<1>2. ASSUME NEW v \in S, NEW i \in 1 .. Len(s)
      PROVE  DeleteEntry(v, s[i]) \in S
  <2> DEFINE e == s[i]
  <2>0. e \in Marked
    OBVIOUS
  <2> HIDE DEF e
  <2>1. /\ e \in 1 .. Len(unit.entries) /\ unit.entries[e].fn = fn
        /\ <<Pass, unit.entries[e].kind>> \in Deletes
    BY <2>0 DEF Marked, Its
  <2>2. /\ Len(unit.entries) <= Len(v.entries) /\ Len(v.entries) \in Nat
        /\ v.entries[e].fn = fn /\ v.entries[e].kind = unit.entries[e].kind
    BY <2>1 DEF Edited, Units
  <2>3. e \in 1 .. Len(v.entries)
    BY <2>1, <2>2
  <2>4. v.entries[e].kind # "size"
    BY <2>1, <2>2 DEF Deletes
  <2>5. unit.sizes.known /\ v.entries[e].kind \in Made => Excused
    BY <2>1, <2>2, ExcuseLemma DEF UnitInv
  <2>6. DeleteEntry(v, e) \in S
    BY <1>0, <2>2, <2>3, <2>4, <2>5, DeleteStays
  <2> QED
    BY <2>6 DEF e
<1> HIDE DEF S
<1>3. Each(DeleteEntry, unit, s) \in S
  BY <1>0, <1>1, <1>2, EachDeleted
<1> QED
  BY <1>3 DEF S

\* The walks over the blocks visit entries of the function.
LEMMA WalkLemma ==
  ASSUME FlowInv, fn \in DOMAIN cfg, ~Astray
  PROVE  /\ \A b \in DOMAIN Walks : Walks[b].seen \in Seq(Its(unit.entries, fn))
         /\ Joined(Visited) \in Seq(Its(unit.entries, fn))
         /\ Joined(PastFirst) \in Seq(Its(unit.entries, fn))
PROOF
<1> DEFINE T == Its(unit.entries, fn)
           n == Len(cfg[fn].blocks)
<1>1. /\ cfg[fn].blocks \in Seq(Ends(unit.entries, fn) \X Ends(unit.entries, fn))
      /\ n \in Nat /\ DOMAIN cfg[fn].blocks = 1 .. n
  BY DEF FlowInv, BlocksInv
<1>2. /\ DOMAIN Walks = 1 .. n
      /\ \A b \in 1 .. n : Walks[b] = InBlock(unit, cfg[fn].blocks[b])
  BY <1>1 DEF Walks
<1>3. ASSUME NEW b \in 1 .. n PROVE Walks[b].ends /\ Walks[b].seen \in Seq(T)
  <2> DEFINE c == cfg[fn].blocks[b]
  <2>1. c \in Ends(unit.entries, fn) \X Ends(unit.entries, fn)
    BY <1>1
  <2> HIDE DEF c
  <2>2. c[1] \in T /\ c[2] \in T /\ unit.entries[c[2]].kind # "size"
    BY <2>1 DEF Ends
  <2>3. Walks[b] = InBlock(unit, c) /\ InBlock(unit, c).ends
    BY <1>2 DEF c, Astray
  <2>4. Linked(unit, DOMAIN cfg) /\ fn \in Nat
    BY DEF FlowInv, UnitInv
  <2> QED
    BY <2>2, <2>3, <2>4, BlockWalk
<1> HIDE DEF n, T
<1>4. Visited = [b \in 1 .. n |-> Pick(Walks[b].seen, OfKind(unit, Insns))]
  BY <1>2 DEF Visited
<1>5. ASSUME NEW b \in 1 .. n
      PROVE  Visited[b] \in Seq(T)
  <2>1. Pick(Walks[b].seen, OfKind(unit, Insns)) \in Seq(T \cap OfKind(unit, Insns))
    BY <1>3, PickLemma
  <2>2. T \cap OfKind(unit, Insns) \subseteq T
    OBVIOUS
  <2>3. Pick(Walks[b].seen, OfKind(unit, Insns)) \in Seq(T)
    BY ONLY <2>1, <2>2, SeqGrows
  <2> QED
    BY <1>4, <2>3
<1>6. Visited \in Seq(Seq(T))
  <2>1. Visited \in [1 .. n -> Seq(T)]
    BY <1>4, <1>5
  <2> QED
    BY <1>1, <2>1, SeqDef
<1>7. PastFirst \in Seq(Seq(T))
  <2>1. PastFirst = [b \in 1 .. n |-> IF Visited[b] = <<>> THEN <<>> ELSE Tail(Visited[b])]
    BY <1>2 DEF PastFirst
  <2>2. ASSUME NEW b \in 1 .. n
        PROVE  (IF Visited[b] = <<>> THEN <<>> ELSE Tail(Visited[b])) \in Seq(T)
    BY <1>5
  <2>3. PastFirst \in [1 .. n -> Seq(T)]
    BY <2>1, <2>2
  <2> QED
    BY <1>1, <2>3, SeqDef
<1>8. \A b \in DOMAIN Walks : Walks[b].seen \in Seq(T)
  BY <1>2, <1>3
<1> QED
  BY <1>6, <1>7, <1>8, JoinedLemma DEF T

-----------------------------------------------------------------------------
(* The actions, one by one.                                                *)

\* The step at the head of the script is one of the running pass.
LEMMA WhoWorks ==
  ASSUME StepsInv, NEW step, At(step)
  PROVE  Owned(step, Pass)
PROOF
<1>1. 1 \in 1 .. Len(steps) /\ steps[1] = step
  BY DEF StepsInv, Fits, At
<1> QED
  BY <1>1 DEF StepsInv, Fits

\* What the running pass inserts counts as made.
LEMMA PassMakes ==
  ASSUME StepsInv, NEW k \in Kinds, <<Pass, k>> \in Makes
  PROVE  k \in Made
PROOF
<1>1. pos \in 1 .. pos /\ <<list[pos], k>> \in Makes
  BY DEF StepsInv, Pass
<1> QED
  BY <1>1, Zenon DEF Made

\* Picking leaves only elements of the sequence.
LEMMA PickSome ==
  ASSUME NEW T, NEW s \in Seq(T), NEW set
  PROVE  Pick(s, set) \in Seq(T)
PROOF
<1>1. Pick(s, set) \in Seq(T \cap set) /\ T \cap set \subseteq T
  BY PickLemma
<1> QED
  BY ONLY <1>1, SeqGrows

\* The walk over a function visits its entries.
LEMMA WholeLemma ==
  ASSUME UnitInv, fn \in DOMAIN cfg
  PROVE  Whole \in Seq(Its(unit.entries, fn))
PROOF
  BY FunctionWalk DEF UnitInv, Whole

\* Relaxing gives every entry a size; dropping leaves none to miss.
LEMMA SizesFlow ==
  ASSUME StepsInv, FlowInv, AskSizes \/ DropSizes
  PROVE  FlowInv'
PROOF
<1>1. CASE AskSizes
  <2>1. Pass \in Relaxers
    BY <1>1, WhoWorks DEF AskSizes, Owned
  <2>2. unit \in Edited(unit, DOMAIN cfg, fn, Kinds) /\ Follows(unit)
    BY UnitFacts DEF FlowInv
  <2>3. Follows(WithSizes(unit, Relaxed(unit)))
    BY <2>1, <2>2, RelaxedFollows DEF FlowInv
  <2>4. Follows(IF unit.sizes.known THEN unit ELSE WithSizes(unit, Relaxed(unit)))
    BY <2>2, <2>3
  <2> QED
    BY <1>1, <2>4, NoneMarked, WorkStep DEF AskSizes
<1>2. CASE DropSizes
  BY <1>2, DroppedFollows, NoneMarked, WorkStep DEF DropSizes, FlowInv
<1> QED
  BY <1>1, <1>2

\* Alignments before loops are followed by a relaxation.
LEMMA AlignFlows ==
  ASSUME StepsInv, FlowInv, AlignLoops
  PROVE  FlowInv'
PROOF
<1>1. Pass \in Relaxers /\ fn \in DOMAIN cfg
  BY WhoWorks DEF AlignLoops, Owned, Relaxers, At, Running
<1>2. PICK some : Work(IF some = {} THEN unit ELSE Realigned(AlignBefore(unit, Pick(Whole, some))),
                       <<>>, LoopsRead \cup SizesRead)
  BY DEF AlignLoops
<1>3. AlignBefore(unit, Pick(Whole, some)) \in Edited(unit, DOMAIN cfg, fn, Kinds)
  <2>1. Pick(Whole, some) \in Seq(Its(unit.entries, fn))
    BY <1>1, WholeLemma, PickSome DEF FlowInv
  <2>2. unit.entries \in Seq(EntryType) /\ unit \in Edited(unit, DOMAIN cfg, fn, Kinds)
    BY UnitFacts DEF FlowInv
  <2>3. "align" \in Kinds \ {"size"}
    BY DEF Kinds, Directives
  <2> QED
    BY <1>1, <2>1, <2>2, <2>3, LinksStay DEF AlignBefore
<1>4. Follows(Realigned(AlignBefore(unit, Pick(Whole, some))))
  BY <1>1, <1>3, RelaxedFollows DEF Realigned, FlowInv
<1>5. Follows(unit)
  BY UnitFacts DEF FlowInv
<1>6. Follows(IF some = {} THEN unit ELSE Realigned(AlignBefore(unit, Pick(Whole, some))))
  BY <1>4, <1>5
<1> QED
  BY <1>2, <1>6, NoneMarked, WorkStep

\* Alignments before branches are, but for the one of the function.
LEMMA SeparateFlows ==
  ASSUME StepsInv, FlowInv, SeparateBranches
  PROVE  FlowInv'
PROOF
<1> DEFINE looked == [unit EXCEPT !.sizes.keys = @ \cup {Whole[k] : k \in DOMAIN Whole}]
           u(some) == Realigned(AlignBefore(looked, Pick(Whole, some)))
           w(some) == AlignBefore(u(some), <<u(some).first[fn]>>)
<1>1. Pass \in Relaxers /\ fn \in DOMAIN cfg /\ "align" \in Made /\ "align" \in Kinds \ {"size"}
  <2>1. Pass = "BRSEP" /\ fn \in DOMAIN cfg
    BY WhoWorks DEF SeparateBranches, Owned, At, Running
  <2>2. "align" \in Kinds \ {"size"}
    BY DEF Kinds, Directives
  <2>3. "align" \in Made
    BY <2>1, <2>2, PassMakes DEF Makes
  <2> QED
    BY <2>1, <2>2, <2>3 DEF Relaxers
<1>2. PICK some : Work(IF some = {} THEN looked ELSE w(some), <<>>, SizesRead)
  BY DEF SeparateBranches
<1>3. /\ unit.entries \in Seq(EntryType) /\ Len(unit.entries) \in Nat /\ UnitInv
      /\ Whole \in Seq(Its(unit.entries, fn)) /\ Follows(unit)
  BY <1>1, UnitFacts, WholeLemma DEF FlowInv
<1>4. /\ looked \in Units(DOMAIN cfg, unit.sizes.of)
      /\ looked.entries = unit.entries /\ looked.first = unit.first /\ looked.last = unit.last
      /\ looked.sizes.known = unit.sizes.known /\ looked.sizes.of = unit.sizes.of
      /\ unit.sizes.keys \subseteq looked.sizes.keys
      /\ looked.fate = unit.fate
  <2>1. {Whole[k] : k \in DOMAIN Whole} \subseteq Nat
    BY <1>3 DEF Its
  <2> DEFINE more == {Whole[k] : k \in DOMAIN Whole}
  <2> HIDE DEF more
  <2>2. more \subseteq Nat
    BY <2>1 DEF more
  <2>3. unit \in Units(DOMAIN cfg, unit.sizes.of)
    BY <1>3 DEF UnitInv
  <2>4. looked = [unit EXCEPT !.sizes.keys = @ \cup more]
    BY DEF more
  <2> HIDE DEF looked
  <2> QED
    BY <2>2, <2>3, <2>4 DEF Units
<1> HIDE DEF looked
<1>5. ASSUME NEW made, Sized(unit, fn, made)
      PROVE  /\ looked \in Edited(unit, DOMAIN cfg, fn, made)
             /\ looked \in Edited(looked, DOMAIN cfg, fn, made)
             /\ Edited(looked, DOMAIN cfg, fn, made) = Edited(unit, DOMAIN cfg, fn, made)
  <2>1. Linked(looked, DOMAIN cfg)
    BY <1>3, <1>4 DEF UnitInv, Linked, Bounded
  <2>2. Sized(looked, fn, made)
    BY <1>4, <1>5 DEF Sized
  <2>3. looked \in Edited(unit, DOMAIN cfg, fn, made)
    BY <1>3, <1>4, <2>1, <2>2 DEF Edited, UnitInv
  <2>4. Edited(looked, DOMAIN cfg, fn, made) = Edited(unit, DOMAIN cfg, fn, made)
    BY <1>4 DEF Edited
  <2> QED
    BY <2>3, <2>4
<1>6. Follows(looked)
  <2>1. looked \in Edited(unit, DOMAIN cfg, fn, Made)
    BY <1>3, <1>5 DEF UnitInv
  <2> QED
    BY <1>3, <2>1, EditedFollows
<1>7. Follows(u(some))
  <2>1. Sized(unit, fn, Kinds)
    BY <1>3, UnitFacts DEF Edited
  <2>2. Pick(Whole, some) \in Seq(Its(looked.entries, fn))
    BY <1>3, <1>4, PickSome
  <2>3. AlignBefore(looked, Pick(Whole, some)) \in Edited(looked, DOMAIN cfg, fn, Kinds)
    BY <1>1, <1>3, <1>4, <1>5, <2>1, <2>2, LinksStay DEF AlignBefore
  <2>4. AlignBefore(looked, Pick(Whole, some)) \in Edited(unit, DOMAIN cfg, fn, Kinds)
    BY <1>5, <2>1, <2>3
  <2> QED
    BY <1>1, <1>3, <2>4, RelaxedFollows DEF Realigned
<1> HIDE DEF u
<1>8. Follows(w(some))
  <2> DEFINE v == u(some)
  <2>1. Follows(v)
    BY <1>7
  <2> HIDE DEF v
  <2>2. /\ v.entries \in Seq(EntryType) /\ v \in Edited(v, DOMAIN cfg, fn, Made)
        /\ Len(v.entries) \in Nat
    BY <2>1 DEF Follows, Edited, Units
  <2>3. v.first[fn] \in Its(v.entries, fn)
    <3>1. Bounded(v, fn)
      BY <1>1, <2>1 DEF Follows, Linked
    <3> QED
      BY <2>2, <3>1 DEF Bounded, Its
  <2>4. <<v.first[fn]>> \in Seq(Its(v.entries, fn))
    BY <2>3
  <2>5. AlignBefore(v, <<v.first[fn]>>) \in Edited(v, DOMAIN cfg, fn, Made)
    BY <1>1, <2>2, <2>4, LinksStay DEF AlignBefore
  <2>6. Follows(AlignBefore(v, <<v.first[fn]>>))
    BY <1>3, <2>1, <2>5, EditedFollows
  <2> QED
    BY <2>6 DEF v
<1> HIDE DEF w
<1>9. Follows(IF some = {} THEN looked ELSE w(some))
  BY <1>6, <1>8
<1> QED
  BY <1>2, <1>9, NoneMarked, WorkStep

\* A walk that goes astray leaves the unit as it is.
LEMMA AstrayFlows ==
  ASSUME StepsInv, FlowInv, GoAstray
  PROVE  FlowInv'
PROOF
<1> DEFINE v == [entries |-> unit.entries, first |-> unit.first, last |-> unit.last,
                 sizes |-> unit.sizes, fate |-> "astray"]
<1>1. /\ unit \in Units(DOMAIN cfg, unit.sizes.of) /\ Linked(unit, DOMAIN cfg)
      /\ Sized(unit, fn, Made) /\ Len(unit.entries) \in Nat
      /\ unit.sizes.known => \E i \in DOMAIN list : list[i] \in Relaxers
  BY UnitFacts DEF FlowInv, UnitInv
<1>2. /\ v \in Units(DOMAIN cfg, unit.sizes.of) /\ v.entries = unit.entries
      /\ v.first = unit.first /\ v.last = unit.last /\ v.sizes = unit.sizes
      /\ v.fate = "astray"
  BY <1>1 DEF Units
<1> HIDE DEF v
<1>3. Linked(v, DOMAIN cfg)
  BY <1>1, <1>2 DEF Linked, Bounded
<1>4. Sized(v, fn, Made)
  BY <1>1, <1>2 DEF Sized
<1>5. Follows(v)
  BY <1>1, <1>2, <1>3, <1>4 DEF Follows
<1>6. Work(v, <<>>, {})
  BY DEF GoAstray, v
<1> QED
  BY <1>5, <1>6, NoneMarked, WorkStep

LEMMA ScanFlows ==
  ASSUME StepsInv, FlowInv, Scan
  PROVE  FlowInv'
PROOF
<1>1. Follows(unit)
  BY UnitFacts DEF FlowInv
<1>2. CASE Astray
  BY <1>2, AstrayFlows DEF Scan
<1>3. CASE ~Astray
  BY <1>1, <1>3, NoneMarked, WorkStep DEF Scan
<1> QED
  BY <1>2, <1>3

\* What the running pass may delete of what it picks.
LEMMA PickMarked ==
  ASSUME NEW s \in Seq(Its(unit.entries, fn)), NEW set,
         \A e \in set : <<Pass, unit.entries[e].kind>> \in Deletes
  PROVE  Pick(s, set) \in Seq(Marked)
PROOF
<1>1. Pick(s, set) \in Seq(Its(unit.entries, fn) \cap set)
  BY PickLemma
<1>2. Its(unit.entries, fn) \cap set \subseteq Marked
  BY DEF Marked
<1> QED
  BY ONLY <1>1, <1>2, SeqGrows

\* Merged adds had a size, or are of an earlier INC2ADD.
LEMMA MergeFlows ==
  ASSUME StepsInv, FlowInv, MergeAdds
  PROVE  FlowInv'
PROOF
<1>1. Pass = "ADDADD" /\ fn \in DOMAIN cfg
  BY WhoWorks DEF MergeAdds, Owned, At, Running
<1>2. CASE Astray
  BY <1>2, AstrayFlows DEF MergeAdds
<1>3. CASE ~Astray
  <2> DEFINE s == Joined(PastFirst)
  <2>1. s \in Seq(Its(unit.entries, fn))
    BY <1>1, <1>3, WalkLemma
  <2>2. /\ unit.entries \in Seq(EntryType) /\ unit \in Edited(unit, DOMAIN cfg, fn, Made)
        /\ Follows(unit) /\ fn \in Nat /\ Len(unit.entries) \in Nat
    BY UnitFacts DEF FlowInv, UnitInv
  <2>3. unit.sizes.known /\ "add" \in Made => Excused
    BY <1>1, ExcuseLemma DEF Deletes, FlowInv, UnitInv
  <2> HIDE DEF s
  <2>4. Each(Merge, unit, s) \in Edited(unit, DOMAIN cfg, fn, Made)
    BY <1>1, <2>1, <2>2, <2>3, MergesStay
  <2>5. Follows(Each(Merge, unit, s))
    BY <2>2, <2>4, EditedFollows
  <2>6. Work(Each(Merge, unit, s), <<>>, {})
    BY <1>3 DEF MergeAdds, s
  <2> QED
    BY <2>5, <2>6, NoneMarked, WorkStep
<1> QED
  BY <1>2, <1>3

LEMMA ExtentsFlow ==
  ASSUME StepsInv, FlowInv, MarkExtents
  PROVE  FlowInv'
PROOF
<1>1. Pass = "ZEE" /\ fn \in DOMAIN cfg
  BY WhoWorks DEF MarkExtents, Owned, At, Running
<1>2. CASE Astray
  BY <1>2, AstrayFlows DEF MarkExtents
<1>3. CASE ~Astray
  <2> DEFINE dead == {e \in OfKind(unit, {"ext"}) :
                        unit.entries[e].prev # 0 /\ KindOf(unit.entries[e].prev) = "load"}
  <2>1. Joined(PastFirst) \in Seq(Its(unit.entries, fn))
    BY <1>1, <1>3, WalkLemma
  <2>2. \A e \in dead : <<Pass, unit.entries[e].kind>> \in Deletes
    BY <1>1 DEF OfKind, Deletes
  <2>3. Work(unit, Pick(Joined(PastFirst), dead), {})
    BY <1>3 DEF MarkExtents
  <2> HIDE DEF dead
  <2>4. Pick(Joined(PastFirst), dead) \in Seq(Marked)
    BY <2>1, <2>2, PickMarked
  <2>5. Follows(unit)
    BY UnitFacts DEF FlowInv
  <2> QED
    BY <2>3, <2>4, <2>5, WorkStep
<1> QED
  BY <1>2, <1>3

\* A pass that links entries of one kind before entries of its function.
LEMMA LinkedFollows ==
  ASSUME StepsInv, FlowInv, fn \in DOMAIN cfg, NEW s \in Seq(Its(unit.entries, fn)),
         NEW k \in Kinds \ {"size"}, <<Pass, k>> \in Makes
  PROVE  Follows(EachLinked(unit, s, k))
PROOF
<1>1. /\ unit.entries \in Seq(EntryType) /\ unit \in Edited(unit, DOMAIN cfg, fn, Made)
      /\ Follows(unit) /\ Len(unit.entries) \in Nat
  BY UnitFacts DEF FlowInv
<1>2. k \in Made
  BY PassMakes
<1>3. EachLinked(unit, s, k) \in Edited(unit, DOMAIN cfg, fn, Made)
  BY <1>1, <1>2, LinksStay
<1> QED
  BY <1>1, <1>3, EditedFollows

LEMMA PrefetchFlows ==
  ASSUME StepsInv, FlowInv, Prefetch
  PROVE  FlowInv'
PROOF
<1>1. Pass = "PREFNTA" /\ fn \in DOMAIN cfg
  BY WhoWorks DEF Prefetch, Owned, At, Running
<1>2. CASE Astray
  BY <1>2, AstrayFlows DEF Prefetch
<1>3. CASE ~Astray
  <2> DEFINE s == Pick(Joined(Visited), OfKind(unit, {"load"}))
  <2>1. s \in Seq(Its(unit.entries, fn))
    BY <1>1, <1>3, WalkLemma, PickSome
  <2>2. Work(EachLinked(unit, s, "pref"), <<>>, {})
    BY <1>3 DEF Prefetch
  <2> HIDE DEF s
  <2>3. <<Pass, "pref">> \in Makes /\ "pref" \in Kinds \ {"size"}
    BY <1>1 DEF Makes, Kinds, Insns, Plain
  <2>4. Follows(EachLinked(unit, s, "pref"))
    BY <1>1, <2>1, <2>3, LinkedFollows
  <2> QED
    BY <2>2, <2>4, NoneMarked, WorkStep
<1> QED
  BY <1>2, <1>3

LEMMA NopsFlow ==
  ASSUME StepsInv, FlowInv, MarkNops
  PROVE  FlowInv'
PROOF
<1>1. Pass = "NOPKILL" /\ fn \in DOMAIN cfg
  BY WhoWorks DEF MarkNops, Owned, At, Running
<1>2. Whole \in Seq(Its(unit.entries, fn))
  BY <1>1, WholeLemma DEF FlowInv
<1>3. \A e \in OfKind(unit, {"nop", "align"}) : <<Pass, unit.entries[e].kind>> \in Deletes
  BY <1>1 DEF OfKind, Deletes
<1>4. Pick(Whole, OfKind(unit, {"nop", "align"})) \in Seq(Marked)
  BY <1>2, <1>3, PickMarked
<1>5. Follows(unit)
  BY UnitFacts DEF FlowInv
<1> QED
  BY <1>4, <1>5, WorkStep DEF MarkNops

\* A nop before an entry of the function.
LEMMA InsertFlows ==
  ASSUME StepsInv, FlowInv, InsertNop
  PROVE  FlowInv'
PROOF
<1>1. Pass = "NOPIN" /\ fn \in DOMAIN cfg /\ "nop" \in Kinds \ {"size"}
  BY WhoWorks DEF InsertNop, Owned, At, Running, Kinds, Insns, Plain
<1>2. /\ unit.entries \in Seq(EntryType) /\ unit \in Edited(unit, DOMAIN cfg, fn, Made)
      /\ Follows(unit) /\ Len(unit.entries) \in Nat
      /\ Whole \in Seq(Its(unit.entries, fn))
  BY <1>1, UnitFacts, WholeLemma DEF FlowInv
<1>3. "nop" \in Made
  BY <1>1, PassMakes DEF Makes
<1>4. CASE Work(unit, <<>>, {})
  BY <1>2, <1>4, NoneMarked, WorkStep
<1>5. ASSUME NEW k \in DOMAIN Whole, Work(LinkBefore(unit, Whole[k], "nop"), <<>>, {})
      PROVE  FlowInv'
  <2> DEFINE e == Whole[k]
  <2>1. e \in 1 .. Len(unit.entries) /\ unit.entries[e].fn = fn
    BY <1>2 DEF Its
  <2>2. Work(LinkBefore(unit, e, "nop"), <<>>, {})
    BY <1>5
  <2> HIDE DEF e
  <2>3. LinkBefore(unit, e, "nop") \in Edited(unit, DOMAIN cfg, fn, Made)
    BY <1>1, <1>2, <1>3, <2>1, LinkStays
  <2>4. Follows(LinkBefore(unit, e, "nop"))
    BY <1>2, <2>3, EditedFollows
  <2> QED
    BY <2>2, <2>4, NoneMarked, WorkStep
<1> QED
  BY <1>4, <1>5 DEF InsertNop

\* New instructions before the old ones, which are marked.
LEMMA ReplaceFlows ==
  ASSUME StepsInv, FlowInv,
         Replace("incs", AddsOfOne, "inc") \/ Replace("adds", Incs, "add")
  PROVE  FlowInv'
PROOF
<1>1. ASSUME NEW step, NEW old, NEW k \in Kinds \ {"size"}, Replace(step, old, k),
             <<Pass, k>> \in Makes, \A e \in old : <<Pass, unit.entries[e].kind>> \in Deletes
      PROVE  FlowInv'
  <2> DEFINE s == Pick(Whole, old)
  <2>1. Work(EachLinked(unit, s, k), s, {}) /\ fn \in DOMAIN cfg
    BY <1>1 DEF Replace, At, Running
  <2>2. Whole \in Seq(Its(unit.entries, fn))
    BY <2>1, WholeLemma DEF FlowInv
  <2>3. s \in Seq(Its(unit.entries, fn)) /\ s \in Seq(Marked)
    BY <1>1, <2>2, PickSome, PickMarked
  <2> HIDE DEF s
  <2>4. Follows(EachLinked(unit, s, k))
    BY <1>1, <2>1, <2>3, LinkedFollows
  <2> QED
    BY <2>1, <2>3, <2>4, WorkStep
<1>2. CASE Replace("incs", AddsOfOne, "inc")
  <2>1. Pass = "ADD2INC"
    BY <1>2, WhoWorks DEF Replace, Owned
  <2>2. /\ <<Pass, "inc">> \in Makes /\ "inc" \in Kinds \ {"size"}
        /\ \A e \in AddsOfOne : <<Pass, unit.entries[e].kind>> \in Deletes
    BY <2>1 DEF Makes, Deletes, AddsOfOne, OfKind, Kinds, Insns, Plain
  <2> QED
    BY <1>1, <1>2, <2>2
<1>3. CASE Replace("adds", Incs, "add")
  <2>1. Pass = "INC2ADD"
    BY <1>3, WhoWorks DEF Replace, Owned
  <2>2. /\ <<Pass, "add">> \in Makes /\ "add" \in Kinds \ {"size"}
        /\ \A e \in Incs : <<Pass, unit.entries[e].kind>> \in Deletes
    BY <2>1 DEF Makes, Deletes, Incs, OfKind, Kinds, Insns, Plain
  <2> QED
    BY <1>1, <1>3, <2>2
<1> QED
  BY <1>2, <1>3

\* An instruction moved within its block.
LEMMA ScheduleFlows ==
  ASSUME StepsInv, FlowInv, Schedule \/ Scheduled
  PROVE  FlowInv'
PROOF
<1>1. fn \in DOMAIN cfg
  BY DEF Schedule, Scheduled, At, Running
<1>2. /\ unit.entries \in Seq(EntryType) /\ unit \in Edited(unit, DOMAIN cfg, fn, Made)
      /\ Follows(unit) /\ Len(unit.entries) \in Nat /\ Listed(unit.entries)
  BY UnitFacts DEF FlowInv, UnitInv, Linked
<1>3. CASE Scheduled
  <2>1. CASE Astray
    BY <1>3, <2>1, AstrayFlows DEF Scheduled
  <2>2. CASE ~Astray
    BY <1>2, <1>3, <2>2, NoneMarked, WorkStep DEF Scheduled
  <2> QED
    BY <2>1, <2>2
<1>4. CASE Schedule
  <2>1. PICK b \in DOMAIN Walks : \E k \in 1 .. Len(Walks[b].seen) - 1 :
          LET x == Walks[b].seen[k]
              y == Walks[b].seen[k + 1]
          IN  /\ {KindOf(x), KindOf(y)} \subseteq Plain
              /\ unit' = [unit EXCEPT !.entries = Swap(@, x, y)]
    BY <1>4 DEF Schedule
  <2> DEFINE s == Walks[b].seen
  <2>2. PICK k \in 1 .. Len(s) - 1 :
          /\ {KindOf(s[k]), KindOf(s[k + 1])} \subseteq Plain
          /\ unit' = [unit EXCEPT !.entries = Swap(@, s[k], s[k + 1])]
    BY <2>1
  <2>3. s \in Seq(Its(unit.entries, fn))
    BY <1>1, <1>4, WalkLemma DEF Schedule
  <2> HIDE DEF s
  <2> DEFINE x == s[k]
             y == s[k + 1]
  <2>4. x \in Its(unit.entries, fn) /\ y \in Its(unit.entries, fn)
    <3>1. k \in 1 .. Len(s) /\ k + 1 \in 1 .. Len(s)
      BY <2>3
    <3> QED
      BY <2>3, <3>1
  <2>5. /\ unit.entries[x].kind \in Plain /\ unit.entries[y].kind \in Plain
        /\ unit' = [unit EXCEPT !.entries = Swap(unit.entries, x, y)]
    BY <2>2 DEF KindOf
  <2> HIDE DEF x, y
  <2>6. /\ x \in 1 .. Len(unit.entries) /\ y \in 1 .. Len(unit.entries)
        /\ unit.entries[x].fn = unit.entries[y].fn
        /\ unit.entries[x].kind # "size" /\ unit.entries[y].kind # "size"
    BY <2>4, <2>5 DEF Its, Plain
  <2>7. Swap(unit.entries, x, y) \in Relinked(unit.entries)
    BY <1>2, <2>6, SwapStays
  <2>8. unit' \in Edited(unit, DOMAIN cfg, fn, Made)
    BY <1>1, <1>2, <2>5, <2>7, RelinkStays
  <2>9. Follows(unit')
    BY <1>2, <2>8, EditedFollows
  <2>10. list' = list /\ UNCHANGED <<fn, pos, cfg>> /\ redundants' \in Seq(Marked)
    BY <1>4 DEF Schedule, where, cached, FlowInv, MarkedInv
  <2> QED
    BY <2>9, <2>10, WorkFlows
<1> QED
  BY <1>3, <1>4

LEMMA NoBlocks == \A S : <<>> \in Seq(S)
PROOF
  OBVIOUS

\* A new graph has the blocks of its function.
LEMMA GotGraph ==
  ASSUME FlowInv, fn \in DOMAIN cfg, NEW c, GetCFG(c), UNCHANGED <<where, unit, redundants>>
  PROVE  FlowInv'
PROOF
<1>1. /\ DOMAIN cfg' = DOMAIN cfg
      /\ \A f \in DOMAIN cfg :
           cfg'[f].blocks \in {cfg[f].blocks, Blocks(unit, f, c)}
  BY DEF GetCFG, Reusable
<1>2. Linked(unit, DOMAIN cfg)
  BY DEF FlowInv, UnitInv
<1>3. ASSUME NEW f \in DOMAIN cfg
      PROVE  cfg'[f].blocks \in Seq(Ends(unit.entries, f) \X Ends(unit.entries, f))
  <2>1. Blocks(unit, f, c) \in Seq(Ends(unit.entries, f) \X Ends(unit.entries, f))
    BY <1>2, BlocksLemma
  <2>2. cfg[f].blocks \in Seq(Ends(unit.entries, f) \X Ends(unit.entries, f))
    BY DEF FlowInv, BlocksInv
  <2> QED
    BY <1>1, <2>1, <2>2
<1>4. BlocksInv'
  BY <1>1, <1>3 DEF BlocksInv
<1>5. Made' = Made /\ Excused' = Excused /\ Pass' = Pass
  BY DEF Made, Excused, In, Before, Pass, where
<1>6. UnitInv'
  BY <1>1, <1>5 DEF FlowInv, UnitInv, where
<1>7. MarkedInv'
  BY <1>5 DEF FlowInv, MarkedInv, Marked, where
<1> QED
  BY <1>4, <1>6, <1>7 DEF FlowInv

LEMMA GraphsFlow ==
  ASSUME FlowInv,
         \/ \E c \in BOOLEAN : AskCFG(IF c THEN "cfgC" ELSE "cfg", c)
         \/ \E c \in BOOLEAN : AskLSG(IF c THEN "lsgC" ELSE "lsg", c)
         \/ DropCFG
  PROVE  FlowInv'
PROOF
<1> DEFINE Same == UNCHANGED <<where, unit, redundants>>
<1>1. ASSUME Same, cfg' = cfg PROVE FlowInv'
  <2>1. UNCHANGED <<list, fn, pos, cfg, unit, redundants>>
    BY <1>1 DEF where
  <2> QED
    BY <2>1 DEF FlowInv, UnitInv, BlocksInv, MarkedInv, Marked, Made, Excused, In, Before, Pass
<1>2. CASE \E c \in BOOLEAN : AskCFG(IF c THEN "cfgC" ELSE "cfg", c)
  BY <1>2, GotGraph DEF AskCFG, At, Running
<1>3. CASE \E c \in BOOLEAN : AskLSG(IF c THEN "lsgC" ELSE "lsg", c)
  BY <1>1, <1>3, GotGraph DEF AskLSG, FinderGraph, At, Running
<1>4. CASE DropCFG
  <2>1. /\ DOMAIN cfg' = DOMAIN cfg /\ Same
        /\ \A f \in DOMAIN cfg : cfg'[f].blocks \in {cfg[f].blocks, <<>>}
    <3>1. cfg' = [cfg EXCEPT ![fn] = NoCFG] /\ Same
      BY <1>4 DEF DropCFG
    <3>2. NoCFG.blocks = <<>>
      BY DEF NoCFG
    <3> QED
      BY <3>1, <3>2
  <2>2. BlocksInv'
    <3>1. ASSUME NEW f \in DOMAIN cfg
          PROVE  cfg'[f].blocks \in Seq(Ends(unit.entries, f) \X Ends(unit.entries, f))
      <4>1. cfg[f].blocks \in Seq(Ends(unit.entries, f) \X Ends(unit.entries, f))
        BY DEF FlowInv, BlocksInv
      <4>2. cfg'[f].blocks \in {cfg[f].blocks, <<>>}
        BY <2>1
      <4> QED
        BY ONLY <4>1, <4>2, NoBlocks
    <3> QED
      BY <2>1, <3>1 DEF BlocksInv
  <2>3. UNCHANGED <<list, fn, pos, unit, redundants>>
    BY <2>1 DEF where
  <2>4. Made' = Made /\ Excused' = Excused /\ Pass' = Pass
    BY <2>3 DEF Made, Excused, In, Before, Pass
  <2>5. UnitInv' /\ MarkedInv'
    BY <2>1, <2>3, <2>4 DEF FlowInv, UnitInv, MarkedInv, Marked
  <2> QED
    BY <2>2, <2>5 DEF FlowInv
<1> QED
  BY <1>2, <1>3, <1>4

\* Between two passes what was marked is deleted; the kinds without a size are
\* those of the function's passes so far, and none in the next function.
LEMMA NextFlows ==
  ASSUME StepsInv, FlowInv, NextPass
  PROVE  FlowInv'
PROOF
<1>1. fn \in DOMAIN cfg /\ cfg' = cfg /\ list' = list /\ redundants' = <<>>
  BY DEF NextPass, Running
<1>2. Follows(unit')
  <2>1. unit' = Each(DeleteEntry, unit, redundants) /\ redundants \in Seq(Marked)
    BY DEF NextPass, FlowInv, MarkedInv
  <2>2. unit' \in Edited(unit, DOMAIN cfg, fn, Made)
    BY <1>1, <2>1, DeletesStay DEF FlowInv
  <2> QED
    BY <2>2, UnitFacts, EditedFollows DEF FlowInv
<1>3. \/ fn' = fn /\ pos' = pos + 1 /\ pos \in Nat
      \/ fn' = fn + 1
  BY DEF NextPass, StepsInv
<1>4. fn' \in Nat /\ fn \in Nat
  BY <1>3 DEF FlowInv, UnitInv, NextPass
<1>5. Sized(unit', fn', Made')
  <2>1. Sized(unit', fn, Made) /\ \A e \in DOMAIN unit'.entries : unit'.entries[e].fn \in Nat
    <3>1. unit'.entries \in Seq(EntryType) /\ Sized(unit', fn, Made)
      BY <1>2 DEF Follows, Linked, Listed
    <3>2. \A r \in EntryType : r.fn \in Nat
      BY DEF EntryType
    <3> QED
      BY <3>1, <3>2
  <2>2. CASE fn' = fn /\ pos' = pos + 1 /\ pos \in Nat
    <3>1. Made \subseteq Made'
      BY <1>1, <2>2 DEF Made
    <3> QED
      BY <2>1, <2>2, <3>1 DEF Sized
  <2>3. CASE fn' = fn + 1
    <3>1. \A m \in Nat : m < fn \/ m = fn => m < fn'
      BY <1>4, <2>3
    <3> QED
      BY <2>1, <3>1 DEF Sized
  <2> QED
    BY <1>3, <2>2, <2>3
<1>6. Excused' = Excused
  BY <1>1 DEF Excused, In, Before
<1>7. UnitInv'
  BY <1>1, <1>2, <1>4, <1>5, <1>6 DEF UnitInv, Follows
<1>8. Len(unit.entries) \in Nat /\ Len(unit'.entries) \in Nat
  BY <1>7, UnitFacts DEF FlowInv, UnitInv, Units
<1>9. ASSUME NEW f \in DOMAIN cfg
      PROVE  cfg[f].blocks \in Seq(Ends(unit'.entries, f) \X Ends(unit'.entries, f))
  <2>1. cfg[f].blocks \in Seq(Ends(unit.entries, f) \X Ends(unit.entries, f))
    BY DEF FlowInv, BlocksInv
  <2>2. Ends(unit.entries, f) \subseteq Ends(unit'.entries, f)
    BY <1>2, <1>8 DEF Follows, Ends, Its
  <2>3. Ends(unit.entries, f) \X Ends(unit.entries, f)
          \subseteq Ends(unit'.entries, f) \X Ends(unit'.entries, f)
    BY <2>2
  <2> QED
    BY ONLY <2>1, <2>3, SeqGrows
<1>10. BlocksInv' /\ MarkedInv'
  BY <1>1, <1>9 DEF BlocksInv, MarkedInv
<1> QED
  BY <1>7, <1>10 DEF FlowInv

\* The parsed text is in order.
LEMMA InitFlows ==
  ASSUME Init
  PROVE  FlowInv
PROOF
<1>1. PICK t \in Texts : unit = Parsed(t) /\ cfg = [f \in DOMAIN t |-> NoCFG]
  BY DEF Init
<1>2. fn = 1 /\ redundants = <<>>
  BY DEF Init
<1>3. /\ Linked(unit, DOMAIN cfg) /\ unit \in Units(DOMAIN cfg, unit.sizes.of)
      /\ ~unit.sizes.known /\ unit.fate = "ok"
  BY <1>1, ParsedLemma
<1>4. UnitInv
  BY <1>2, <1>3 DEF UnitInv, Sized
<1>5. BlocksInv
  <2>1. NoCFG.blocks = <<>>
    BY DEF NoCFG
  <2>2. \A f \in DOMAIN cfg : cfg[f].blocks = <<>>
    BY <1>1, <2>1
  <2> QED
    BY <2>2, NoBlocks DEF BlocksInv
<1>6. MarkedInv
  BY <1>2 DEF MarkedInv
<1> QED
  BY <1>4, <1>5, <1>6 DEF FlowInv

\* Every step keeps the unit, the blocks and the marks in order.
LEMMA FlowStep ==
  ASSUME StepsInv, FlowInv, [Next]_vars
  PROVE  FlowInv'
PROOF
<1>1. CASE UNCHANGED vars
  <2>1. UNCHANGED <<list, fn, pos, cfg, unit, redundants>>
    BY <1>1 DEF vars, where, cached
  <2> QED
    BY <2>1 DEF FlowInv, UnitInv, BlocksInv, MarkedInv, Marked, Made, Excused, In, Before, Pass
<1>2. CASE Next
  BY <1>2, GraphsFlow, SizesFlow, AlignFlows, SeparateFlows, ScanFlows, MergeFlows, ExtentsFlow,
     PrefetchFlows, NopsFlow, InsertFlows, ReplaceFlows, ScheduleFlows, NextFlows DEF Next
<1> QED
  BY <1>1, <1>2

\* DeleteEntry meets an entry without a size only in the lists with a pass that
\* relaxes, one that inserts without invalidating, and after it one that
\* deletes the like: no other list aborts, on any text.
THEOREM UnsizedTheorem == Spec => []OnlyUnsizedAbort
PROOF
<1>1. Init => FlowInv
  BY InitFlows
<1>2. StepsInv /\ FlowInv /\ [Next]_vars => FlowInv'
  BY FlowStep
<1>3. FlowInv => OnlyUnsizedAbort
  BY DEF FlowInv, UnitInv, Excused, OnlyUnsizedAbort
<1> QED
  BY <1>1, <1>2, <1>3, StepsTheorem, PTL DEF Spec
=============================================================================
