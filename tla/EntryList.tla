----------------------------- MODULE EntryList -----------------------------
(***************************************************************************)
(* The entry list of one section: the doubly linked list of instructions,  *)
(* labels and directives that every MAO pass reads and edits, with the     *)
(* first/last pointers of the functions and subsections cut out of it      *)
(* (MaoEntry.cc, MaoUnit.cc, MaoSection.cc, MaoFunction.h).                *)
(*                                                                         *)
(* The passes are the environment.  What they are allowed to do is what    *)
(* the passes of the repository do: see "The passes" below.                *)
(***************************************************************************)
EXTENDS Integers, FiniteSets, SequencesExt

CONSTANTS
  Entries,          \* every entry a run can allocate
  Fresh,            \* those of them that the parser does not make
  Functions,
  SubSections,      \* the subsections of the section
  FirstSubSection,  \* Section::subsections_[0]
  Kind,             \* "insn", "label", "align" (.p2align) or "directive"
  FunctionSS,       \* Function::subsection_, where the function starts
  MaxHeld,          \* bound: entries a pass has in its hands at a time
  Layouts,          \* the parsed sections a run may start from
  NULL

Kinds == {"insn", "label", "align", "directive"}

\* The entries of each owner are one piece of the list.
Contiguous(list, owner) ==
  \A i, k, j \in 1 .. Len(list) :
    i < k /\ k < j /\ owner[list[i]] = owner[list[j]] /\ owner[list[i]] # NULL
      => owner[list[k]] = owner[list[i]]

\* A parsed section: its entries in order, and the function (or NULL) and the
\* subsection of each entry, as FindFunctions and AddEntry have mapped them.
\* AddEntry fills one subsection after the other, from the first one on.
IsLayout(l) ==
  /\ DOMAIN l = {"list", "fn", "ss"}
  /\ l.list \in Seq(Entries)
  /\ \A i, j \in 1 .. Len(l.list) : l.list[i] = l.list[j] => i = j
  /\ l.fn \in [Entries -> Functions \cup {NULL}]
  /\ l.ss \in [Entries -> SubSections \cup {NULL}]
  /\ \A e \in Entries : (\E i \in 1 .. Len(l.list) : l.list[i] = e) <=> l.ss[e] # NULL
  /\ \A e \in Entries : l.fn[e] # NULL => l.ss[e] # NULL
  /\ \A e \in Fresh : l.ss[e] = NULL
  /\ Contiguous(l.list, l.fn)
  /\ Contiguous(l.list, l.ss)
  /\ l.list # <<>> => l.ss[l.list[1]] = FirstSubSection

ASSUME NullAssumption == NULL \notin Entries \cup Functions \cup SubSections
ASSUME EntriesAssumption == IsFiniteSet(Entries)
ASSUME FreshAssumption == Fresh \subseteq Entries
ASSUME KindAssumption == Kind \in [Entries -> Kinds]
ASSUME FunctionSSAssumption == FunctionSS \in [Functions -> SubSections]
ASSUME FirstSubSectionAssumption == FirstSubSection \in SubSections
ASSUME LayoutsAssumption == \A l \in Layouts : IsLayout(l)

VARIABLES
  next, prev,         \* MaoEntry::next_ and prev_
  fnFirst, fnLast,    \* Function::first_entry_ and last_entry_
  fnEnd,              \* Function::end_entry_
  ssFirst, ssLast,    \* SubSection::first_entry_ and last_entry_
  entryFn, entrySs,   \* MaoUnit::entry_to_function_ and entry_to_subsection_
  entryVector,        \* the entries that have a non-NULL slot in entry_vector_
  allocated,          \* every entry ever created
  held,               \* entries a pass holds that are not in the section
  aborted,            \* a MAO_ASSERT has failed
  torn,               \* the entries set_last_entry has left with wrong links
  strayed             \* an entry was linked among those of another subsection

links  == <<next, prev>>
bounds == <<fnFirst, fnLast, fnEnd, ssFirst, ssLast>>
maps   == <<entryFn, entrySs, entryVector, allocated>>
past   == <<torn, strayed>>
vars   == <<links, bounds, maps, held, aborted, past>>

InList == {e \in Entries : entrySs[e] # NULL} \ held

-----------------------------------------------------------------------------
(* Pointer writes.                                                         *)

\* Slip: the neighbour is not told.
PutSlip(x, p, v) == x

\* `if (p) p->set_x(v)'
Put(x, p, v) == IF p = NULL THEN x ELSE [x EXCEPT ![p] = v]

\* Slip: the owner's pointer stays where it was.
MoveStaysSlip(x, owner, old, new) == x

\* `if (owner && x[owner] == old) x[owner] = new'
Move(x, owner, old, new) ==
  IF owner # NULL /\ x[owner] = old THEN [x EXCEPT ![owner] = new] ELSE x

\* Function::set_last_entry(new) also notes the entry after the new last one,
\* or the last one itself where the list ends.
EndOf(last, after) == IF after = NULL THEN last ELSE after
MoveEnd(f, old, new, after) ==
  IF f # NULL /\ fnLast[f] = old THEN [fnEnd EXCEPT ![f] = EndOf(new, after)] ELSE fnEnd

\* SubSection::set_last_entry(e) does not only move the pointer: unless e is
\* the subsection's first entry it also links e after the old last entry.  The
\* two operators are what it does to next and prev; first is the first_entry_
\* it reads.
Relinks(ss, old, e, first) == ss # NULL /\ ssLast[ss] = old /\ e # first[ss]
LastLinkNext(n, ss, old, e, first) ==
  IF Relinks(ss, old, e, first) THEN [n EXCEPT ![old] = e] ELSE n
LastLinkPrev(p, ss, old, e, first) ==
  IF Relinks(ss, old, e, first) THEN [p EXCEPT ![e] = old] ELSE p

\* What that spoils: S, if it happens, and nothing otherwise.
Spoils(S, ss, old, e, first) == IF Relinks(ss, old, e, first) THEN S ELSE {}

\* S is the run of entries from first to last, and a whole run: what `last' is
\* to `first' in Unlink(last), and in the walk of GetLastEntry.
Run(S, first, last) ==
  /\ {first, last} \subseteq S
  /\ \A e \in S \ {last} : next[e] \in S
  /\ \A e \in S \ {first} : prev[e] \in S
  /\ next[last] \notin S
  /\ prev[first] \notin S

-----------------------------------------------------------------------------
(* The parsed section.                                                     *)

At(l, i) == IF i \in 1 .. Len(l.list) THEN l.list[i] ELSE NULL
Neighbour(l, d) ==
  [e \in Entries |->
    IF \E i \in 1 .. Len(l.list) : l.list[i] = e
      THEN At(l, d + CHOOSE i \in 1 .. Len(l.list) : l.list[i] = e)
      ELSE NULL]

\* The first (last) entry of the list whose owner is o: no such entry has
\* another one before (after) it.
FirstOf(l, owner, o) ==
  IF \E e \in Entries : owner[e] = o
    THEN l.list[CHOOSE i \in 1 .. Len(l.list) :
                  /\ owner[l.list[i]] = o
                  /\ \A j \in 1 .. i - 1 : owner[l.list[j]] # o]
    ELSE NULL
LastOf(l, owner, o) ==
  IF \E e \in Entries : owner[e] = o
    THEN l.list[CHOOSE i \in 1 .. Len(l.list) :
                  /\ owner[l.list[i]] = o
                  /\ \A j \in i + 1 .. Len(l.list) : owner[l.list[j]] # o]
    ELSE NULL

Init ==
  \E l \in Layouts :
    /\ next = Neighbour(l, 1)
    /\ prev = Neighbour(l, -1)
    /\ fnFirst = [f \in Functions |-> FirstOf(l, l.fn, f)]
    /\ fnLast = [f \in Functions |-> LastOf(l, l.fn, f)]
    /\ fnEnd = [f \in Functions |->
                 IF fnLast[f] = NULL THEN NULL ELSE EndOf(fnLast[f], next[fnLast[f]])]
    /\ ssFirst = [s \in SubSections |-> FirstOf(l, l.ss, s)]
    /\ ssLast = [s \in SubSections |-> LastOf(l, l.ss, s)]
    /\ entryFn = l.fn
    /\ entrySs = l.ss
    /\ entryVector = {e \in Entries : l.ss[e] # NULL}
    /\ allocated = {e \in Entries : l.ss[e] # NULL}
    /\ held = {}
    /\ aborted = FALSE
    /\ torn = {}
    /\ strayed = FALSE

-----------------------------------------------------------------------------
(* The operations.                                                         *)

\* MaoUnit::CreateInstruction, CreateDirective, CreateLabel: a slot in the
\* entry vector and, through its function, a subsection; no links.
Create(e, f) ==
  /\ e \notin allocated
  /\ allocated' = allocated \cup {e}
  /\ entryVector' = entryVector \cup {e}
  /\ entryFn' = [entryFn EXCEPT ![e] = f]
  /\ entrySs' = [entrySs EXCEPT ![e] = FunctionSS[f]]
  /\ next' = [next EXCEPT ![e] = NULL]
  /\ prev' = [prev EXCEPT ![e] = NULL]
  /\ held' = held \cup {e}
  /\ UNCHANGED <<bounds, aborted, past>>

\* MaoEntry::LinkBefore: the chain S, first to last, goes before anchor.
LinkBefore(anchor, S, first, last) ==
  LET before == prev[anchor] IN
  /\ next' = Put([next EXCEPT ![last] = anchor], before, first)
  /\ prev' = [prev EXCEPT ![first] = before, ![anchor] = last]
  /\ fnFirst' = Move(fnFirst, entryFn[anchor], anchor, first)
  /\ ssFirst' = Move(ssFirst, entrySs[anchor], anchor, first)
  /\ held' = held \ S
  /\ strayed' = (strayed \/ entrySs[first] # entrySs[anchor])
  /\ UNCHANGED <<fnLast, fnEnd, ssLast, maps, aborted, torn>>

\* MaoEntry::LinkAfter: the chain S, first to last, goes after anchor.  At the
\* end of a subsection set_last_entry makes the last entry of the chain follow
\* the anchor: the others are in no walk any more.
LinkAfter(anchor, S, first, last) ==
  LET after  == next[anchor]
      ss     == entrySs[anchor]
      linked == [next EXCEPT ![last] = after, ![anchor] = first]
      back   == Put([prev EXCEPT ![first] = anchor], after, last)
  IN
  /\ fnLast' = Move(fnLast, entryFn[anchor], anchor, last)
  /\ fnEnd' = MoveEnd(entryFn[anchor], anchor, last, after)
  /\ ssLast' = Move(ssLast, ss, anchor, last)
  /\ next' = LastLinkNext(linked, ss, anchor, last, ssFirst)
  /\ prev' = LastLinkPrev(back, ss, anchor, last, ssFirst)
  /\ held' = held \ S
  /\ torn' = Spoils(S \ {last}, ss, anchor, last, ssFirst)
  /\ strayed' = (strayed \/ entrySs[first] # entrySs[anchor])
  /\ UNCHANGED <<fnFirst, ssFirst, maps, aborted>>

\* MaoEntry::Unlink() and Unlink(last_in_chain): the run S leaves the list in
\* one piece.  The maps still know its entries.  Where it was the end of its
\* subsection, set_last_entry points the new last entry back to the run.
Unlink(S, first, last) ==
  LET before == prev[first]
      after  == next[last]
      fn     == entryFn[first]
      ss     == entrySs[first]
  IN
  /\ fn = entryFn[last] /\ ss = entrySs[last]
  /\ fnFirst' = Move(fnFirst, fn, first, after)
  /\ fnLast' = Move(fnLast, fn, last, before)
  /\ fnEnd' = MoveEnd(fn, last, before, after)
  /\ ssFirst' = Move(ssFirst, ss, first, after)
  /\ ssLast' = Move(ssLast, ss, last, before)
  /\ next' = [LastLinkNext(Put(next, before, after), ss, last, before, ssFirst')
                EXCEPT ![last] = NULL]
  /\ prev' = [LastLinkPrev(Put(prev, after, before), ss, last, before, ssFirst')
                EXCEPT ![first] = NULL]
  /\ held' = held \cup S
  /\ torn' = Spoils({before}, ss, last, before, ssFirst')
  /\ UNCHANGED <<maps, aborted, strayed>>

\* Slip: where e is the owner's last entry, the next one is asked for its owner.
CanDropSlip(e, owner, o, firstOf, lastOf) ==
  o # NULL =>
    /\ firstOf[o] # lastOf[o]
    /\ firstOf[o] = e => next[e] # NULL /\ owner[next[e]] = o
    /\ lastOf[o] = e => next[e] # NULL /\ owner[next[e]] = o

\* The assertions of MaoUnit::DeleteEntry on one owner of e: the owner keeps an
\* entry, and the neighbour that becomes its first or last entry is its own.
CanDrop(e, owner, o, firstOf, lastOf) ==
  o # NULL =>
    /\ firstOf[o] # lastOf[o]
    /\ firstOf[o] = e => next[e] # NULL /\ owner[next[e]] = o
    /\ lastOf[o] = e => prev[e] # NULL /\ owner[prev[e]] = o

\* MaoUnit::DeleteEntry: the entry leaves the list, the vector and the maps.
\* Its own two pointers are left as they were; the end of a subsection is torn
\* as by Unlink.
DeleteEntry(e) ==
  LET before == prev[e]
      after  == next[e]
      ss     == entrySs[e]
  IN
  /\ CanDrop(e, entryFn, entryFn[e], fnFirst, fnLast)
  /\ CanDrop(e, entrySs, ss, ssFirst, ssLast)
  /\ fnFirst' = Move(fnFirst, entryFn[e], e, after)
  /\ fnLast' = Move(fnLast, entryFn[e], e, before)
  /\ fnEnd' = MoveEnd(entryFn[e], e, before, after)
  /\ ssFirst' = Move(ssFirst, ss, e, after)
  /\ ssLast' = Move(ssLast, ss, e, before)
  /\ next' = LastLinkNext(Put(next, before, after), ss, e, before, ssFirst')
  /\ prev' = LastLinkPrev(Put(prev, after, before), ss, e, before, ssFirst')
  /\ entryVector' = entryVector \ {e}
  /\ entryFn' = [entryFn EXCEPT ![e] = NULL]
  /\ entrySs' = [entrySs EXCEPT ![e] = NULL]
  /\ torn' = Spoils({before}, ss, e, before, ssFirst')
  /\ UNCHANGED <<allocated, held, aborted, strayed>>

\* One of those assertions fails, and MAO stops.
DeleteEntryAborts(e) ==
  /\ ~ /\ CanDrop(e, entryFn, entryFn[e], fnFirst, fnLast)
       /\ CanDrop(e, entrySs, entrySs[e], ssFirst, ssLast)
  /\ aborted' = TRUE
  /\ UNCHANGED <<links, bounds, maps, held, past>>

-----------------------------------------------------------------------------
(* The passes.                                                             *)
(*  - They create entries for a function and link them into it.            *)
(*  - They unlink runs of instructions, or one .p2align, that do not start *)
(*    their function, and link them back into the same function            *)
(*    (SchedulerPass::ScheduleNode, whose head is in the same block).      *)
(*  - They delete instructions and .p2align directives.                    *)
(* Labels and other directives stay where the parser put them.             *)
(* The model stops where the list is torn: what a pass makes of wrong      *)
(* links is not followed any further.                                      *)

Movable(S) ==
  \/ \A e \in S : Kind[e] = "insn"
  \/ \E e \in S : S = {e} /\ Kind[e] = "align"

PassCreate ==
  \E e \in Fresh, f \in Functions :
    /\ fnFirst[f] # NULL
    /\ Cardinality(held) < MaxHeld
    /\ Create(e, f)

\* first is the head of a chain the pass holds, and anchor an entry of the
\* function the chain belongs to.
Chain(S, first, last) ==
  /\ Run(S, first, last)
  /\ prev[first] = NULL
  /\ next[last] = NULL
SameFunction(anchor, first) ==
  entryFn[anchor] # NULL /\ entryFn[anchor] = entryFn[first]

\* Before the section's first entry goes only what was created for its function,
\* which is mapped to the subsection where the function starts.
PassLinkBefore ==
  \E S \in SUBSET held : \E first, last \in S, anchor \in InList :
    /\ Chain(S, first, last)
    /\ SameFunction(anchor, first)
    /\ prev[anchor] = NULL => entrySs[first] = entrySs[anchor]
    /\ LinkBefore(anchor, S, first, last)

\* Hijacking links after a return, the scheduler after any entry of the block.
PassLinkAfter ==
  \E S \in SUBSET held : \E first, last \in S, anchor \in InList :
    /\ Chain(S, first, last)
    /\ SameFunction(anchor, first)
    /\ LinkAfter(anchor, S, first, last)

PassUnlink ==
  \E S \in SUBSET InList : \E first, last \in S :
    /\ Cardinality(held \cup S) <= MaxHeld
    /\ Movable(S)
    /\ Run(S, first, last)
    /\ prev[first] # NULL
    /\ SameFunction(prev[first], first)
    /\ Unlink(S, first, last)

PassDelete ==
  \E e \in InList : Kind[e] \in {"insn", "align"} /\ DeleteEntry(e)

PassDeleteAborts ==
  \E e \in InList : Kind[e] \in {"insn", "align"} /\ DeleteEntryAborts(e)

Next ==
  /\ ~aborted
  /\ torn = {}
  /\ \/ PassCreate
     \/ PassLinkBefore
     \/ PassLinkAfter
     \/ PassUnlink
     \/ PassDelete
     \/ PassDeleteAborts

Spec == Init /\ [][Next]_vars

-----------------------------------------------------------------------------
(* Properties.                                                             *)

Ref(S) == S \cup {NULL}

\* Every pointer is NULL or an entry, every map answers NULL or an owner.
TypeOK ==
  /\ next \in [Entries -> Ref(Entries)]
  /\ prev \in [Entries -> Ref(Entries)]
  /\ fnFirst \in [Functions -> Ref(Entries)]
  /\ fnLast \in [Functions -> Ref(Entries)]
  /\ fnEnd \in [Functions -> Ref(Entries)]
  /\ ssFirst \in [SubSections -> Ref(Entries)]
  /\ ssLast \in [SubSections -> Ref(Entries)]
  /\ entryFn \in [Entries -> Ref(Functions)]
  /\ entrySs \in [Entries -> Ref(SubSections)]
  /\ entryVector \subseteq allocated
  /\ allocated \subseteq Entries
  /\ held \subseteq entryVector
  /\ aborted \in BOOLEAN
  /\ torn \subseteq Entries
  /\ strayed \in BOOLEAN

Known(e) == entrySs[e] # NULL

\* Going to a neighbour and back again returns to the entry, for every entry
\* the unit still knows, in the section or in a pass's hands.  Where an edit at
\* the end of a subsection tears the list, only links that start or end at the
\* entries it names are wrong: the new last entry after a removal, all of the
\* chain but its last entry after an insertion.
PtrInv ==
  \A e \in Entries \ torn : Known(e) =>
    /\ next[e] \notin torn \cup {NULL} => Known(next[e]) /\ prev[next[e]] = e
    /\ prev[e] # NULL => Known(prev[e]) /\ next[prev[e]] = e

\* The entries from e on along nxt, until NULL (EntryIterator); walk[n][x] is
\* the first n of those from x on.
Walk(nxt, e) ==
  LET walk[n \in 0 .. Cardinality(Entries)] ==
        [x \in Ref(Entries) |->
          IF n = 0 \/ x = NULL THEN <<>> ELSE <<x>> \o walk[n - 1][nxt[x]]]
  IN  walk[Cardinality(Entries)][e]

Text == Walk(next, ssFirst[FirstSubSection])
IndexIn(s, e) == CHOOSE i \in 1 .. Len(s) : s[i] = e

\* The owner's first and last pointers bracket exactly its own entries.
Mine(owner, o) == {e \in InList : owner[e] = o}
Brackets(owner, o, first, last) ==
  Mine(owner, o) # {} =>
    /\ {first[o], last[o]} \subseteq Mine(owner, o)
    /\ {IndexIn(Text, e) : e \in Mine(owner, o)} =
         IndexIn(Text, first[o]) .. IndexIn(Text, last[o])

\* FORALL_FUNC_ENTRY visits every entry mapped to the function and no other.
FunctionRange ==
  /\ Range(Text) = InList
  /\ \A f \in Functions : Brackets(entryFn, f, fnFirst, fnLast)

\* SubSection::EntryBegin .. EntryEnd visits every entry mapped to the
\* subsection and no other.
SubSectionRange == \A s \in SubSections : Brackets(entrySs, s, ssFirst, ssLast)

\* Whatever was edited at the borders, both walks stay within their owner, until
\* the list is torn; that of a subsection until an entry has been linked into a
\* part of its function that lies in another subsection.  The function's walk
\* visits such an entry too.
RangesAreRight ==
  torn = {} => FunctionRange /\ (~strayed => SubSectionRange)

\* DeleteEntry gives up exactly where it says so: on the last entry that a
\* function or a subsection has, never because a neighbour belongs to someone
\* else.  The tests on the subsection say so until an entry has strayed.
OnlyOne(e, owner) == owner[e] # NULL /\ Mine(owner, owner[e]) = {e}
AbortOnlyWhenLast ==
  torn = {} =>
    \A e \in InList :
      /\ CanDrop(e, entryFn, entryFn[e], fnFirst, fnLast) <=> ~OnlyOne(e, entryFn)
      /\ ~strayed =>
           (CanDrop(e, entrySs, entrySs[e], ssFirst, ssLast) <=> ~OnlyOne(e, entrySs))

\* A held chain is apart from the section: no link leads from one to the other.
HeldApart ==
  \A e \in Entries : Known(e) /\ next[e] # NULL =>
    (e \in held <=> next[e] \in held)

\* The pointer structure implements the abstract list.
Chains == {Walk(next, e) : e \in {h \in held : prev[h] = NULL}}
AbstractList == INSTANCE EntrySeq WITH text <- Text, chains <- Chains, torn <- torn # {}
RefinesEntrySeq == AbstractList!Spec
=============================================================================
