------------------------------ MODULE Sections ------------------------------
(***************************************************************************)
(* Reading the input.  gas parses the file and keeps its own account of    *)
(* the section it assembles into (obj-elf.c); at every statement it calls  *)
(* back into MAO (ir.cc), which appends an entry to its unit and keeps a   *)
(* second account: the current and the previous subsection, and a stack of *)
(* them (MaoUnit.cc, MaoSection.cc).  MAO writes neither .pushsection, nor *)
(* .popsection, nor .previous: it turns each into .section directives, so  *)
(* what it writes is assembled into the right sections only as long as the *)
(* two accounts agree.                                                     *)
(***************************************************************************)
EXTENDS Integers, Sequences, FiniteSets

CONSTANTS
  Names,        \* the sections a file names
  Numbers,      \* the subsection numbers it uses; 0 is the one nobody writes
  Labels,       \* the labels it defines, and the symbols it has a .size of
  MaxEntries,   \* bound: statements read
  MaxDepth      \* bound: section stack

Text  == ".text"                \* DEFAULT_SECTION_NAME
Start == "mao_start_section"    \* for directives before the first section
Abs   == "*ABS*"                \* gas's absolute section, after .struct
None  == <<>>                   \* gas: previous_section == 0

ASSUME NamesAssumption == Text \in Names /\ Start \notin Names /\ Abs \notin Names
ASSUME NumbersAssumption == Numbers \subseteq Nat /\ 0 \in Numbers
ASSUME BoundsAssumption == MaxEntries \in Nat /\ MaxDepth \in Nat

VARIABLES
  now,        \* gas: now_seg and now_subseg
  previous,   \* gas: previous_section and previous_subsection
  gasStack,   \* gas: section_stack, the top last
  unit,       \* the MaoUnit, see NoUnit
  aborted,    \* a MAO_ASSERT has failed
  place,      \* history: where gas assembled each entry
  lost        \* history: how MAO's account has lost track of gas's

gas  == <<now, previous, gasStack>>
vars == <<gas, unit, aborted, place, lost>>

-----------------------------------------------------------------------------
(* The unit: entries and their links, subsections in the order they were   *)
(* opened, and the subsection each entry was mapped to.  A Section is the  *)
(* sequence of the subsections with its name.  0 is the NULL pointer.      *)

NoUnit == [entries |-> <<>>, next |-> <<>>, prev |-> <<>>, subOf |-> <<>>,
           subs |-> <<>>, cur |-> 0, prv |-> 0, stack |-> <<>>]

Kinds == {"insn", "label", "data", "size", "struct", "section", "subsection"}
Statement(kind) == [kind |-> kind, name |-> "", number |-> 0]
Named(kind, name) == [Statement(kind) EXCEPT !.name = name]
Numbered(kind, number) == [Statement(kind) EXCEPT !.number = number]

\* Section::GetLastSubSection
LastSubSection(u, name) ==
  LET own == {s \in 1 .. Len(u.subs) : u.subs[s].name = name}
  IN  IF own = {} THEN 0 ELSE CHOOSE s \in own : \A t \in own : t <= s

Link(u, a, b) == [u EXCEPT !.next[a] = b, !.prev[b] = a]

\* Slip: the new subsection starts a list of its own.
UnlinkedSubSectionSlip(u, name, number, e, start) ==
  LET new == [name |-> name, number |-> number, first |-> e, last |-> e, start |-> start]
  IN  [u EXCEPT !.subs = Append(@, new), !.prv = u.cur, !.cur = Len(u.subs) + 1]

\* MaoUnit::AddNewSubSection, and what every caller does around it: the new
\* subsection becomes the current one, the current one the previous one.
AddNewSubSection(u, name, number, e, start) ==
  LET last == LastSubSection(u, name)
      new == [name |-> name, number |-> number, first |-> e, last |-> e, start |-> start]
      linked == IF last = 0 THEN u ELSE Link(u, u.subs[last].last, e)
  IN  [linked EXCEPT !.subs = Append(@, new), !.prv = u.cur, !.cur = Len(u.subs) + 1]

\* SubSection::set_last_entry: links, unless e opened the subsection.
SetLastEntry(u, e) ==
  LET sub == u.subs[u.cur]
      linked == IF e = sub.first THEN u ELSE Link(u, sub.last, e)
  IN  [linked EXCEPT !.subs[u.cur].last = e]

Allocate(u, op) ==
  [u EXCEPT !.entries = Append(@, op), !.next = Append(@, 0),
            !.prev = Append(@, 0), !.subOf = Append(@, 0)]

\* Slip: the default section opens only where there is none at all.
OpenDefaultSlip(u, default, e) ==
  IF default /\ u.cur = 0 THEN AddNewSubSection(u, Text, 0, e, FALSE) ELSE u

\* The three ways a statement opens a subsection, in the order of the code.
OpenStart(u, op, default, e) ==
  IF u.cur = 0 /\ ~default /\ op.kind # "section"
    THEN AddNewSubSection(u, Start, 0, e, TRUE) ELSE u
OpenDefault(u, default, e) ==
  IF default /\ (u.cur = 0 \/ u.subs[u.cur].start)
    THEN AddNewSubSection(u, Text, 0, e, FALSE) ELSE u
OpenNamed(u, op, e) ==
  CASE op.kind = "section" -> AddNewSubSection(u, op.name, 0, e, FALSE)
    [] op.kind = "subsection" ->
         AddNewSubSection(u, u.subs[u.cur].name, op.number, e, FALSE)
    [] OTHER -> u

\* The subsection entry_to_subsection_ gets.
SubSectionFor(before, opened) == opened.cur

\* MaoUnit::AddEntry; instructions and labels ask for the default section.
AddEntry(u, op) ==
  LET e == Len(u.entries) + 1
      default == op.kind \in {"insn", "label"}
      opened == OpenNamed(OpenDefault(OpenStart(Allocate(u, op), op, default, e),
                                      default, e), op, e)
  IN  [SetLastEntry(opened, e) EXCEPT !.subOf[e] = SubSectionFor(u, opened)]

\* MaoUnit::PushSubSection
Push(u) == [u EXCEPT !.stack = Append(@, <<u.cur, u.prv>>), !.prv = u.cur]

Top(s) == s[Len(s)]
Rest(s) == SubSeq(s, 1, Len(s) - 1)

\* A .section directive back to subsection s, and .subsection if s has a number.
Reopen(u, s) ==
  LET u1 == AddEntry(u, Named("section", s.name))
  IN  IF s.number = 0 THEN u1 ELSE AddEntry(u1, Numbered("subsection", s.number))

\* Slip: the previous subsection stays the one the .section directive left.
PopKeepsPreviousSlip(u) ==
  Reopen([u EXCEPT !.stack = Rest(@)], u.subs[Top(u.stack)[1]])

\* MaoUnit::PopSubSection
Pop(u) ==
  LET top == Top(u.stack)
  IN  [Reopen([u EXCEPT !.stack = Rest(@)], u.subs[top[1]]) EXCEPT !.prv = top[2]]

\* MaoUnit::SetPreviousSubSection
SetPrevious(u) == AddEntry(u, Named("section", u.subs[u.prv].name))

-----------------------------------------------------------------------------
(* Statements.                                                             *)

Init ==
  /\ now = <<Text, 0>>
  /\ previous = None
  /\ gasStack = <<>>
  /\ unit = NoUnit
  /\ aborted = FALSE
  /\ place = <<>>
  /\ lost = {}

\* The file goes on: two more entries fit.
Reading == ~aborted /\ Len(unit.entries) + 2 <= MaxEntries

\* u is what the callback made of the unit; gas now assembles into `now''.
Linked(u) ==
  /\ unit' = u
  /\ place' = [e \in 1 .. Len(u.entries) |-> IF e \in DOMAIN place THEN place[e] ELSE now']
  /\ UNCHANGED aborted

\* A MAO_ASSERT of the callback fails.
Abort == aborted' = TRUE /\ UNCHANGED <<gas, unit, place, lost>>

\* Instructions, labels and directives that stay in the section (link_insn,
\* link_label, link_directive_tail); gas refuses contents in *ABS*.
Contents(op) ==
  /\ Reading
  /\ op.kind # "label" => now[1] # Abs
  /\ UNCHANGED <<gas, lost>>
  /\ Linked(AddEntry(unit, op))

\* gas refuses a label that is defined already.
LabelsOf(f) == {e \in DOMAIN unit.entries : unit.entries[e] = Named("label", f)}
DefineLabel(f) == LabelsOf(f) = {} /\ Contents(Named("label", f))

\* .text n, .data n and .bss n, which hand MAO no number; .section is n = 0.
OpenSection(name, n) ==
  /\ Reading
  /\ previous' = now
  /\ now' = <<name, n>>
  /\ lost' = IF n = 0 THEN lost ELSE lost \cup {"number"}
  /\ UNCHANGED gasStack
  /\ Linked(AddEntry(unit, Named("section", name)))

\* .subsection n
OpenSubSection(n) ==
  /\ Reading
  /\ now[1] # Abs
  /\ previous' = now
  /\ now' = <<now[1], n>>
  /\ lost' = IF unit.cur = 0 \/ unit.subs[unit.cur].start THEN lost \cup {"first"} ELSE lost
  /\ UNCHANGED gasStack
  /\ Linked(AddEntry(unit, Numbered("subsection", n)))

\* .pushsection name[, n]; n = 0 is a .pushsection without a number.
PushSection(name, n) ==
  /\ Reading
  /\ Len(unit.stack) < MaxDepth
  /\ IF unit.cur = 0 THEN Abort ELSE
     /\ gasStack' = Append(gasStack, <<now, previous>>)
     /\ previous' = now
     /\ now' = <<name, n>>
     /\ lost' = IF n = 0 THEN lost ELSE lost \cup {"pushed"}
     /\ LET u == AddEntry(Push(unit), Named("section", name))
        IN  Linked(IF n = 0 THEN u ELSE AddEntry(u, Numbered("subsection", n)))

\* .popsection; gas ignores one without a .pushsection.
PopSection ==
  /\ Reading
  /\ gasStack # <<>>
  /\ gasStack' = Rest(gasStack)
  /\ now' = Top(gasStack)[1]
  /\ previous' = Top(gasStack)[2]
  /\ lost' = lost \cup (IF unit.subs[Top(unit.stack)[1]].start THEN {"start"} ELSE {})
                  \cup (IF Len(unit.stack) > Len(gasStack) THEN {"struct"} ELSE {})
  /\ Linked(Pop(unit))

\* .previous; gas ignores one before the first section change.
PreviousSection ==
  /\ Reading
  /\ previous # None
  /\ IF unit.prv = 0 THEN Abort ELSE
     /\ now' = previous
     /\ previous' = now
     /\ lost' = lost \cup (IF unit.subs[unit.prv].start THEN {"start"} ELSE {})
                     \cup (IF previous[1] = Abs THEN {"struct"} ELSE {})
                     \cup (IF previous[2] # 0 THEN {"number"} ELSE {})
                     \cup (IF "pushed" \in lost THEN {"name"} ELSE {})
     /\ UNCHANGED gasStack
     /\ Linked(SetPrevious(unit))

\* .struct: MAO pushes the current subsection, which gas does not.
OpenStruct ==
  /\ Reading
  /\ Len(unit.stack) < MaxDepth
  /\ IF unit.cur = 0 THEN Abort ELSE
     /\ previous' = now
     /\ now' = <<Abs, 0>>
     /\ UNCHANGED <<gasStack, lost>>
     /\ Linked(AddEntry(Push(unit), Statement("struct")))

SectionStatement ==
  \/ \E name \in Names, n \in Numbers : OpenSection(name, n)
  \/ \E n \in Numbers : OpenSubSection(n)
  \/ \E name \in Names, n \in Numbers : PushSection(name, n)
  \/ PopSection
  \/ PreviousSection
  \/ OpenStruct

Next ==
  \/ \E kind \in {"insn", "data"} : Contents(Statement(kind))
  \/ \E f \in Labels : DefineLabel(f) \/ Contents(Named("size", f))
  \/ SectionStatement

Spec == Init /\ [][Next]_vars

-----------------------------------------------------------------------------
(* Writing the file back: MaoUnit::PrintMaoUnit.                           *)

\* The entries from SubSection::EntryBegin to EntryEnd, which is the entry
\* after the last one.
Prints(s) ==
  LET end == unit.next[unit.subs[s].last]
      at[k \in 0 .. Len(unit.entries)] ==
        IF k = 0 THEN unit.subs[s].first
        ELSE IF at[k - 1] = 0 THEN 0 ELSE unit.next[at[k - 1]]
      stops == {k \in DOMAIN at : at[k] = end}
      stop == IF stops = {} THEN Len(unit.entries) + 1
              ELSE CHOOSE k \in stops : \A j \in stops : k <= j
  IN  [k \in 1 .. stop |-> at[k - 1]]

\* The entries of the written file, in order.
Written ==
  LET upTo[s \in 0 .. Len(unit.subs)] == IF s = 0 THEN <<>> ELSE upTo[s - 1] \o Prints(s)
  IN  upTo[Len(unit.subs)]

\* Where gas assembles each of them when it reads the written file.
WrittenPlace(w) ==
  LET at[k \in 0 .. Len(w)] ==
        IF k = 0 THEN <<Text, 0>>
        ELSE LET op == unit.entries[w[k]] IN
          CASE op.kind = "section" -> <<op.name, 0>>
            [] op.kind = "subsection" -> <<at[k - 1][1], op.number>>
            [] op.kind = "struct" -> <<Abs, 0>>
            [] OTHER -> at[k - 1]
  IN  at

HasContents(e) == unit.entries[e].kind \in {"insn", "label", "data"}

-----------------------------------------------------------------------------
(* Properties.                                                             *)

\* PrintMaoUnit writes every entry once, in the order read: what a subsection
\* prints stops where the next one starts, across all the links between them.
WrittenOnce ==
  "first" \notin lost => Written = [e \in 1 .. Len(unit.entries) |-> e]

\* The section lists (AddNewSubSection, set_last_entry): following next_ from
\* the first entry of a section's first subsection visits the entries of that
\* section in the order they were read, whatever was read in between, prev_ is
\* the way back, and first_entry_ and last_entry_ bracket exactly the entries
\* mapped to the subsection.  A .subsection before any section breaks it.
SectionsAreLists ==
  /\ WrittenOnce
  /\ "first" \notin lost =>
    LET N == Len(unit.entries)
        NameOf(e) == unit.subs[unit.subOf[e]].name
        After(e) == {d \in e + 1 .. N : NameOf(d) = NameOf(e)}
        Least(S) == IF S = {} THEN 0 ELSE CHOOSE d \in S : \A c \in S : d <= c
    IN  /\ \A e \in 1 .. N :
             /\ unit.next[e] = Least(After(e))
             /\ unit.next[e] # 0 => unit.prev[unit.next[e]] = e
             /\ unit.prev[e] # 0 => unit.next[unit.prev[e]] = e
        /\ \A s \in 1 .. Len(unit.subs) :
             LET own == {e \in 1 .. N : unit.subOf[e] = s}
             IN  own \ {unit.subs[s].first} =
                   {e \in own : unit.subs[s].first < e /\ e <= unit.subs[s].last}

\* The accounts agree: gas, reading the written file, assembles every
\* instruction and datum into the section and subsection it put it in when it
\* read the original.  MAO's account is lost by a number on .text, .data or
\* .bss, by a .previous that had a number to go back to or that follows a
\* numbered .pushsection, by going back to the start section, and by a
\* .popsection or .previous past a .struct; by nothing else.
AssembledAlike ==
  lost \subseteq {"pushed"} =>
    LET w == Written
        at == WrittenPlace(w)
    IN  \A k \in 1 .. Len(w) : HasContents(w[k]) => at[k] = place[w[k]]

\* What the passes go by: the Section of an instruction, which the relaxer lays
\* out and function passes ask for, is the one gas put it in, also where only
\* a subsection number was lost.
OwnSection ==
  lost \subseteq {"pushed", "number"} =>
    \A e \in DOMAIN unit.entries :
      unit.entries[e].kind = "insn" => unit.subs[unit.subOf[e]].name = place[e][1]

=============================================================================
