--------------------------- MODULE SectionsProofs ---------------------------
(***************************************************************************)
(* For every set of sections, every file and every depth of the section    *)
(* stack: MAO's account of the current section agrees with gas's, and each *)
(* instruction is in the Section gas put it in, for as long as the file    *)
(* does nothing that makes MAO lose its account.  MAO keeps the entries of *)
(* each section as one list, in the order read, cut into subsections       *)
(* without a gap; it writes every entry once and in order; and gas,        *)
(* reading what is written, assembles all contents where it did at first,  *)
(* unless the account was lost.                                            *)
(***************************************************************************)
EXTENDS Sections, SequenceTheorems, WellFoundedInduction, TLAPS

-----------------------------------------------------------------------------
(* Types, and how far the two accounts agree.                              *)

\* The names a subsection can have, and what an entry can be.
EntryNames == Names \cup {Start, ""}
AllOps == [kind : Kinds, name : EntryNames \cup Labels, number : Nat]
Ops == {op \in AllOps : op.kind = "section" => op.name \in EntryNames}
SubSections ==
  [name : EntryNames, number : Nat, first : Nat, last : Nat, start : BOOLEAN]

Fields == {"entries", "next", "prev", "subOf", "subs", "cur", "prv", "stack"}

\* What a unit is.  next_ and prev_ may hold anything.
IsUnit(u) ==
  /\ u = [f \in Fields |-> u[f]]
  /\ u.entries \in Seq(Ops)
  /\ u.subs \in Seq(SubSections)
  /\ u.subOf \in Seq(Nat) /\ Len(u.subOf) = Len(u.entries)
  /\ u.cur \in 0 .. Len(u.subs)
  /\ u.prv \in 0 .. Len(u.subs)
  /\ u.stack \in Seq(Nat \X Nat)
  /\ \A i \in 1 .. Len(u.stack) :
       u.stack[i][1] \in 1 .. Len(u.subs) /\ u.stack[i][2] \in 0 .. Len(u.subs)

\* Every entry is mapped to a subsection, between two callbacks.
IsMapped(u) == \A e \in 1 .. Len(u.entries) : u.subOf[e] \in 1 .. Len(u.subs)

\* v has the subsections of u, as far as their names go, and its stack.
Extends(u, v) ==
  /\ Len(u.subs) <= Len(v.subs)
  /\ \A s \in 1 .. Len(u.subs) :
       v.subs[s].name = u.subs[s].name /\ v.subs[s].start = u.subs[s].start
  /\ v.stack = u.stack

Places == (Names \cup {Abs}) \X Nat

TypeInv ==
  /\ IsUnit(unit) /\ IsMapped(unit)
  /\ now \in Places
  /\ previous \in Places \cup {None}
  /\ gasStack \in Seq(Places \X (Places \cup {None}))
  /\ Len(gasStack) <= Len(unit.stack)
  /\ DOMAIN place = 1 .. Len(unit.entries)

\* Subsection s of u is where gas is when it assembles into `at'.
Alike(u, at, s) ==
  IF s = 0 \/ u.subs[s].start THEN at[1] = Text ELSE u.subs[s].name = at[1]

\* The same of the previous subsections; what .previous refuses, or counts as
\* lost, does not matter.
PreviousAlike(u, at, s) ==
  at # None /\ at[1] # Abs /\ s # 0 /\ ~u.subs[s].start => u.subs[s].name = at[1]

StackAlike ==
  Len(gasStack) = Len(unit.stack) =>
    \A i \in 1 .. Len(gasStack) :
      /\ Alike(unit, gasStack[i][1], unit.stack[i][1])
      /\ "pushed" \notin lost => PreviousAlike(unit, gasStack[i][2], unit.stack[i][2])

Account ==
  lost \subseteq {"pushed", "number"} =>
    /\ now[1] = Abs => Len(gasStack) < Len(unit.stack)
    /\ now[1] # Abs => Alike(unit, now, unit.cur)
    /\ "pushed" \notin lost => PreviousAlike(unit, previous, unit.prv)
    /\ StackAlike

-----------------------------------------------------------------------------
(* What the callbacks do to a unit.                                        *)

LEMMA LinkUnit ==
  ASSUME NEW u, IsUnit(u), NEW a, NEW b
  PROVE  /\ IsUnit(Link(u, a, b))
         /\ Link(u, a, b).entries = u.entries
         /\ Link(u, a, b).subOf = u.subOf
         /\ Link(u, a, b).subs = u.subs
         /\ Link(u, a, b).cur = u.cur
         /\ Link(u, a, b).prv = u.prv
         /\ Link(u, a, b).stack = u.stack
<1>1. Link(u, a, b) = [f \in Fields |-> Link(u, a, b)[f]]
  BY DEF IsUnit, Link
<1>2. /\ Link(u, a, b).entries = u.entries /\ Link(u, a, b).subOf = u.subOf
      /\ Link(u, a, b).subs = u.subs /\ Link(u, a, b).cur = u.cur
      /\ Link(u, a, b).prv = u.prv /\ Link(u, a, b).stack = u.stack
  BY DEF IsUnit, Link, Fields
<1>. QED BY <1>1, <1>2 DEF IsUnit

LEMMA AllocateUnit ==
  ASSUME NEW u, IsUnit(u), NEW op \in Ops
  PROVE  /\ IsUnit(Allocate(u, op))
         /\ Allocate(u, op).entries = Append(u.entries, op)
         /\ Allocate(u, op).subOf = Append(u.subOf, 0)
         /\ Allocate(u, op).subs = u.subs
         /\ Allocate(u, op).cur = u.cur
         /\ Allocate(u, op).prv = u.prv
         /\ Allocate(u, op).stack = u.stack
<1>. DEFINE v == Allocate(u, op)
<1>1. /\ v = [f \in Fields |-> v[f]]
      /\ v.entries = Append(u.entries, op) /\ v.subOf = Append(u.subOf, 0)
      /\ v.subs = u.subs /\ v.cur = u.cur /\ v.prv = u.prv /\ v.stack = u.stack
  BY DEF IsUnit, Allocate, Fields
<1>. HIDE DEF v
<1>2. /\ Append(u.entries, op) \in Seq(Ops)
      /\ Append(u.subOf, 0) \in Seq(Nat)
      /\ Len(Append(u.subOf, 0)) = Len(Append(u.entries, op))
  BY AppendProperties DEF IsUnit
<1>3. IsUnit(v)
  BY <1>1, <1>2 DEF IsUnit
<1>. QED BY <1>1, <1>3 DEF v

\* v is u with one more subsection, which is the current one.
Opens(u, v, name, start) ==
  /\ IsUnit(v) /\ Extends(u, v)
  /\ v.entries = u.entries /\ v.subOf = u.subOf
  /\ v.prv = u.cur
  /\ v.cur # 0
  /\ v.subs[v.cur].name = name
  /\ v.subs[v.cur].start <=> start

LEMMA NewSubSectionUnit ==
  ASSUME NEW u, IsUnit(u), NEW name \in EntryNames, NEW number \in Nat,
         NEW e \in Nat, NEW start \in BOOLEAN
  PROVE  Opens(u, AddNewSubSection(u, name, number, e, start), name, start)
<1>. DEFINE new == [name |-> name, number |-> number, first |-> e, last |-> e,
                    start |-> start]
            last == LastSubSection(u, name)
            w == IF last = 0 THEN u ELSE Link(u, u.subs[last].last, e)
            v == AddNewSubSection(u, name, number, e, start)
<1>1. /\ IsUnit(w) /\ w.entries = u.entries /\ w.subOf = u.subOf /\ w.subs = u.subs
      /\ w.cur = u.cur /\ w.prv = u.prv /\ w.stack = u.stack
  BY LinkUnit
<1>2. v = [w EXCEPT !.subs = Append(@, new), !.prv = u.cur, !.cur = Len(u.subs) + 1]
  BY DEF AddNewSubSection
<1>. HIDE DEF w, v
<1>3. /\ v = [f \in Fields |-> v[f]]
      /\ v.entries = w.entries /\ v.subOf = w.subOf /\ v.stack = w.stack
      /\ v.subs = Append(w.subs, new) /\ v.cur = Len(u.subs) + 1 /\ v.prv = u.cur
  BY <1>1, <1>2 DEF IsUnit, Fields
<1>4. new \in SubSections
  BY DEF SubSections
<1>. HIDE DEF new
<1>5. /\ Append(u.subs, new) \in Seq(SubSections)
      /\ Len(Append(u.subs, new)) = Len(u.subs) + 1
      /\ \A s \in 1 .. Len(u.subs) : Append(u.subs, new)[s] = u.subs[s]
      /\ Append(u.subs, new)[Len(u.subs) + 1] = new
  BY <1>1, <1>4, AppendProperties DEF IsUnit
<1>6. IsUnit(v)
  <2>1. /\ v.entries = u.entries /\ v.subOf = u.subOf /\ v.stack = u.stack
        /\ Len(v.subs) = Len(u.subs) + 1 /\ v.subs \in Seq(SubSections)
        /\ v.cur = Len(u.subs) + 1 /\ v.prv = u.cur
    BY <1>1, <1>3, <1>5
  <2>2. Len(u.subs) \in Nat /\ u.cur \in 0 .. Len(u.subs)
    BY LenProperties DEF IsUnit
  <2>3. v.cur \in 0 .. Len(v.subs) /\ v.prv \in 0 .. Len(v.subs)
    BY <2>1, <2>2
  <2>4. \A i \in 1 .. Len(v.stack) :
           v.stack[i][1] \in 1 .. Len(v.subs) /\ v.stack[i][2] \in 0 .. Len(v.subs)
    <3>1. \A i \in 1 .. Len(u.stack) :
             u.stack[i][1] \in 1 .. Len(u.subs) /\ u.stack[i][2] \in 0 .. Len(u.subs)
      BY DEF IsUnit
    <3>. QED BY ONLY <3>1, <2>1, <2>2
  <2>5. /\ v.entries \in Seq(Ops) /\ v.stack \in Seq(Nat \X Nat)
        /\ v.subOf \in Seq(Nat) /\ Len(v.subOf) = Len(v.entries)
    BY <2>1 DEF IsUnit
  <2>6. v = [f \in Fields |-> v[f]]
    BY <1>3
  <2>. QED BY ONLY <2>1, <2>3, <2>4, <2>5, <2>6 DEF IsUnit
<1>7. Extends(u, v)
  <2>1. v.subs = Append(u.subs, new) /\ v.stack = u.stack /\ Len(u.subs) \in Nat
    BY <1>1, <1>3, LenProperties DEF IsUnit
  <2>. QED BY <1>5, <2>1 DEF Extends
<1>8. new.name = name /\ (new.start <=> start)
  BY DEF new
<1>9. v.entries = u.entries /\ v.subOf = u.subOf /\ v.prv = u.cur
      /\ v.cur = Len(u.subs) + 1 /\ v.subs = Append(u.subs, new)
  BY <1>1, <1>3
<1>10. Len(u.subs) + 1 # 0
  BY LenProperties DEF IsUnit
<1>. QED BY <1>5, <1>6, <1>7, <1>8, <1>9, <1>10 DEF v, Opens

LEMMA SetLastEntryUnit ==
  ASSUME NEW u, IsUnit(u), u.cur # 0, NEW e \in Nat
  PROVE  LET v == SetLastEntry(u, e)
         IN  /\ IsUnit(v) /\ Extends(u, v) /\ Len(v.subs) = Len(u.subs)
             /\ v.entries = u.entries /\ v.subOf = u.subOf
             /\ v.cur = u.cur /\ v.prv = u.prv
<1>. DEFINE w == IF e = u.subs[u.cur].first THEN u ELSE Link(u, u.subs[u.cur].last, e)
            v == SetLastEntry(u, e)
            subs == [u.subs EXCEPT ![u.cur] = [u.subs[u.cur] EXCEPT !.last = e]]
<1>1. /\ IsUnit(w) /\ w.entries = u.entries /\ w.subOf = u.subOf /\ w.subs = u.subs
      /\ w.cur = u.cur /\ w.prv = u.prv /\ w.stack = u.stack
  BY LinkUnit
<1>2. v = [w EXCEPT !.subs[u.cur].last = e]
  BY DEF SetLastEntry
<1>. HIDE DEF w, v
<1>3. /\ v = [f \in Fields |-> v[f]]
      /\ v.entries = w.entries /\ v.subOf = w.subOf /\ v.stack = w.stack
      /\ v.subs = subs /\ v.cur = w.cur /\ v.prv = w.prv
  BY <1>1, <1>2 DEF IsUnit, Fields
<1>4. u.cur \in 1 .. Len(u.subs) /\ u.subs \in Seq(SubSections)
  BY DEF IsUnit
<1>5. u.subs[u.cur] \in SubSections
  BY <1>4, ElementOfSeq
<1>6. [u.subs[u.cur] EXCEPT !.last = e] \in SubSections
  BY <1>5 DEF SubSections
<1>7. /\ subs \in Seq(SubSections) /\ Len(subs) = Len(u.subs)
      /\ \A s \in 1 .. Len(u.subs) :
           subs[s] = IF s = u.cur THEN [u.subs[u.cur] EXCEPT !.last = e] ELSE u.subs[s]
  BY <1>4, <1>6, ExceptSeq
<1>8. \A s \in 1 .. Len(u.subs) :
         subs[s].name = u.subs[s].name /\ subs[s].start = u.subs[s].start
  <2>1. LET r == [u.subs[u.cur] EXCEPT !.last = e]
        IN  r.name = u.subs[u.cur].name /\ r.start = u.subs[u.cur].start
    BY <1>5 DEF SubSections
  <2>. HIDE DEF subs
  <2>. QED BY ONLY <1>7, <2>1
<1>. HIDE DEF subs
<1>9. /\ v.entries = u.entries /\ v.subOf = u.subOf /\ v.stack = u.stack
      /\ v.cur = u.cur /\ v.prv = u.prv /\ v.subs = subs
  BY <1>1, <1>3
<1>10. IsUnit(v)
  <2>1. /\ v.entries \in Seq(Ops) /\ v.stack \in Seq(Nat \X Nat)
        /\ v.subOf \in Seq(Nat) /\ Len(v.subOf) = Len(v.entries)
    BY <1>9 DEF IsUnit
  <2>2. /\ v.subs \in Seq(SubSections) /\ Len(v.subs) = Len(u.subs)
    BY <1>7, <1>9
  <2>3. /\ v.cur \in 0 .. Len(v.subs) /\ v.prv \in 0 .. Len(v.subs)
        /\ \A i \in 1 .. Len(v.stack) :
             v.stack[i][1] \in 1 .. Len(v.subs) /\ v.stack[i][2] \in 0 .. Len(v.subs)
    BY <1>9, <2>2 DEF IsUnit
  <2>4. v = [f \in Fields |-> v[f]]
    BY <1>3
  <2>. QED BY ONLY <2>1, <2>2, <2>3, <2>4 DEF IsUnit
<1>11. Extends(u, v)
  <2>1. Len(u.subs) \in Nat
    BY <1>4, LenProperties
  <2>. QED BY <2>1, <1>7, <1>8, <1>9 DEF Extends
<1>. QED BY <1>7, <1>9, <1>10, <1>11 DEF v

LEMMA ExtendsTransitive ==
  ASSUME NEW u, IsUnit(u), NEW v, IsUnit(v), NEW w, IsUnit(w),
         Extends(u, v), Extends(v, w)
  PROVE  Extends(u, w)
<1>1. Len(u.subs) \in Nat /\ Len(v.subs) \in Nat /\ Len(w.subs) \in Nat
  BY LenProperties DEF IsUnit
<1>. QED BY <1>1 DEF Extends

IsDefault(op) == op.kind \in {"insn", "label"}
Opened(u, op, e) ==
  OpenNamed(OpenDefault(OpenStart(u, op, IsDefault(op), e), IsDefault(op), e), op, e)

\* What the statement's kind says of the subsections it leaves current and
\* previous, from u to v.
Turns(u, v, op) ==
  /\ op.kind = "section" =>
       v.subs[v.cur].name = op.name /\ ~v.subs[v.cur].start /\ v.prv = u.cur
  /\ op.kind = "subsection" /\ u.cur # 0 =>
       v.subs[v.cur].name = u.subs[u.cur].name /\ ~v.subs[v.cur].start /\ v.prv = u.cur
  /\ IsDefault(op) =>
       IF u.cur = 0 \/ u.subs[u.cur].start
         THEN v.subs[v.cur].name = Text /\ ~v.subs[v.cur].start /\ v.prv = u.cur
         ELSE v.cur = u.cur /\ v.prv = u.prv
  /\ op.kind \in {"data", "size", "struct"} =>
       IF u.cur = 0
         THEN v.subs[v.cur].start /\ v.prv = 0
         ELSE v.cur = u.cur /\ v.prv = u.prv

\* v is u after AddEntry(op).
Appends(u, v, op) ==
  /\ IsUnit(v) /\ IsMapped(v) /\ Extends(u, v) /\ Turns(u, v, op)
  /\ v.entries = Append(u.entries, op) /\ Len(v.entries) = Len(u.entries) + 1
  /\ v.cur # 0
  /\ \A d \in 1 .. Len(u.entries) : v.subOf[d] = u.subOf[d]
  /\ v.subOf[Len(u.entries) + 1] = v.cur

LEMMA OpenedUnit ==
  ASSUME NEW u, IsUnit(u), NEW op \in Ops, NEW e \in Nat
  PROVE  LET v == Opened(u, op, e)
         IN  /\ IsUnit(v) /\ Extends(u, v) /\ v.cur # 0
             /\ v.entries = u.entries /\ v.subOf = u.subOf
             /\ Turns(u, v, op)
<1>. DEFINE v == Opened(u, op, e)
<1>1. Text \in EntryNames /\ Start \in EntryNames /\ 0 \in Nat
  BY NamesAssumption DEF EntryNames
<1>2. /\ op.kind = "section" => op.name \in EntryNames
      /\ op.number \in Nat /\ op.kind \in Kinds
  BY DEF Ops, AllOps
<1>3. Extends(u, u)
  BY DEF Extends, IsUnit
<1>4. CASE op.kind = "section"
  <2>1. v = AddNewSubSection(u, op.name, 0, e, FALSE)
    BY <1>4 DEF Opened, OpenNamed, OpenDefault, OpenStart, IsDefault
  <2>. HIDE DEF v
  <2>2. Opens(u, v, op.name, FALSE)
    BY <1>1, <1>2, <1>4, <2>1, NewSubSectionUnit
  <2>3. Turns(u, v, op)
    BY <1>4, <2>2 DEF Turns, IsDefault, Opens
  <2>. QED BY <2>2, <2>3 DEF v, Opens
<1>5. CASE op.kind = "subsection"
  <2>. DEFINE w == OpenStart(u, op, FALSE, e)
  <2>1. /\ IsUnit(w) /\ Extends(u, w) /\ w.entries = u.entries /\ w.subOf = u.subOf
        /\ w.cur # 0
        /\ u.cur # 0 => w = u
    <3>1. CASE u.cur = 0
      <4>1. w = AddNewSubSection(u, Start, 0, e, TRUE)
        BY <1>5, <3>1 DEF OpenStart
      <4>2. Opens(u, w, Start, TRUE)
        BY <4>1, <1>1, NewSubSectionUnit
      <4>. QED BY <3>1, <4>2 DEF Opens
    <3>2. CASE u.cur # 0
      BY <3>2, <1>3 DEF OpenStart
    <3>. QED BY <3>1, <3>2
  <2>. HIDE DEF w
  <2>2. w.subs[w.cur].name \in EntryNames
    <3>1. w.cur \in 1 .. Len(w.subs) /\ w.subs \in Seq(SubSections)
      BY <2>1 DEF IsUnit
    <3>2. w.subs[w.cur] \in SubSections
      BY ONLY <3>1, ElementOfSeq
    <3>. QED BY <3>2 DEF SubSections
  <2>3. v = AddNewSubSection(w, w.subs[w.cur].name, op.number, e, FALSE)
    BY <1>5 DEF Opened, OpenNamed, OpenDefault, OpenStart, IsDefault, w
  <2>. HIDE DEF v
  <2>5. Opens(w, v, w.subs[w.cur].name, FALSE)
    BY <1>2, <2>1, <2>2, <2>3, NewSubSectionUnit
  <2>6. Extends(u, v)
    BY <2>1, <2>5, ExtendsTransitive DEF Opens
  <2>7. Turns(u, v, op)
    BY <1>5, <2>1, <2>5 DEF Turns, IsDefault, Opens
  <2>. QED BY <2>1, <2>5, <2>6, <2>7 DEF v, Opens
<1>6. CASE IsDefault(op)
  <2>1. CASE u.cur = 0 \/ u.subs[u.cur].start
    <3>1. v = AddNewSubSection(u, Text, 0, e, FALSE)
      BY <1>6, <2>1 DEF Opened, OpenNamed, OpenDefault, OpenStart, IsDefault
    <3>. HIDE DEF v
    <3>2. Opens(u, v, Text, FALSE)
      BY <1>1, <3>1, NewSubSectionUnit
    <3>3. Turns(u, v, op)
      BY <1>6, <2>1, <3>2 DEF Turns, IsDefault, Opens
    <3>. QED BY <3>2, <3>3 DEF v, Opens
  <2>2. CASE ~(u.cur = 0 \/ u.subs[u.cur].start)
    <3>1. v = u
      BY <1>6, <2>2 DEF Opened, OpenNamed, OpenDefault, OpenStart, IsDefault
    <3>. QED BY <3>1, <1>3, <1>6, <2>2 DEF Turns, IsDefault
  <2>. QED BY <2>1, <2>2
<1>7. CASE op.kind \in {"data", "size", "struct"}
  <2>1. CASE u.cur = 0
    <3>1. v = AddNewSubSection(u, Start, 0, e, TRUE)
      BY <1>7, <2>1 DEF Opened, OpenNamed, OpenDefault, OpenStart, IsDefault
    <3>. HIDE DEF v
    <3>2. Opens(u, v, Start, TRUE)
      BY <1>1, <3>1, NewSubSectionUnit
    <3>3. Turns(u, v, op)
      BY <1>7, <2>1, <3>2 DEF Turns, IsDefault, Opens
    <3>. QED BY <3>2, <3>3 DEF v, Opens
  <2>2. CASE u.cur # 0
    <3>1. v = u
      BY <1>7, <2>2 DEF Opened, OpenNamed, OpenDefault, OpenStart, IsDefault
    <3>. QED BY <3>1, <1>3, <1>7, <2>2 DEF Turns, IsDefault
  <2>. QED BY <2>1, <2>2
<1>. QED BY <1>2, <1>4, <1>5, <1>6, <1>7 DEF Kinds, IsDefault

LEMMA AddEntryUnit ==
  ASSUME NEW u, IsUnit(u), IsMapped(u), NEW op \in Ops
  PROVE  Appends(u, AddEntry(u, op), op)
<1>. DEFINE e == Len(u.entries) + 1
            a == Allocate(u, op)
            o == Opened(a, op, e)
            l == SetLastEntry(o, e)
            v == AddEntry(u, op)
<1>1. e \in Nat /\ e - 1 = Len(u.entries) /\ e # 0
  BY LenProperties DEF IsUnit
<1>2. v = [l EXCEPT !.subOf[e] = o.cur]
  BY DEF AddEntry, Opened, IsDefault, SubSectionFor
<1>. HIDE DEF e, v
<1>3. /\ IsUnit(a) /\ a.entries = Append(u.entries, op) /\ a.subOf = Append(u.subOf, 0)
      /\ a.subs = u.subs /\ a.cur = u.cur /\ a.prv = u.prv /\ a.stack = u.stack
  BY AllocateUnit
<1>. HIDE DEF a
<1>4. /\ IsUnit(o) /\ Extends(a, o) /\ o.cur # 0 /\ o.entries = a.entries
      /\ o.subOf = a.subOf /\ Turns(a, o, op)
  BY <1>1, <1>3, OpenedUnit
<1>. HIDE DEF o
<1>5. /\ IsUnit(l) /\ Extends(o, l) /\ Len(l.subs) = Len(o.subs)
      /\ l.entries = o.entries /\ l.subOf = o.subOf /\ l.cur = o.cur /\ l.prv = o.prv
  BY <1>1, <1>4, SetLastEntryUnit
<1>. HIDE DEF l
<1>6. /\ v = [f \in Fields |-> v[f]]
      /\ v.entries = l.entries /\ v.subs = l.subs /\ v.stack = l.stack
      /\ v.cur = l.cur /\ v.prv = l.prv /\ v.subOf = [l.subOf EXCEPT ![e] = o.cur]
  BY <1>2, <1>5 DEF IsUnit, Fields
<1>7. /\ l.entries = Append(u.entries, op) /\ Len(l.entries) = e
      /\ l.subOf = Append(u.subOf, 0) /\ l.subOf \in Seq(Nat) /\ Len(l.subOf) = e
      /\ \A d \in 1 .. Len(u.entries) : l.subOf[d] = u.subOf[d]
  <2>1. u.entries \in Seq(Ops) /\ u.subOf \in Seq(Nat) /\ Len(u.subOf) = Len(u.entries)
    BY DEF IsUnit
  <2>2. l.entries = Append(u.entries, op) /\ l.subOf = Append(u.subOf, 0)
    BY <1>3, <1>4, <1>5
  <2>3. Len(Append(u.entries, op)) = Len(u.entries) + 1
    BY <2>1, AppendProperties
  <2>4. /\ Append(u.subOf, 0) \in Seq(Nat) /\ Len(Append(u.subOf, 0)) = Len(u.subOf) + 1
        /\ \A d \in 1 .. Len(u.subOf) : Append(u.subOf, 0)[d] = u.subOf[d]
    BY <2>1, AppendProperties
  <2>. QED BY ONLY <2>1, <2>2, <2>3, <2>4 DEF e
<1>8. o.cur \in 1 .. Len(o.subs) /\ o.cur \in Nat /\ Len(u.subs) \in Nat
  BY <1>4, LenProperties DEF IsUnit
<1>9. /\ v.subOf \in Seq(Nat) /\ Len(v.subOf) = e
      /\ \A d \in 1 .. e : v.subOf[d] = IF d = e THEN o.cur ELSE l.subOf[d]
  <2>1. e \in 1 .. Len(l.subOf)
    BY <1>1, <1>7
  <2>. DEFINE new == [l.subOf EXCEPT ![e] = o.cur]
  <2>2. /\ new \in Seq(Nat) /\ Len(new) = Len(l.subOf)
        /\ \A d \in 1 .. Len(l.subOf) : new[d] = IF d = e THEN o.cur ELSE l.subOf[d]
    <3>1. l.subOf \in Seq(Nat) /\ o.cur \in Nat
      BY <1>7, <1>8
    <3>. QED BY ONLY <2>1, <3>1, ExceptSeq
  <2>3. v.subOf = new /\ Len(l.subOf) = e
    BY <1>6, <1>7
  <2>. HIDE DEF new
  <2>. QED BY ONLY <2>2, <2>3
<1>10. IsUnit(v)
  <2>1. /\ v.entries \in Seq(Ops) /\ v.stack \in Seq(Nat \X Nat)
        /\ v.subs \in Seq(SubSections)
        /\ v.cur \in 0 .. Len(v.subs) /\ v.prv \in 0 .. Len(v.subs)
    BY <1>5, <1>6 DEF IsUnit
  <2>2. \A i \in 1 .. Len(v.stack) :
           v.stack[i][1] \in 1 .. Len(v.subs) /\ v.stack[i][2] \in 0 .. Len(v.subs)
    <3>1. \A i \in 1 .. Len(l.stack) :
             l.stack[i][1] \in 1 .. Len(l.subs) /\ l.stack[i][2] \in 0 .. Len(l.subs)
      BY <1>5 DEF IsUnit
    <3>. QED BY ONLY <3>1, <1>6
  <2>3. Len(v.subOf) = Len(v.entries)
    BY <1>6, <1>7, <1>9
  <2>4. v = [f \in Fields |-> v[f]] /\ v.subOf \in Seq(Nat)
    BY <1>6, <1>9
  <2>. QED BY ONLY <2>1, <2>2, <2>3, <2>4 DEF IsUnit
<1>11. Extends(u, v)
  <2>1. Extends(a, l)
    BY <1>3, <1>4, <1>5, ExtendsTransitive
  <2>. QED BY <2>1, <1>3, <1>6 DEF Extends
<1>12. IsMapped(v)
  <2>. SUFFICES ASSUME NEW d \in 1 .. e PROVE v.subOf[d] \in 1 .. Len(v.subs)
    BY <1>6, <1>7 DEF IsMapped
  <2>1. CASE d = e
    BY <2>1, <1>5, <1>6, <1>8, <1>9
  <2>2. CASE d # e
    <3>1. d \in 1 .. Len(u.entries)
      BY <2>2, <1>1
    <3>2. v.subOf[d] = u.subOf[d]
      BY <2>2, <3>1, <1>7, <1>9
    <3>3. u.subOf[d] \in 1 .. Len(u.subs)
      BY <3>1 DEF IsMapped
    <3>4. Len(v.subs) \in Nat /\ Len(u.subs) <= Len(v.subs)
      BY <1>10, <1>11, LenProperties DEF IsUnit, Extends
    <3>. QED BY <3>2, <3>3, <3>4, <1>8
  <2>. QED BY <2>1, <2>2
<1>13. /\ v.entries = Append(u.entries, op) /\ Len(v.entries) = Len(u.entries) + 1
       /\ v.cur # 0
       /\ \A d \in 1 .. Len(u.entries) : v.subOf[d] = u.subOf[d]
       /\ v.subOf[Len(u.entries) + 1] = v.cur
  <2>1. v.entries = Append(u.entries, op) /\ Len(v.entries) = e
    BY <1>6, <1>7
  <2>2. v.cur # 0 /\ v.cur = o.cur
    BY <1>4, <1>5, <1>6
  <2>3. \A d \in 1 .. Len(u.entries) : v.subOf[d] = u.subOf[d]
    <3>. TAKE d \in 1 .. Len(u.entries)
    <3>1. d \in 1 .. e /\ d # e
      BY <1>1
    <3>. QED BY <3>1, <1>7, <1>9
  <2>4. v.subOf[e] = v.cur
    BY <1>1, <1>9, <2>2
  <2>. QED BY <2>1, <2>2, <2>3, <2>4 DEF e
<1>14. Turns(u, v, op)
  <2>1. v.subs[v.cur].name = o.subs[o.cur].name /\ v.subs[v.cur].start = o.subs[o.cur].start
    BY <1>5, <1>6, <1>8 DEF Extends
  <2>2. v.cur = o.cur /\ v.prv = o.prv
    BY <1>5, <1>6
  <2>. QED BY <2>1, <2>2, <1>3, <1>4 DEF Turns
<1>. QED BY <1>10, <1>11, <1>12, <1>13, <1>14 DEF Appends, v

LEMMA PushUnit ==
  ASSUME NEW u, IsUnit(u), IsMapped(u), u.cur # 0
  PROVE  /\ IsUnit(Push(u)) /\ IsMapped(Push(u))
         /\ Push(u).entries = u.entries /\ Push(u).subOf = u.subOf
         /\ Push(u).subs = u.subs
         /\ Push(u).cur = u.cur /\ Push(u).prv = u.cur
         /\ Push(u).stack = Append(u.stack, <<u.cur, u.prv>>)
<1>. DEFINE v == Push(u)
            pair == <<u.cur, u.prv>>
<1>1. /\ v = [f \in Fields |-> v[f]]
      /\ v.entries = u.entries /\ v.subOf = u.subOf /\ v.subs = u.subs
      /\ v.cur = u.cur /\ v.prv = u.cur /\ v.stack = Append(u.stack, pair)
  BY DEF IsUnit, Push, Fields
<1>. HIDE DEF v
<1>2. /\ u.cur \in 1 .. Len(u.subs) /\ u.prv \in 0 .. Len(u.subs)
      /\ u.stack \in Seq(Nat \X Nat) /\ Len(u.subs) \in Nat
  BY LenProperties DEF IsUnit
<1>3. pair \in Nat \X Nat /\ pair[1] = u.cur /\ pair[2] = u.prv
  BY <1>2
<1>. HIDE DEF pair
<1>4. /\ Append(u.stack, pair) \in Seq(Nat \X Nat)
      /\ Len(Append(u.stack, pair)) = Len(u.stack) + 1 /\ Len(u.stack) \in Nat
      /\ \A i \in 1 .. Len(u.stack) : Append(u.stack, pair)[i] = u.stack[i]
      /\ Append(u.stack, pair)[Len(u.stack) + 1] = pair
  BY ONLY <1>2, <1>3, AppendProperties, LenProperties
<1>5. \A i \in 1 .. Len(v.stack) :
         v.stack[i][1] \in 1 .. Len(v.subs) /\ v.stack[i][2] \in 0 .. Len(v.subs)
  <2>1. \A i \in 1 .. Len(u.stack) :
           u.stack[i][1] \in 1 .. Len(u.subs) /\ u.stack[i][2] \in 0 .. Len(u.subs)
    BY DEF IsUnit
  <2>. TAKE i \in 1 .. Len(v.stack)
  <2>2. i \in 1 .. Len(u.stack) + 1 /\ v.subs = u.subs
    BY ONLY <1>1, <1>4
  <2>3. CASE i = Len(u.stack) + 1
    <3>1. v.stack[i] = pair
      BY ONLY <2>3, <1>1, <1>4
    <3>. QED BY ONLY <3>1, <2>2, <1>2, <1>3
  <2>4. CASE i # Len(u.stack) + 1
    <3>1. i \in 1 .. Len(u.stack)
      BY ONLY <2>2, <2>4, <1>4
    <3>2. v.stack[i] = u.stack[i]
      BY ONLY <3>1, <1>1, <1>4
    <3>. QED BY ONLY <3>1, <3>2, <2>1, <2>2
  <2>. QED BY <2>3, <2>4
<1>6. /\ v.entries \in Seq(Ops) /\ v.subs \in Seq(SubSections)
      /\ v.subOf \in Seq(Nat) /\ Len(v.subOf) = Len(v.entries)
      /\ v.cur \in 0 .. Len(v.subs) /\ v.prv \in 0 .. Len(v.subs)
      /\ v.stack \in Seq(Nat \X Nat)
  BY <1>1, <1>2, <1>4 DEF IsUnit
<1>7. IsUnit(v)
  BY ONLY <1>1, <1>5, <1>6 DEF IsUnit
<1>8. IsMapped(v)
  BY <1>1 DEF IsMapped
<1>. QED BY <1>1, <1>7, <1>8 DEF v, pair

\* What PopSubSection takes off the stack before it reopens the subsection.
Popped(u) == [u EXCEPT !.stack = Rest(@)]

LEMMA RestProperties ==
  ASSUME NEW S, NEW s \in Seq(S), s # <<>>
  PROVE  /\ Rest(s) \in Seq(S) /\ Len(s) \in Nat \ {0} /\ Len(Rest(s)) = Len(s) - 1
         /\ \A i \in 1 .. Len(Rest(s)) : Rest(s)[i] = s[i]
         /\ Top(s) \in S /\ Top(s) = s[Len(s)]
<1>1. Len(s) \in Nat \ {0}
  BY EmptySeq
<1>2. \A i \in 1 .. Len(s) : s[i] \in S
  BY ElementOfSeq
<1>3. /\ Rest(s) \in Seq(S)
      /\ Len(Rest(s)) = IF 1 <= Len(s) - 1 THEN Len(s) - 1 - 1 + 1 ELSE 0
      /\ \A i \in 1 .. Len(s) - 1 - 1 + 1 : Rest(s)[i] = s[1 + i - 1]
  BY <1>1, <1>2, SubSeqProperties DEF Rest
<1>4. Len(Rest(s)) = Len(s) - 1
  <2>1. 1 <= Len(s) - 1 => Len(Rest(s)) = Len(s) - 1 - 1 + 1
    BY ONLY <1>3
  <2>2. ~(1 <= Len(s) - 1) => Len(Rest(s)) = 0
    BY ONLY <1>3
  <2>. QED BY ONLY <1>1, <2>1, <2>2
<1>5. \A i \in 1 .. Len(Rest(s)) : Rest(s)[i] = s[i]
  <2>. TAKE i \in 1 .. Len(Rest(s))
  <2>1. i \in 1 .. Len(s) - 1 - 1 + 1 /\ 1 + i - 1 = i
    BY ONLY <1>1, <1>4
  <2>. QED BY ONLY <1>3, <2>1
<1>6. Top(s) \in S /\ Top(s) = s[Len(s)]
  BY ONLY <1>1, <1>2 DEF Top
<1>7. Rest(s) \in Seq(S)
  BY ONLY <1>3
<1>. QED BY ONLY <1>1, <1>4, <1>5, <1>6, <1>7

LEMMA PoppedUnit ==
  ASSUME NEW u, IsUnit(u), IsMapped(u), u.stack # <<>>
  PROVE  /\ IsUnit(Popped(u)) /\ IsMapped(Popped(u))
         /\ Popped(u).entries = u.entries /\ Popped(u).subOf = u.subOf
         /\ Popped(u).subs = u.subs
         /\ Popped(u).stack = Rest(u.stack)
<1>. DEFINE v == Popped(u)
<1>1. /\ v = [f \in Fields |-> v[f]]
      /\ v.entries = u.entries /\ v.subOf = u.subOf /\ v.subs = u.subs
      /\ v.cur = u.cur /\ v.prv = u.prv /\ v.stack = Rest(u.stack)
  BY DEF IsUnit, Popped, Fields
<1>. HIDE DEF v
<1>2. u.stack \in Seq(Nat \X Nat)
  BY DEF IsUnit
<1>3. /\ Rest(u.stack) \in Seq(Nat \X Nat)
      /\ Len(u.stack) \in Nat \ {0} /\ Len(Rest(u.stack)) = Len(u.stack) - 1
      /\ \A i \in 1 .. Len(Rest(u.stack)) : Rest(u.stack)[i] = u.stack[i]
  BY <1>2, RestProperties
<1>4. \A i \in 1 .. Len(v.stack) :
         v.stack[i][1] \in 1 .. Len(v.subs) /\ v.stack[i][2] \in 0 .. Len(v.subs)
  <2>1. \A i \in 1 .. Len(u.stack) :
           u.stack[i][1] \in 1 .. Len(u.subs) /\ u.stack[i][2] \in 0 .. Len(u.subs)
    BY DEF IsUnit
  <2>. TAKE i \in 1 .. Len(v.stack)
  <2>2. i \in 1 .. Len(Rest(u.stack)) /\ i \in 1 .. Len(u.stack)
    BY ONLY <1>1, <1>3
  <2>3. v.stack[i] = u.stack[i] /\ v.subs = u.subs
    BY ONLY <1>1, <1>3, <2>2
  <2>. QED BY ONLY <2>1, <2>2, <2>3
<1>5. /\ v.entries \in Seq(Ops) /\ v.subs \in Seq(SubSections)
      /\ v.subOf \in Seq(Nat) /\ Len(v.subOf) = Len(v.entries)
      /\ v.cur \in 0 .. Len(v.subs) /\ v.prv \in 0 .. Len(v.subs)
      /\ v.stack \in Seq(Nat \X Nat)
  BY <1>1, <1>3 DEF IsUnit
<1>6. IsUnit(v)
  BY ONLY <1>1, <1>4, <1>5 DEF IsUnit
<1>7. IsMapped(v)
  BY <1>1 DEF IsMapped
<1>. QED BY <1>1, <1>6, <1>7 DEF v

LEMMA PreviousUnit ==
  ASSUME NEW u, IsUnit(u), IsMapped(u), NEW p \in 0 .. Len(u.subs)
  PROVE  LET v == [u EXCEPT !.prv = p]
         IN  /\ IsUnit(v) /\ IsMapped(v)
             /\ v.entries = u.entries /\ v.subOf = u.subOf /\ v.subs = u.subs
             /\ v.cur = u.cur /\ v.prv = p /\ v.stack = u.stack
<1>. DEFINE v == [u EXCEPT !.prv = p]
<1>1. /\ v = [f \in Fields |-> v[f]]
      /\ v.entries = u.entries /\ v.subOf = u.subOf /\ v.subs = u.subs
      /\ v.cur = u.cur /\ v.prv = p /\ v.stack = u.stack
  BY DEF IsUnit, Fields
<1>. HIDE DEF v
<1>2. \A i \in 1 .. Len(v.stack) :
         v.stack[i][1] \in 1 .. Len(v.subs) /\ v.stack[i][2] \in 0 .. Len(v.subs)
  <2>1. \A i \in 1 .. Len(u.stack) :
           u.stack[i][1] \in 1 .. Len(u.subs) /\ u.stack[i][2] \in 0 .. Len(u.subs)
    BY DEF IsUnit
  <2>. QED BY ONLY <2>1, <1>1
<1>3. /\ v.entries \in Seq(Ops) /\ v.subs \in Seq(SubSections)
      /\ v.subOf \in Seq(Nat) /\ Len(v.subOf) = Len(v.entries)
      /\ v.cur \in 0 .. Len(v.subs) /\ v.prv \in 0 .. Len(v.subs)
      /\ v.stack \in Seq(Nat \X Nat)
  BY <1>1 DEF IsUnit
<1>4. IsUnit(v)
  BY ONLY <1>1, <1>2, <1>3 DEF IsUnit
<1>5. IsMapped(v)
  BY <1>1 DEF IsMapped
<1>. QED BY <1>1, <1>4, <1>5 DEF v

LEMMA Operations ==
  /\ \A kind \in Kinds : Statement(kind) \in Ops /\ Statement(kind).kind = kind
  /\ \A name \in EntryNames :
       /\ Named("section", name) \in Ops
       /\ Named("section", name).kind = "section" /\ Named("section", name).name = name
  /\ \A n \in Nat :
       Numbered("subsection", n) \in Ops /\ Numbered("subsection", n).kind = "subsection"
  /\ \A f \in Labels :
       /\ Named("label", f) \in Ops /\ Named("label", f).kind = "label"
       /\ Named("size", f) \in Ops /\ Named("size", f).kind = "size"
<1>1. "" \in EntryNames /\ "section" \in Kinds /\ "subsection" \in Kinds /\ 0 \in Nat
  BY DEF EntryNames, Kinds
<1>. QED BY <1>1 DEF Ops, AllOps, Kinds, Statement, Named, Numbered

\* v has the entries of u where they were, and no new instructions.
Keeps(u, v) ==
  /\ Len(u.entries) <= Len(v.entries)
  /\ \A d \in 1 .. Len(u.entries) :
       v.entries[d] = u.entries[d] /\ v.subOf[d] = u.subOf[d]
NoCode(u, v) ==
  \A d \in 1 .. Len(v.entries) : v.entries[d].kind = "insn" => d \in 1 .. Len(u.entries)

LEMMA KeepsTransitive ==
  ASSUME NEW u, IsUnit(u), NEW v, IsUnit(v), NEW w, IsUnit(w),
         Keeps(u, v), Keeps(v, w), NoCode(u, v), NoCode(v, w)
  PROVE  Keeps(u, w) /\ NoCode(u, w)
<1>1. Len(u.entries) \in Nat /\ Len(v.entries) \in Nat /\ Len(w.entries) \in Nat
  BY LenProperties DEF IsUnit
<1>2. Keeps(u, w)
  BY <1>1 DEF Keeps
<1>3. NoCode(u, w)
  BY <1>1 DEF Keeps, NoCode
<1>. QED BY <1>2, <1>3

LEMMA AppendsKeeps ==
  ASSUME NEW u, IsUnit(u), NEW op \in Ops, NEW v, Appends(u, v, op)
  PROVE  /\ Keeps(u, v)
         /\ op.kind # "insn" => NoCode(u, v)
<1>1. u.entries \in Seq(Ops) /\ v.entries = Append(u.entries, op)
  BY DEF IsUnit, Appends
<1>2. /\ Len(u.entries) \in Nat /\ Len(v.entries) = Len(u.entries) + 1
      /\ \A d \in 1 .. Len(u.entries) : v.entries[d] = u.entries[d]
      /\ v.entries[Len(u.entries) + 1] = op
  BY <1>1, LenProperties, AppendProperties
<1>3. Keeps(u, v)
  BY <1>2 DEF Keeps, Appends
<1>4. ASSUME op.kind # "insn", NEW d \in 1 .. Len(v.entries), v.entries[d].kind = "insn"
      PROVE  d \in 1 .. Len(u.entries)
  <2>1. d # Len(u.entries) + 1
    BY <1>2, <1>4
  <2>. QED BY <1>2, <2>1
<1>. QED BY <1>3, <1>4 DEF NoCode

\* v is u with the current subsection in the section named again.
Returns(u, v, name) ==
  /\ IsUnit(v) /\ IsMapped(v) /\ Extends(u, v) /\ Keeps(u, v) /\ NoCode(u, v)
  /\ v.cur # 0 /\ v.subs[v.cur].name = name /\ ~v.subs[v.cur].start

LEMMA NamedReturns ==
  ASSUME NEW u, IsUnit(u), IsMapped(u), NEW name \in EntryNames
  PROVE  LET v == AddEntry(u, Named("section", name))
         IN  Returns(u, v, name) /\ v.prv = u.cur
<1>. DEFINE op == Named("section", name)
            v == AddEntry(u, op)
<1>1. op \in Ops /\ op.kind = "section" /\ op.name = name
  BY Operations
<1>. HIDE DEF op
<1>2. Appends(u, v, op)
  BY <1>1, AddEntryUnit
<1>. HIDE DEF v
<1>3. Keeps(u, v) /\ NoCode(u, v)
  BY <1>1, <1>2, AppendsKeeps
<1>. QED BY <1>1, <1>2, <1>3 DEF Returns, Appends, Turns, v, op

LEMMA NumberedReturns ==
  ASSUME NEW u, IsUnit(u), IsMapped(u), u.cur # 0, NEW n \in Nat
  PROVE  LET v == AddEntry(u, Numbered("subsection", n))
         IN  Returns(u, v, u.subs[u.cur].name) /\ v.prv = u.cur
<1>. DEFINE op == Numbered("subsection", n)
            v == AddEntry(u, op)
<1>1. op \in Ops /\ op.kind = "subsection"
  BY Operations
<1>. HIDE DEF op
<1>2. Appends(u, v, op)
  BY <1>1, AddEntryUnit
<1>. HIDE DEF v
<1>3. Keeps(u, v) /\ NoCode(u, v)
  BY <1>1, <1>2, AppendsKeeps
<1>. QED BY <1>1, <1>2, <1>3 DEF Returns, Appends, Turns, v, op

LEMMA ReturnsTwice ==
  ASSUME NEW u, IsUnit(u), IsMapped(u), NEW name \in EntryNames, NEW n \in Nat
  PROVE  LET v == AddEntry(u, Named("section", name))
         IN  Returns(u, AddEntry(v, Numbered("subsection", n)), name)
<1>. DEFINE v == AddEntry(u, Named("section", name))
            w == AddEntry(v, Numbered("subsection", n))
<1>1. Returns(u, v, name)
  BY NamedReturns
<1>. HIDE DEF v
<1>2. Returns(v, w, v.subs[v.cur].name)
  BY <1>1, NumberedReturns DEF Returns
<1>. HIDE DEF w
<1>3. Extends(u, w)
  BY <1>1, <1>2, ExtendsTransitive DEF Returns
<1>4. Keeps(u, w) /\ NoCode(u, w)
  BY <1>1, <1>2, KeepsTransitive DEF Returns
<1>. QED BY <1>1, <1>2, <1>3, <1>4 DEF Returns, v, w

LEMMA ReopenReturns ==
  ASSUME NEW u, IsUnit(u), IsMapped(u), NEW s \in SubSections
  PROVE  Returns(u, Reopen(u, s), s.name)
<1>1. s.name \in EntryNames /\ s.number \in Nat
  BY DEF SubSections
<1>2. CASE s.number = 0
  BY <1>1, <1>2, NamedReturns DEF Reopen
<1>3. CASE s.number # 0
  BY <1>1, <1>3, ReturnsTwice DEF Reopen
<1>. QED BY <1>2, <1>3

-----------------------------------------------------------------------------
(* The invariant, and what every action keeps of it.                       *)

SectionsInv == TypeInv /\ Account /\ OwnSection

\* Subsections keep their names, whatever is opened after them.
LEMMA AlikeKept ==
  ASSUME NEW u, IsUnit(u), NEW p, p.subs = u.subs, NEW v, Extends(p, v),
         NEW s \in 0 .. Len(u.subs), NEW at
  PROVE  /\ Alike(u, at, s) => Alike(v, at, s)
         /\ PreviousAlike(u, at, s) => PreviousAlike(v, at, s)
<1>1. s # 0 => s \in 1 .. Len(u.subs)
  BY LenProperties DEF IsUnit
<1>2. s # 0 => v.subs[s].name = u.subs[s].name /\ v.subs[s].start = u.subs[s].start
  BY <1>1 DEF Extends
<1>. QED BY <1>2 DEF Alike, PreviousAlike

\* The entries read so far stay where they are; only new code is in question.
LEMMA PlacedStep ==
  ASSUME TypeInv, OwnSection, NEW u, IsUnit(u), IsMapped(u), Keeps(unit, u),
         NEW p, p.subs = unit.subs, Extends(p, u), Linked(u), lost \subseteq lost',
         NoCode(unit, u) \/
           \A d \in 1 .. Len(u.entries) :
             u.entries[d].kind = "insn" /\ d \notin 1 .. Len(unit.entries)
             /\ lost' \subseteq {"pushed", "number"}
               => u.subs[u.subOf[d]].name = now'[1]
  PROVE  OwnSection' /\ DOMAIN place' = 1 .. Len(unit'.entries)
<1>1. /\ unit' = u
      /\ place' = [e \in 1 .. Len(u.entries) |-> IF e \in DOMAIN place THEN place[e] ELSE now']
      /\ DOMAIN place = 1 .. Len(unit.entries)
  BY DEF Linked, TypeInv
<1>2. DOMAIN u.entries = 1 .. Len(u.entries) /\ DOMAIN unit.entries = 1 .. Len(unit.entries)
  BY LenProperties DEF TypeInv, IsUnit
<1>3. ASSUME lost' \subseteq {"pushed", "number"}, NEW d \in 1 .. Len(u.entries),
             u.entries[d].kind = "insn"
      PROVE  u.subs[u.subOf[d]].name = place'[d][1]
  <2>1. CASE d \in 1 .. Len(unit.entries)
    <3>1. u.entries[d] = unit.entries[d] /\ u.subOf[d] = unit.subOf[d]
      BY <2>1 DEF Keeps
    <3>2. unit.subs[unit.subOf[d]].name = place[d][1]
      BY <2>1, <3>1, <1>2, <1>3 DEF OwnSection
    <3>3. unit.subOf[d] \in 1 .. Len(unit.subs)
      BY <2>1 DEF TypeInv, IsMapped
    <3>4. u.subs[unit.subOf[d]].name = unit.subs[unit.subOf[d]].name
      BY <3>3 DEF Extends
    <3>. QED BY <2>1, <3>1, <3>2, <3>4, <1>1, <1>3
  <2>2. CASE d \notin 1 .. Len(unit.entries)
    BY <2>2, <1>1, <1>3 DEF NoCode
  <2>. QED BY <2>1, <2>2
<1>. QED BY <1>1, <1>2, <1>3 DEF OwnSection

LEMMA InitSections == Init => SectionsInv
<1>. SUFFICES ASSUME Init PROVE SectionsInv
  OBVIOUS
<1>1. IsUnit(unit)
  <2>1. NoUnit = [f \in Fields |-> NoUnit[f]]
    BY DEF NoUnit, Fields
  <2>. QED BY <2>1 DEF Init, NoUnit, IsUnit
<1>2. TypeInv
  BY <1>1, NamesAssumption DEF Init, TypeInv, IsMapped, Places, NoUnit
<1>3. Account
  BY NamesAssumption DEF Init, Account, StackAlike, Alike, PreviousAlike, NoUnit
<1>4. OwnSection
  BY DEF Init, OwnSection, NoUnit
<1>. QED BY <1>2, <1>3, <1>4 DEF SectionsInv

LEMMA StuckSections ==
  SectionsInv /\ UNCHANGED <<gas, unit, place, lost>> => SectionsInv'
<1>. SUFFICES ASSUME SectionsInv, UNCHANGED <<gas, unit, place, lost>> PROVE SectionsInv'
  OBVIOUS
<1>1. /\ now' = now /\ previous' = previous /\ gasStack' = gasStack
      /\ unit' = unit /\ place' = place /\ lost' = lost
  BY DEF gas
<1>2. TypeInv'
  BY <1>1 DEF SectionsInv, TypeInv
<1>3. Account'
  BY <1>1 DEF SectionsInv, Account, StackAlike
<1>4. OwnSection'
  BY <1>1 DEF SectionsInv, OwnSection
<1>. QED BY <1>2, <1>3, <1>4 DEF SectionsInv

LEMMA StackStep ==
  ASSUME TypeInv, StackAlike, UNCHANGED gasStack, IsUnit(unit'), Extends(unit, unit'),
         "pushed" \in lost => "pushed" \in lost'
  PROVE  StackAlike'
<1>1. gasStack' = gasStack /\ unit'.stack = unit.stack
  BY DEF Extends
<1>. SUFFICES ASSUME Len(gasStack) = Len(unit.stack), NEW i \in 1 .. Len(gasStack)
              PROVE  /\ Alike(unit', gasStack[i][1], unit.stack[i][1])
                     /\ "pushed" \notin lost' =>
                          PreviousAlike(unit', gasStack[i][2], unit.stack[i][2])
  BY <1>1 DEF StackAlike
<1>2. /\ unit.stack[i][1] \in 0 .. Len(unit.subs)
      /\ unit.stack[i][2] \in 0 .. Len(unit.subs) /\ IsUnit(unit)
  <2>1. IsUnit(unit) /\ i \in 1 .. Len(unit.stack)
    BY DEF TypeInv
  <2>2. /\ unit.stack[i][1] \in 1 .. Len(unit.subs) /\ Len(unit.subs) \in Nat
        /\ unit.stack[i][2] \in 0 .. Len(unit.subs)
    BY ONLY <2>1, LenProperties DEF IsUnit
  <2>. QED BY <2>1, <2>2
<1>3. /\ Alike(unit, gasStack[i][1], unit.stack[i][1])
      /\ "pushed" \notin lost => PreviousAlike(unit, gasStack[i][2], unit.stack[i][2])
  BY DEF StackAlike
<1>. QED BY <1>2, <1>3, AlikeKept

\* Statements that stay in their section.
ContentsKind(op) == op.kind \in {"insn", "label", "data", "size"}

LEMMA ContentsNext ==
  (\E kind \in {"insn", "data"} : Contents(Statement(kind)))
    \/ (\E f \in Labels : DefineLabel(f) \/ Contents(Named("size", f)))
  => \E op \in Ops : ContentsKind(op) /\ Contents(op)
<1>1. ASSUME NEW kind \in {"insn", "data"}, Contents(Statement(kind))
      PROVE  \E op \in Ops : ContentsKind(op) /\ Contents(op)
  <2>1. Statement(kind) \in Ops /\ ContentsKind(Statement(kind))
    BY Operations DEF Kinds, ContentsKind
  <2>. QED BY <2>1, <1>1
<1>2. ASSUME NEW f \in Labels, DefineLabel(f) \/ Contents(Named("size", f))
      PROVE  \E op \in Ops : ContentsKind(op) /\ Contents(op)
  <2>1. /\ Named("label", f) \in Ops /\ ContentsKind(Named("label", f))
        /\ Named("size", f) \in Ops /\ ContentsKind(Named("size", f))
    BY Operations DEF ContentsKind
  <2>. QED BY <2>1, <1>2 DEF DefineLabel
<1>. QED BY <1>1, <1>2

LEMMA ContentsStep ==
  ASSUME SectionsInv, NEW op \in Ops, ContentsKind(op), Contents(op)
  PROVE  SectionsInv'
<1>. DEFINE v == AddEntry(unit, op)
            kind == op.kind
<1>1. kind \in {"insn", "label"} \/ kind \in {"data", "size"}
  BY DEF ContentsKind
<1>2. /\ now' = now /\ previous' = previous /\ gasStack' = gasStack /\ lost' = lost
      /\ kind # "label" => now[1] # Abs
      /\ Linked(v) /\ unit' = v
  BY <1>1 DEF Contents, gas, Linked
<1>3. /\ TypeInv /\ Account /\ OwnSection
      /\ IsUnit(unit) /\ IsMapped(unit) /\ Len(unit.subs) \in Nat
      /\ unit.cur \in 0 .. Len(unit.subs) /\ unit.prv \in 0 .. Len(unit.subs)
  BY LenProperties DEF SectionsInv, TypeInv, IsUnit
<1>4. Appends(unit, v, op)
  BY <1>3, AddEntryUnit
<1>. HIDE DEF v
<1>5. /\ IsUnit(v) /\ IsMapped(v) /\ Extends(unit, v) /\ Turns(unit, v, op) /\ v.cur # 0
      /\ Len(v.entries) = Len(unit.entries) + 1 /\ v.subOf[Len(unit.entries) + 1] = v.cur
      /\ v.stack = unit.stack
  BY <1>4 DEF Appends, Extends
<1>6. lost \subseteq {"pushed", "number"} =>
        /\ now[1] # Abs => Alike(v, now, v.cur)
        /\ kind = "insn" => v.subs[v.cur].name = now[1]
        /\ "pushed" \notin lost => PreviousAlike(v, previous, v.prv)
  <2>. SUFFICES ASSUME lost \subseteq {"pushed", "number"}
                PROVE  /\ now[1] # Abs => Alike(v, now, v.cur)
                       /\ kind = "insn" => v.subs[v.cur].name = now[1]
                       /\ "pushed" \notin lost => PreviousAlike(v, previous, v.prv)
    OBVIOUS
  <2>1. /\ now[1] # Abs => Alike(unit, now, unit.cur)
        /\ "pushed" \notin lost => PreviousAlike(unit, previous, unit.prv)
    BY <1>2, <1>3 DEF Account
  <2>2. /\ now[1] # Abs => Alike(v, now, unit.cur)
        /\ "pushed" \notin lost => PreviousAlike(v, previous, unit.prv)
    BY <2>1, <1>3, <1>5, AlikeKept
  <2>3. unit.cur # 0 => v.subs[unit.cur].start = unit.subs[unit.cur].start
    BY <1>3, <1>5 DEF Extends
  <2>4. CASE kind \in {"insn", "label"}
    <3>1. CASE unit.cur = 0 \/ unit.subs[unit.cur].start
      <4>1. v.subs[v.cur].name = Text /\ ~v.subs[v.cur].start /\ v.prv = unit.cur
        BY <2>4, <3>1, <1>1, <1>5 DEF Turns, IsDefault
      <4>2. now[1] # Abs => now[1] = Text
        BY <2>1, <3>1 DEF Alike
      <4>. QED BY <3>1, <4>1, <4>2, <2>3, <1>2, <1>5 DEF Alike, PreviousAlike
    <3>2. CASE ~(unit.cur = 0 \/ unit.subs[unit.cur].start)
      <4>1. v.cur = unit.cur /\ v.prv = unit.prv
        BY <2>4, <3>2, <1>1, <1>5 DEF Turns, IsDefault
      <4>. QED BY <3>2, <4>1, <2>2, <2>3, <1>2 DEF Alike
    <3>. QED BY <3>1, <3>2
  <2>5. CASE kind \in {"data", "size"}
    <3>1. CASE unit.cur = 0
      <4>1. v.subs[v.cur].start /\ v.prv = 0
        BY <2>5, <3>1, <1>1, <1>5 DEF Turns, IsDefault
      <4>. QED BY <2>5, <3>1, <4>1, <2>1 DEF Alike, PreviousAlike
    <3>2. CASE unit.cur # 0
      <4>1. v.cur = unit.cur /\ v.prv = unit.prv
        BY <2>5, <3>2, <1>1, <1>5 DEF Turns, IsDefault
      <4>. QED BY <2>5, <4>1, <2>2
    <3>. QED BY <3>1, <3>2
  <2>. QED BY <2>4, <2>5, <1>1
<1>7. OwnSection' /\ DOMAIN place' = 1 .. Len(unit'.entries)
  <2>1. Keeps(unit, v)
    BY <1>3, <1>4, AppendsKeeps
  <2>2. ASSUME NEW d \in 1 .. Len(v.entries), v.entries[d].kind = "insn",
               d \notin 1 .. Len(unit.entries), lost' \subseteq {"pushed", "number"}
        PROVE  v.subs[v.subOf[d]].name = now'[1]
    <3>1. Len(unit.entries) \in Nat
      BY <1>3, LenProperties DEF IsUnit
    <3>2. d = Len(unit.entries) + 1
      BY <3>1, <2>2, <1>5
    <3>3. v.entries[d] = op
      <4>1. unit.entries \in Seq(Ops) /\ v.entries = Append(unit.entries, op)
        BY <1>3, <1>4 DEF IsUnit, Appends
      <4>. QED BY ONLY <4>1, <3>2, op \in Ops, AppendProperties
    <3>. QED BY <3>2, <3>3, <2>2, <1>1, <1>2, <1>5, <1>6
  <2>. QED BY <2>1, <2>2, <1>2, <1>3, <1>5, PlacedStep
<1>8. Account'
  <2>1. lost \subseteq {"pushed", "number"} => StackAlike'
    BY <1>2, <1>3, <1>5, StackStep DEF Account
  <2>. QED BY <2>1, <1>2, <1>3, <1>5, <1>6 DEF Account
<1>9. TypeInv'
  BY <1>2, <1>3, <1>5, <1>7 DEF TypeInv
<1>. QED BY <1>7, <1>8, <1>9 DEF SectionsInv

LEMMA OpenSectionStep ==
  ASSUME SectionsInv, NEW name \in Names, NEW n \in Numbers, OpenSection(name, n)
  PROVE  SectionsInv'
<1>. DEFINE v == AddEntry(unit, Named("section", name))
<1>1. /\ now' = <<name, n>> /\ previous' = now /\ gasStack' = gasStack
      /\ lost \subseteq lost' /\ ("pushed" \in lost' <=> "pushed" \in lost)
      /\ Linked(v) /\ unit' = v
  BY DEF OpenSection, Linked
<1>2. /\ TypeInv /\ Account /\ OwnSection
      /\ IsUnit(unit) /\ IsMapped(unit) /\ unit.cur \in 0 .. Len(unit.subs)
      /\ name \in EntryNames /\ name # Abs /\ n \in Nat
  BY NamesAssumption, NumbersAssumption DEF SectionsInv, TypeInv, IsUnit, EntryNames
<1>3. Returns(unit, v, name) /\ v.prv = unit.cur
  BY <1>2, NamedReturns
<1>. HIDE DEF v
<1>4. lost' \subseteq {"pushed", "number"} => PreviousAlike(v, now, unit.cur)
  <2>. SUFFICES ASSUME lost' \subseteq {"pushed", "number"}
                PROVE  PreviousAlike(v, now, unit.cur)
    OBVIOUS
  <2>1. now[1] # Abs => Alike(unit, now, unit.cur)
    BY <1>1, <1>2 DEF Account
  <2>2. PreviousAlike(unit, now, unit.cur)
    BY <2>1 DEF Alike, PreviousAlike
  <2>. QED BY <2>2, <1>2, <1>3, AlikeKept DEF Returns
<1>5. OwnSection' /\ DOMAIN place' = 1 .. Len(unit'.entries)
  BY <1>1, <1>2, <1>3, PlacedStep DEF Returns
<1>6. Account'
  <2>1. lost' \subseteq {"pushed", "number"} => StackAlike'
    BY <1>1, <1>2, <1>3, StackStep DEF Account, Returns
  <2>2. Alike(v, now', v.cur) /\ now'[1] # Abs
    BY <1>1, <1>2, <1>3 DEF Alike, Returns
  <2>. QED BY <2>1, <2>2, <1>1, <1>3, <1>4 DEF Account
<1>7. TypeInv'
  <2>1. now' \in Places /\ previous' \in Places
    BY <1>1, <1>2 DEF Places, TypeInv
  <2>. QED BY <2>1, <1>1, <1>2, <1>3, <1>5 DEF TypeInv, Returns, Extends
<1>. QED BY <1>5, <1>6, <1>7 DEF SectionsInv

LEMMA OpenSubSectionStep ==
  ASSUME SectionsInv, NEW n \in Numbers, OpenSubSection(n)
  PROVE  SectionsInv'
<1>. DEFINE op == Numbered("subsection", n)
            v == AddEntry(unit, op)
<1>1. /\ now' = <<now[1], n>> /\ now[1] # Abs /\ previous' = now /\ gasStack' = gasStack
      /\ lost \subseteq lost' /\ ("pushed" \in lost' <=> "pushed" \in lost)
      /\ lost' \subseteq {"pushed", "number"} =>
           unit.cur # 0 /\ ~unit.subs[unit.cur].start
      /\ Linked(v) /\ unit' = v
  BY DEF OpenSubSection, Linked
<1>2. /\ TypeInv /\ Account /\ OwnSection
      /\ IsUnit(unit) /\ IsMapped(unit) /\ unit.cur \in 0 .. Len(unit.subs)
      /\ n \in Nat
  BY NumbersAssumption DEF SectionsInv, TypeInv, IsUnit
<1>3. op \in Ops /\ op.kind = "subsection"
  BY <1>2, Operations
<1>. HIDE DEF op
<1>4. Appends(unit, v, op)
  BY <1>2, <1>3, AddEntryUnit
<1>. HIDE DEF v
<1>5. Keeps(unit, v) /\ NoCode(unit, v)
  BY <1>2, <1>3, <1>4, AppendsKeeps
<1>6. /\ IsUnit(v) /\ IsMapped(v) /\ Extends(unit, v) /\ v.stack = unit.stack
      /\ unit.cur # 0 => /\ v.subs[v.cur].name = unit.subs[unit.cur].name
                         /\ ~v.subs[v.cur].start /\ v.prv = unit.cur
  BY <1>3, <1>4 DEF Appends, Turns, Extends
<1>7. OwnSection' /\ DOMAIN place' = 1 .. Len(unit'.entries)
  BY <1>1, <1>2, <1>5, <1>6, PlacedStep
<1>8. Account'
  <2>. SUFFICES ASSUME lost' \subseteq {"pushed", "number"}
                PROVE  /\ now'[1] # Abs /\ Alike(v, now', v.cur)
                       /\ PreviousAlike(v, now, unit.cur) /\ v.prv = unit.cur
                       /\ StackAlike'
    BY <1>1 DEF Account
  <2>1. unit.cur # 0 /\ ~unit.subs[unit.cur].start /\ Alike(unit, now, unit.cur)
    BY <1>1, <1>2 DEF Account
  <2>2. PreviousAlike(unit, now, unit.cur)
    BY <2>1 DEF Alike, PreviousAlike
  <2>3. PreviousAlike(v, now, unit.cur)
    BY <2>2, <1>2, <1>6, AlikeKept
  <2>4. StackAlike'
    BY <1>1, <1>2, <1>6, StackStep DEF Account
  <2>5. now'[1] # Abs /\ Alike(v, now', v.cur) /\ v.prv = unit.cur
    <3>1. now'[1] = now[1]
      BY <1>1
    <3>2. unit.subs[unit.cur].name = now[1]
      BY <2>1 DEF Alike
    <3>3. v.cur # 0
      BY <1>4 DEF Appends
    <3>. QED BY <2>1, <3>1, <3>2, <3>3, <1>1, <1>6 DEF Alike
  <2>. QED BY <2>3, <2>4, <2>5
<1>9. TypeInv'
  <2>1. now' \in Places /\ previous' \in Places
    BY <1>1, <1>2 DEF Places, TypeInv
  <2>. QED BY <2>1, <1>1, <1>2, <1>6, <1>7 DEF TypeInv
<1>. QED BY <1>7, <1>8, <1>9 DEF SectionsInv

\* Pushing one subsection on both stacks.
LEMMA StackGrows ==
  ASSUME TypeInv, Account, unit.cur # 0, lost' \subseteq {"pushed", "number"},
         lost \subseteq lost',
         gasStack' = Append(gasStack, <<now, previous>>),
         IsUnit(unit'), Extends(Push(unit), unit')
  PROVE  /\ StackAlike'
         /\ Len(gasStack') = Len(gasStack) + 1
         /\ Len(unit'.stack) = Len(unit.stack) + 1
<1>. DEFINE top == <<now, previous>>
            pair == <<unit.cur, unit.prv>>
<1>1. /\ IsUnit(unit) /\ IsMapped(unit) /\ unit.stack \in Seq(Nat \X Nat)
      /\ unit.cur \in 0 .. Len(unit.subs) /\ unit.prv \in 0 .. Len(unit.subs)
      /\ Len(unit.subs) \in Nat
      /\ gasStack \in Seq(Places \X (Places \cup {None}))
      /\ top \in Places \X (Places \cup {None})
  BY LenProperties DEF TypeInv, IsUnit
<1>2. /\ Push(unit).subs = unit.subs /\ unit'.stack = Append(unit.stack, pair)
      /\ pair \in Nat \X Nat
  BY <1>1, PushUnit DEF Extends
<1>3. /\ pair[1] = unit.cur /\ pair[2] = unit.prv
      /\ top[1] = now /\ top[2] = previous /\ gasStack' = Append(gasStack, top)
  OBVIOUS
<1>. HIDE DEF top, pair
<1>4. /\ Len(gasStack') = Len(gasStack) + 1 /\ Len(gasStack) \in Nat
      /\ \A i \in 1 .. Len(gasStack) : gasStack'[i] = gasStack[i]
      /\ gasStack'[Len(gasStack) + 1] = top
  BY ONLY <1>1, <1>3, AppendProperties, LenProperties
<1>5. /\ Len(unit'.stack) = Len(unit.stack) + 1 /\ Len(unit.stack) \in Nat
      /\ \A i \in 1 .. Len(unit.stack) : unit'.stack[i] = unit.stack[i]
      /\ unit'.stack[Len(unit.stack) + 1] = pair
  BY ONLY <1>1, <1>2, AppendProperties, LenProperties
<1>6. ASSUME Len(gasStack') = Len(unit'.stack), NEW i \in 1 .. Len(gasStack')
      PROVE  /\ Alike(unit', gasStack'[i][1], unit'.stack[i][1])
             /\ "pushed" \notin lost' =>
                  PreviousAlike(unit', gasStack'[i][2], unit'.stack[i][2])
  <2>1. Len(gasStack) = Len(unit.stack)
    BY <1>4, <1>5, <1>6
  <2>2. CASE i = Len(gasStack) + 1
    <3>1. gasStack'[i] = top /\ unit'.stack[i] = pair
      BY <2>1, <2>2, <1>4, <1>5
    <3>2. Alike(unit, now, unit.cur)
      BY <2>1, <1>4 DEF Account
    <3>3. "pushed" \notin lost' => PreviousAlike(unit, previous, unit.prv)
      BY DEF Account
    <3>4. /\ Alike(unit', now, unit.cur)
          /\ PreviousAlike(unit, previous, unit.prv) => PreviousAlike(unit', previous, unit.prv)
      <4>1. IsUnit(unit) /\ Extends(Push(unit), unit')
        BY <1>1
      <4>. QED BY ONLY <4>1, <1>1, <1>2, <3>2, AlikeKept
    <3>5. /\ gasStack'[i][1] = now /\ gasStack'[i][2] = previous
          /\ unit'.stack[i][1] = unit.cur /\ unit'.stack[i][2] = unit.prv
      BY ONLY <3>1, <1>3
    <3>. QED BY ONLY <3>3, <3>4, <3>5
  <2>3. CASE i # Len(gasStack) + 1
    <3>1. i \in 1 .. Len(gasStack) /\ i \in 1 .. Len(unit.stack)
      BY <2>1, <2>3, <1>4, <1>6
    <3>2. gasStack'[i] = gasStack[i] /\ unit'.stack[i] = unit.stack[i]
      BY <3>1, <1>4, <1>5
    <3>3. /\ unit.stack[i][1] \in 0 .. Len(unit.subs)
          /\ unit.stack[i][2] \in 0 .. Len(unit.subs)
      <4>1. /\ unit.stack[i][1] \in 1 .. Len(unit.subs)
            /\ unit.stack[i][2] \in 0 .. Len(unit.subs)
        BY ONLY <1>1, <3>1 DEF IsUnit
      <4>. QED BY <4>1, <1>1
    <3>4. /\ Alike(unit, gasStack[i][1], unit.stack[i][1])
          /\ "pushed" \notin lost => PreviousAlike(unit, gasStack[i][2], unit.stack[i][2])
      BY <2>1, <3>1 DEF Account, StackAlike
    <3>. QED BY <3>2, <3>3, <3>4, <1>1, <1>2, AlikeKept
  <2>. QED BY <2>2, <2>3
<1>. QED BY <1>4, <1>5, <1>6 DEF StackAlike

LEMMA PushSectionStep ==
  ASSUME SectionsInv, NEW name \in Names, NEW n \in Numbers, PushSection(name, n)
  PROVE  SectionsInv'
<1>1. /\ TypeInv /\ Account /\ OwnSection
      /\ IsUnit(unit) /\ IsMapped(unit) /\ unit.cur \in 0 .. Len(unit.subs)
      /\ name \in EntryNames /\ name # Abs /\ n \in Nat
  BY NamesAssumption, NumbersAssumption DEF SectionsInv, TypeInv, IsUnit, EntryNames
<1>2. CASE unit.cur = 0
  <2>1. UNCHANGED <<gas, unit, place, lost>>
    BY <1>2 DEF PushSection, Abort
  <2>. QED BY <2>1, StuckSections
<1>3. CASE unit.cur # 0
  <2>. DEFINE p == Push(unit)
              u == AddEntry(p, Named("section", name))
              v == IF n = 0 THEN u ELSE AddEntry(u, Numbered("subsection", n))
  <2>1. /\ now' = <<name, n>> /\ previous' = now
        /\ gasStack' = Append(gasStack, <<now, previous>>)
        /\ lost' = IF n = 0 THEN lost ELSE lost \cup {"pushed"}
        /\ Linked(v) /\ unit' = v
    BY <1>3 DEF PushSection, Linked
  <2>2. /\ IsUnit(p) /\ IsMapped(p) /\ p.entries = unit.entries /\ p.subOf = unit.subOf
        /\ p.subs = unit.subs /\ p.cur = unit.cur
    BY <1>1, <1>3, PushUnit
  <2>3. Returns(p, u, name) /\ u.prv = unit.cur
    BY <1>1, <2>2, NamedReturns
  <2>4. n = 0 => v.prv = unit.cur
    BY <2>3
  <2>5. Returns(p, v, name)
    BY <1>1, <2>2, <2>3, ReturnsTwice
  <2>. HIDE DEF p, u, v
  <2>6. /\ IsUnit(v) /\ IsMapped(v) /\ Extends(p, v) /\ Keeps(unit, v) /\ NoCode(unit, v)
        /\ v.cur # 0 /\ v.subs[v.cur].name = name /\ ~v.subs[v.cur].start
    BY <2>2, <2>5 DEF Returns, Keeps, NoCode
  <2>7. lost \subseteq lost' /\ ("pushed" \notin lost' => n = 0)
    BY <2>1
  <2>8. OwnSection' /\ DOMAIN place' = 1 .. Len(unit'.entries)
    BY <1>1, <2>1, <2>2, <2>6, <2>7, PlacedStep
  <2>9. Account'
    <3>. SUFFICES ASSUME lost' \subseteq {"pushed", "number"}
                  PROVE  /\ now'[1] # Abs /\ Alike(v, now', v.cur)
                         /\ "pushed" \notin lost' => PreviousAlike(v, now, v.prv)
                         /\ StackAlike'
      BY <2>1 DEF Account
    <3>1. now'[1] # Abs /\ Alike(v, now', v.cur)
      BY <1>1, <2>1, <2>6 DEF Alike
    <3>2. StackAlike'
      BY <1>1, <1>3, <2>1, <2>6, <2>7, StackGrows DEF p
    <3>3. ASSUME "pushed" \notin lost'
          PROVE  PreviousAlike(v, now, v.prv)
      <4>1. now[1] # Abs => Alike(unit, now, unit.cur)
        BY <1>1, <2>7 DEF Account
      <4>2. PreviousAlike(unit, now, unit.cur)
        BY <4>1 DEF Alike, PreviousAlike
      <4>3. PreviousAlike(v, now, unit.cur)
        BY <4>2, <1>1, <2>2, <2>6, AlikeKept
      <4>4. v.prv = unit.cur
        BY <3>3, <2>4, <2>7
      <4>. QED BY <4>3, <4>4
    <3>. QED BY <3>1, <3>2, <3>3
  <2>10. TypeInv'
    <3>1. now' \in Places /\ previous' \in Places
      BY <1>1, <2>1 DEF Places, TypeInv
    <3>2. gasStack' \in Seq(Places \X (Places \cup {None}))
          /\ Len(gasStack') = Len(gasStack) + 1
      BY <1>1, <2>1, AppendProperties DEF TypeInv
    <3>3. Len(unit'.stack) = Len(unit.stack) + 1
      <4>1. unit'.stack = Append(unit.stack, <<unit.cur, unit.prv>>)
        BY <1>1, <1>3, <2>1, <2>6, PushUnit DEF Extends, p
      <4>2. unit.stack \in Seq(Nat \X Nat) /\ <<unit.cur, unit.prv>> \in Nat \X Nat
        BY <1>1 DEF IsUnit
      <4>. QED BY ONLY <4>1, <4>2, AppendProperties
    <3>4. Len(gasStack) \in Nat /\ Len(unit.stack) \in Nat /\ Len(gasStack) <= Len(unit.stack)
      BY <1>1, LenProperties DEF TypeInv, IsUnit
    <3>5. Len(gasStack') <= Len(unit'.stack)
      BY ONLY <3>2, <3>3, <3>4
    <3>. QED BY <3>1, <3>2, <3>5, <2>1, <2>6, <2>8 DEF TypeInv
  <2>. QED BY <2>8, <2>9, <2>10 DEF SectionsInv
<1>. QED BY <1>2, <1>3

LEMMA PopSectionStep ==
  ASSUME SectionsInv, PopSection
  PROVE  SectionsInv'
<1>. DEFINE p == Popped(unit)
            top == Top(unit.stack)
            s == unit.subs[top[1]]
            u == Reopen(p, s)
            v == [u EXCEPT !.prv = top[2]]
            n == Len(gasStack)
<1>1. /\ TypeInv /\ Account /\ OwnSection
      /\ IsUnit(unit) /\ IsMapped(unit) /\ Len(unit.subs) \in Nat
      /\ unit.stack \in Seq(Nat \X Nat)
      /\ gasStack \in Seq(Places \X (Places \cup {None}))
      /\ Len(gasStack) <= Len(unit.stack) /\ unit.subs \in Seq(SubSections)
  BY LenProperties DEF SectionsInv, TypeInv, IsUnit
<1>2. gasStack # <<>> /\ unit.stack # <<>>
  BY <1>1, EmptySeq DEF PopSection
<1>3. /\ gasStack' = Rest(gasStack) /\ now' = Top(gasStack)[1]
      /\ previous' = Top(gasStack)[2] /\ lost \subseteq lost'
      /\ "pushed" \in lost' <=> "pushed" \in lost
      /\ lost' \subseteq {"pushed", "number"} =>
           ~s.start /\ ~(Len(unit.stack) > Len(gasStack))
      /\ Linked(v) /\ unit' = v
  BY DEF PopSection, Pop, Popped, Linked
<1>4. /\ n \in Nat \ {0} /\ Len(gasStack') = n - 1
      /\ \A i \in 1 .. Len(gasStack') : gasStack'[i] = gasStack[i]
      /\ gasStack' \in Seq(Places \X (Places \cup {None}))
      /\ Top(gasStack) = gasStack[n]
      /\ Top(gasStack) \in Places \X (Places \cup {None})
  BY <1>1, <1>2, <1>3, RestProperties
<1>5. /\ Len(unit.stack) \in Nat \ {0} /\ Len(Rest(unit.stack)) = Len(unit.stack) - 1
      /\ \A i \in 1 .. Len(Rest(unit.stack)) : Rest(unit.stack)[i] = unit.stack[i]
      /\ top = unit.stack[Len(unit.stack)]
  BY ONLY <1>1, <1>2, RestProperties
<1>6. top[1] \in 1 .. Len(unit.subs) /\ top[2] \in 0 .. Len(unit.subs)
  <2>1. Len(unit.stack) \in 1 .. Len(unit.stack)
    BY <1>5
  <2>. HIDE DEF top
  <2>. QED BY ONLY <1>1, <1>5, <2>1 DEF IsUnit
<1>. HIDE DEF top
<1>7. s \in SubSections
  BY ONLY <1>1, <1>6, ElementOfSeq
<1>. HIDE DEF s
<1>8. /\ IsUnit(p) /\ IsMapped(p) /\ p.entries = unit.entries /\ p.subOf = unit.subOf
      /\ p.subs = unit.subs /\ p.stack = Rest(unit.stack)
  BY <1>1, <1>2, PoppedUnit
<1>. HIDE DEF p
<1>9. Returns(p, u, s.name)
  BY <1>7, <1>8, ReopenReturns
<1>. HIDE DEF u
<1>10. /\ IsUnit(v) /\ IsMapped(v) /\ v.entries = u.entries /\ v.subOf = u.subOf
       /\ v.subs = u.subs /\ v.cur = u.cur /\ v.prv = top[2] /\ v.stack = u.stack
  <2>1. Len(unit.subs) <= Len(u.subs) /\ Len(u.subs) \in Nat /\ IsUnit(u) /\ IsMapped(u)
    BY <1>8, <1>9, LenProperties DEF Returns, Extends, IsUnit
  <2>2. top[2] \in 0 .. Len(u.subs)
    BY <2>1, <1>1, <1>6
  <2>. QED BY <2>1, <2>2, PreviousUnit
<1>. HIDE DEF v
<1>11. /\ Extends(p, v) /\ Keeps(unit, v) /\ NoCode(unit, v) /\ v.stack = Rest(unit.stack)
       /\ v.cur # 0 /\ v.subs[v.cur].name = s.name /\ ~v.subs[v.cur].start
  BY <1>8, <1>9, <1>10 DEF Returns, Extends, Keeps, NoCode
<1>12. OwnSection' /\ DOMAIN place' = 1 .. Len(unit'.entries)
  BY <1>1, <1>3, <1>8, <1>10, <1>11, PlacedStep
<1>13. ASSUME lost' \subseteq {"pushed", "number"}
       PROVE  /\ now'[1] # Abs /\ Alike(v, now', v.cur)
              /\ "pushed" \notin lost' => PreviousAlike(v, previous', v.prv)
              /\ StackAlike'
  <2>1. Len(unit.stack) = n
    BY <1>1, <1>3, <1>4, <1>5, <1>13
  <2>2. /\ StackAlike /\ ~s.start /\ lost \subseteq {"pushed", "number"}
    BY <1>1, <1>3, <1>13 DEF Account
  <2>3. n \in 1 .. n
    BY <1>4
  <2>4. /\ Alike(unit, now', top[1])
        /\ "pushed" \notin lost' => PreviousAlike(unit, previous', top[2])
    BY <2>1, <2>2, <2>3, <1>3, <1>4, <1>5 DEF StackAlike
  <2>5. s.name = now'[1]
    BY <2>2, <2>4, <1>1, <1>6 DEF Alike, s
  <2>6. now'[1] # Abs
    BY <2>5, <1>7, NamesAssumption DEF SubSections, EntryNames, Abs, Start
  <2>7. "pushed" \notin lost' => PreviousAlike(v, previous', v.prv)
    BY <2>4, <1>1, <1>6, <1>8, <1>10, <1>11, AlikeKept
  <2>8. StackAlike'
    <3>. SUFFICES ASSUME NEW i \in 1 .. Len(gasStack')
                  PROVE  /\ Alike(v, gasStack'[i][1], v.stack[i][1])
                         /\ "pushed" \notin lost' =>
                              PreviousAlike(v, gasStack'[i][2], v.stack[i][2])
      BY <1>3 DEF StackAlike
    <3>1. i \in 1 .. n /\ i \in 1 .. Len(unit.stack) /\ i \in 1 .. Len(Rest(unit.stack))
      BY <2>1, <1>4, <1>5
    <3>2. gasStack'[i] = gasStack[i] /\ v.stack[i] = unit.stack[i]
      BY <3>1, <1>4, <1>5, <1>11
    <3>3. /\ unit.stack[i][1] \in 0 .. Len(unit.subs)
          /\ unit.stack[i][2] \in 0 .. Len(unit.subs)
      <4>1. /\ unit.stack[i][1] \in 1 .. Len(unit.subs)
            /\ unit.stack[i][2] \in 0 .. Len(unit.subs)
        BY ONLY <1>1, <3>1 DEF IsUnit
      <4>. QED BY <4>1, <1>1
    <3>4. /\ Alike(unit, gasStack[i][1], unit.stack[i][1])
          /\ "pushed" \notin lost' => PreviousAlike(unit, gasStack[i][2], unit.stack[i][2])
      BY <2>1, <2>2, <3>1, <1>3 DEF StackAlike
    <3>. QED BY <3>2, <3>3, <3>4, <1>1, <1>8, <1>11, AlikeKept
  <2>. QED BY <2>5, <2>6, <2>7, <2>8, <1>11 DEF Alike
<1>14. Account'
  BY <1>3, <1>13 DEF Account
<1>15. TypeInv'
  <2>1. now' \in Places /\ previous' \in Places \cup {None}
    BY <1>3, <1>4
  <2>2. Len(gasStack') <= Len(unit'.stack)
    <3>1. Len(unit'.stack) = Len(unit.stack) - 1
      BY <1>3, <1>5, <1>11
    <3>. QED BY <3>1, <1>1, <1>4, <1>5
  <2>. QED BY <2>1, <2>2, <1>3, <1>4, <1>10, <1>12 DEF TypeInv
<1>. QED BY <1>12, <1>14, <1>15 DEF SectionsInv

LEMMA PreviousSectionStep ==
  ASSUME SectionsInv, PreviousSection
  PROVE  SectionsInv'
<1>1. /\ TypeInv /\ Account /\ OwnSection
      /\ IsUnit(unit) /\ IsMapped(unit) /\ Len(unit.subs) \in Nat
      /\ unit.cur \in 0 .. Len(unit.subs) /\ unit.prv \in 0 .. Len(unit.subs)
      /\ unit.subs \in Seq(SubSections)
  BY LenProperties DEF SectionsInv, TypeInv, IsUnit
<1>2. CASE unit.prv = 0
  <2>1. UNCHANGED <<gas, unit, place, lost>>
    BY <1>2 DEF PreviousSection, Abort
  <2>. QED BY <2>1, StuckSections
<1>3. CASE unit.prv # 0
  <2>. DEFINE s == unit.subs[unit.prv]
              v == AddEntry(unit, Named("section", s.name))
  <2>1. /\ now' = previous /\ previous' = now /\ gasStack' = gasStack
        /\ lost \subseteq lost' /\ ("pushed" \in lost' <=> "pushed" \in lost)
        /\ lost' \subseteq {"pushed", "number"} =>
             ~s.start /\ previous[1] # Abs /\ "pushed" \notin lost
        /\ previous # None
        /\ Linked(v) /\ unit' = v
    <3>1. /\ now' = previous /\ previous' = now /\ gasStack' = gasStack
          /\ previous # None /\ Linked(v) /\ unit' = v
      BY <1>3 DEF PreviousSection, SetPrevious, Linked
    <3>2. lost' = lost \cup (IF s.start THEN {"start"} ELSE {})
                      \cup (IF previous[1] = Abs THEN {"struct"} ELSE {})
                      \cup (IF previous[2] # 0 THEN {"number"} ELSE {})
                      \cup (IF "pushed" \in lost THEN {"name"} ELSE {})
      BY <1>3 DEF PreviousSection
    <3>. HIDE DEF s, v
    <3>3. lost \subseteq lost' /\ ("pushed" \in lost' <=> "pushed" \in lost)
      BY ONLY <3>2
    <3>4. /\ s.start => "start" \in lost'
          /\ previous[1] = Abs => "struct" \in lost'
          /\ "pushed" \in lost => "name" \in lost'
      BY ONLY <3>2
    <3>. QED BY ONLY <3>1, <3>3, <3>4
  <2>2. s \in SubSections
    <3>1. unit.prv \in 1 .. Len(unit.subs)
      BY <1>1, <1>3
    <3>. QED BY ONLY <3>1, <1>1, ElementOfSeq
  <2>3. s.name \in EntryNames
    BY <2>2 DEF SubSections
  <2>4. Returns(unit, v, s.name) /\ v.prv = unit.cur
    BY <1>1, <2>3, NamedReturns
  <2>. HIDE DEF v
  <2>5. OwnSection' /\ DOMAIN place' = 1 .. Len(unit'.entries)
    BY <1>1, <2>1, <2>4, PlacedStep DEF Returns
  <2>6. Account'
    <3>. SUFFICES ASSUME lost' \subseteq {"pushed", "number"}
                  PROVE  /\ now'[1] # Abs /\ Alike(v, now', v.cur)
                         /\ PreviousAlike(v, now, v.prv)
                         /\ StackAlike'
      BY <2>1 DEF Account
    <3>1. s.name = now'[1] /\ now'[1] # Abs
      BY <1>1, <1>3, <2>1 DEF Account, PreviousAlike
    <3>2. Alike(v, now', v.cur)
      BY <3>1, <2>4 DEF Alike, Returns
    <3>3. PreviousAlike(v, now, v.prv)
      <4>1. now[1] # Abs => Alike(unit, now, unit.cur)
        BY <1>1, <2>1 DEF Account
      <4>2. PreviousAlike(unit, now, unit.cur)
        BY <4>1 DEF Alike, PreviousAlike
      <4>. QED BY <4>2, <1>1, <2>4, AlikeKept DEF Returns
    <3>4. StackAlike'
      BY <1>1, <2>1, <2>4, StackStep DEF Account, Returns
    <3>. QED BY <3>1, <3>2, <3>3, <3>4
  <2>7. TypeInv'
    <3>1. now' \in Places /\ previous' \in Places
      BY <1>1, <2>1 DEF TypeInv
    <3>. QED BY <3>1, <1>1, <2>1, <2>4, <2>5 DEF TypeInv, Returns, Extends
  <2>. QED BY <2>5, <2>6, <2>7 DEF SectionsInv
<1>. QED BY <1>2, <1>3

LEMMA OpenStructStep ==
  ASSUME SectionsInv, OpenStruct
  PROVE  SectionsInv'
<1>1. /\ TypeInv /\ Account /\ OwnSection
      /\ IsUnit(unit) /\ IsMapped(unit) /\ Len(unit.subs) \in Nat
      /\ unit.cur \in 0 .. Len(unit.subs) /\ unit.prv \in 0 .. Len(unit.subs)
  BY LenProperties DEF SectionsInv, TypeInv, IsUnit
<1>2. CASE unit.cur = 0
  <2>1. UNCHANGED <<gas, unit, place, lost>>
    BY <1>2 DEF OpenStruct, Abort
  <2>. QED BY <2>1, StuckSections
<1>3. CASE unit.cur # 0
  <2>. DEFINE p == Push(unit)
              op == Statement("struct")
              v == AddEntry(p, op)
  <2>1. /\ now' = <<Abs, 0>> /\ previous' = now /\ gasStack' = gasStack /\ lost' = lost
        /\ Linked(v) /\ unit' = v
    BY <1>3 DEF OpenStruct, Linked
  <2>2. op \in Ops /\ op.kind = "struct"
    BY Operations DEF Kinds
  <2>. HIDE DEF op
  <2>3. /\ IsUnit(p) /\ IsMapped(p) /\ p.entries = unit.entries /\ p.subOf = unit.subOf
        /\ p.subs = unit.subs /\ p.cur = unit.cur /\ p.prv = unit.cur
        /\ p.stack = Append(unit.stack, <<unit.cur, unit.prv>>)
    BY <1>1, <1>3, PushUnit
  <2>. HIDE DEF p
  <2>4. Appends(p, v, op)
    BY <2>2, <2>3, AddEntryUnit
  <2>. HIDE DEF v
  <2>5. Keeps(p, v) /\ NoCode(p, v)
    BY <2>2, <2>3, <2>4, AppendsKeeps
  <2>6. /\ IsUnit(v) /\ IsMapped(v) /\ Extends(p, v) /\ v.prv = unit.cur
        /\ v.stack = p.stack
    BY <1>3, <2>2, <2>3, <2>4 DEF Appends, Turns, IsDefault, Extends
  <2>7. Keeps(unit, v) /\ NoCode(unit, v)
    BY <2>3, <2>5 DEF Keeps, NoCode
  <2>8. OwnSection' /\ DOMAIN place' = 1 .. Len(unit'.entries)
    BY <1>1, <2>1, <2>3, <2>6, <2>7, PlacedStep
  <2>9. /\ Len(unit'.stack) = Len(unit.stack) + 1 /\ Len(unit.stack) \in Nat
        /\ Len(gasStack) \in Nat /\ Len(gasStack) <= Len(unit.stack)
    <3>1. unit.stack \in Seq(Nat \X Nat) /\ <<unit.cur, unit.prv>> \in Nat \X Nat
      BY <1>1 DEF IsUnit
    <3>2. unit'.stack = Append(unit.stack, <<unit.cur, unit.prv>>)
      BY <2>1, <2>3, <2>6
    <3>3. Len(gasStack) \in Nat /\ Len(gasStack) <= Len(unit.stack)
      BY <1>1, LenProperties DEF TypeInv
    <3>. QED BY ONLY <3>1, <3>2, <3>3, AppendProperties, LenProperties
  <2>10. Len(gasStack') < Len(unit'.stack)
    BY <2>1, <2>9
  <2>11. Account'
    <3>1. StackAlike'
      BY <2>1, <2>9, <2>10 DEF StackAlike
    <3>2. lost \subseteq {"pushed", "number"} => PreviousAlike(v, now, unit.cur)
      <4>. SUFFICES ASSUME lost \subseteq {"pushed", "number"}
                    PROVE  PreviousAlike(v, now, unit.cur)
        OBVIOUS
      <4>1. now[1] # Abs => Alike(unit, now, unit.cur)
        BY <1>1 DEF Account
      <4>2. PreviousAlike(unit, now, unit.cur)
        BY <4>1 DEF Alike, PreviousAlike
      <4>. QED BY <4>2, <1>1, <2>3, <2>6, AlikeKept
    <3>. QED BY <3>1, <3>2, <2>1, <2>6, <2>10 DEF Account
  <2>12. TypeInv'
    <3>1. now' \in Places /\ previous' \in Places
      BY <1>1, <2>1 DEF Places, TypeInv
    <3>2. Len(gasStack') <= Len(unit'.stack)
      BY <2>1, <2>9
    <3>. QED BY <3>1, <3>2, <1>1, <2>1, <2>6, <2>8 DEF TypeInv
  <2>. QED BY <2>8, <2>11, <2>12 DEF SectionsInv
<1>. QED BY <1>2, <1>3

-----------------------------------------------------------------------------
(* The theorems.                                                           *)

LEMMA SectionsStep ==
  ASSUME SectionsInv, [Next]_vars
  PROVE  SectionsInv'
<1>1. ASSUME NEW op \in Ops, ContentsKind(op), Contents(op) PROVE SectionsInv'
  BY <1>1, ContentsStep
<1>2. ASSUME NEW name \in Names, NEW n \in Numbers, OpenSection(name, n)
      PROVE  SectionsInv'
  BY <1>2, OpenSectionStep
<1>3. ASSUME NEW n \in Numbers, OpenSubSection(n) PROVE SectionsInv'
  BY <1>3, OpenSubSectionStep
<1>4. ASSUME NEW name \in Names, NEW n \in Numbers, PushSection(name, n)
      PROVE  SectionsInv'
  BY <1>4, PushSectionStep
<1>5. CASE PopSection
  BY <1>5, PopSectionStep
<1>6. CASE PreviousSection
  BY <1>6, PreviousSectionStep
<1>7. CASE OpenStruct
  BY <1>7, OpenStructStep
<1>8. CASE UNCHANGED vars
  BY <1>8, StuckSections DEF vars
<1>. QED BY <1>1, <1>2, <1>3, <1>4, <1>5, <1>6, <1>7, <1>8, ContentsNext
         DEF Next, SectionStatement

LEMMA SectionsInvariant == Spec => []SectionsInv
<1>1. SectionsInv /\ [Next]_vars => SectionsInv'
  BY SectionsStep
<1>. QED BY <1>1, InitSections, PTL DEF Spec

\* The unit is well formed after every callback (MaoUnit.cc): each entry is
\* mapped to a subsection there is, and so are the current, the previous and
\* the pushed ones; and PopSubSection never meets an empty stack, since MAO
\* has pushed whatever gas has.
THEOREM SectionTypes == Spec => []TypeInv
<1>1. SectionsInv => TypeInv
  BY DEF SectionsInv
<1>. QED BY <1>1, SectionsInvariant, PTL

\* For every file: as long as nothing in it makes MAO lose its account, the
\* current section, and every section on the stack, is gas's.
THEOREM AccountTheorem == Spec => []Account
<1>1. SectionsInv => Account
  BY DEF SectionsInv
<1>. QED BY <1>1, SectionsInvariant, PTL

\* For every file: an instruction is in the Section gas put it in
\* (MaoUnit::AddEntry and the section callbacks of ir.cc).
THEOREM OwnSectionTheorem == Spec => []OwnSection
<1>1. SectionsInv => OwnSection
  BY DEF SectionsInv
<1>. QED BY <1>1, SectionsInvariant, PTL

-----------------------------------------------------------------------------
(* The lists of the sections, and the written file: the invariant.         *)

Count(u) == Len(u.entries)
NameOf(u, e) == u.subs[u.subOf[e]].name

\* d is the next (the last) entry of e's section behind (before) it, or NULL.
IsNext(u, e, d) ==
  IF d = 0 THEN \A c \in e + 1 .. Count(u) : NameOf(u, c) # NameOf(u, e)
  ELSE /\ d \in e + 1 .. Count(u) /\ NameOf(u, d) = NameOf(u, e)
       /\ \A c \in e + 1 .. d - 1 : NameOf(u, c) # NameOf(u, e)
IsPrev(u, e, d) ==
  IF d = 0 THEN \A c \in 1 .. e - 1 : NameOf(u, c) # NameOf(u, e)
  ELSE /\ d \in 1 .. e - 1 /\ NameOf(u, d) = NameOf(u, e)
       /\ \A c \in d + 1 .. e - 1 : NameOf(u, c) # NameOf(u, e)

\* The subsections are the ranges that they say they are, one after the other,
\* with no entry between them.
Ranges(u) ==
  LET S == Len(u.subs) IN
  /\ u.cur = S
  /\ S = 0 <=> Count(u) = 0
  /\ S # 0 => u.subs[1].first = 1 /\ u.subs[S].last = Count(u)
  /\ \A s \in 1 .. S : 1 <= u.subs[s].first /\ u.subs[s].first <= u.subs[s].last
                       /\ u.subs[s].last <= Count(u)
  /\ \A s \in 1 .. S : s # S => u.subs[s + 1].first = u.subs[s].last + 1
  /\ \A s, t \in 1 .. S : s < t => u.subs[s].last < u.subs[t].first
  /\ \A e \in 1 .. Count(u) :
       /\ u.subOf[e] \in 1 .. S
       /\ u.subs[u.subOf[e]].first <= e /\ e <= u.subs[u.subOf[e]].last

LinkTypes(u) ==
  /\ u.next \in Seq(Nat) /\ Len(u.next) = Count(u)
  /\ u.prev \in Seq(Nat) /\ Len(u.prev) = Count(u)
Links(u) ==
  /\ LinkTypes(u)
  /\ \A e \in 1 .. Count(u) : IsNext(u, e, u.next[e]) /\ IsPrev(u, e, u.prev[e])

IsTiled(u) == Ranges(u) /\ Links(u)
TiledInv == "first" \notin lost => IsTiled(unit)

\* Subsection s of u has the number of the place where gas is.
NumberAlike(u, at, s) == at[2] = IF s = 0 \/ u.subs[s].start THEN 0 ELSE u.subs[s].number

CurrentNumber == now[1] # Abs => NumberAlike(unit, now, unit.cur)
StackNumbers ==
  Len(gasStack) = Len(unit.stack) =>
    \A i \in 1 .. Len(gasStack) : NumberAlike(unit, gasStack[i][1], unit.stack[i][1])
NumberInv == lost \subseteq {"pushed"} => CurrentNumber /\ StackNumbers

\* Where gas is after a statement of the written file.
PlaceAfter(p, op) ==
  CASE op.kind = "section" -> <<op.name, 0>>
    [] op.kind = "subsection" -> <<p[1], op.number>>
    [] op.kind = "struct" -> <<Abs, 0>>
    [] OTHER -> p

\* at is where gas is after each of the statements.
IsReplay(ops, at) ==
  /\ at = [k \in 0 .. Len(ops) |-> at[k]]
  /\ at[0] = <<Text, 0>>
  /\ \A k \in 1 .. Len(ops) : at[k] = PlaceAfter(at[k - 1], ops[k])

\* Read again, the entries end where gas is, and contents are where they were.
Replays(at) ==
  /\ IsReplay(unit.entries, at)
  /\ at[Count(unit)] = now
  /\ \A k \in 1 .. Count(unit) : HasContents(k) => at[k] = place[k]
ReplayInv == lost \subseteq {"pushed"} => \E at : Replays(at)

-----------------------------------------------------------------------------
(* What AddEntry does to ranges and links.                                 *)

\* The three cases of AddEntry: whether a statement opens a subsection, and
\* which one.
StartsOne(u, op) ==
  \/ op.kind \in {"section", "subsection"}
  \/ u.cur = 0
  \/ IsDefault(op) /\ u.subs[u.cur].start
NewName(u, op) ==
  CASE op.kind = "section" -> op.name
    [] op.kind = "subsection" -> u.subs[u.cur].name
    [] IsDefault(op) -> Text
    [] OTHER -> Start
NewNumber(op) == IF op.kind = "subsection" THEN op.number ELSE 0
NewStart(op) == op.kind \in {"data", "size", "struct"}

LEMMA OpenedIs ==
  ASSUME NEW u, NEW op \in Ops, NEW e, op.kind = "subsection" => u.cur # 0
  PROVE  Opened(u, op, e) =
           IF StartsOne(u, op)
             THEN AddNewSubSection(u, NewName(u, op), NewNumber(op), e, NewStart(op))
             ELSE u
<1>1. op.kind \in Kinds
  BY DEF Ops, AllOps
<1>2. CASE op.kind = "section"
  <2>1. Opened(u, op, e) = AddNewSubSection(u, op.name, 0, e, FALSE)
    BY <1>2 DEF Opened, OpenNamed, OpenDefault, OpenStart, IsDefault
  <2>2. NewName(u, op) = op.name /\ NewNumber(op) = 0 /\ NewStart(op) = FALSE
    BY <1>2 DEF NewName, NewNumber, NewStart, IsDefault
  <2>. QED BY <2>1, <2>2, <1>2 DEF StartsOne
<1>3. CASE op.kind = "subsection"
  <2>1. Opened(u, op, e) = AddNewSubSection(u, u.subs[u.cur].name, op.number, e, FALSE)
    BY <1>3 DEF Opened, OpenNamed, OpenDefault, OpenStart, IsDefault
  <2>2. /\ NewName(u, op) = u.subs[u.cur].name /\ NewNumber(op) = op.number
        /\ NewStart(op) = FALSE
    BY <1>3 DEF NewName, NewNumber, NewStart, IsDefault
  <2>. QED BY <2>1, <2>2, <1>3 DEF StartsOne
<1>4. CASE IsDefault(op)
  <2>1. Opened(u, op, e) = IF u.cur = 0 \/ u.subs[u.cur].start
                             THEN AddNewSubSection(u, Text, 0, e, FALSE) ELSE u
    BY <1>4 DEF Opened, OpenNamed, OpenDefault, OpenStart, IsDefault
  <2>2. NewName(u, op) = Text /\ NewNumber(op) = 0 /\ NewStart(op) = FALSE
    BY <1>4 DEF NewName, NewNumber, NewStart, IsDefault
  <2>3. StartsOne(u, op) <=> u.cur = 0 \/ u.subs[u.cur].start
    BY <1>4 DEF StartsOne, IsDefault
  <2>. QED BY <2>1, <2>2, <2>3
<1>5. CASE op.kind \in {"data", "size", "struct"}
  <2>1. Opened(u, op, e) = IF u.cur = 0 THEN AddNewSubSection(u, Start, 0, e, TRUE) ELSE u
    BY <1>5 DEF Opened, OpenNamed, OpenDefault, OpenStart, IsDefault
  <2>2. NewName(u, op) = Start /\ NewNumber(op) = 0 /\ NewStart(op) = TRUE
    BY <1>5 DEF NewName, NewNumber, NewStart, IsDefault
  <2>3. StartsOne(u, op) <=> u.cur = 0
    BY <1>5 DEF StartsOne, IsDefault
  <2>. QED BY <2>1, <2>2, <2>3
<1>. QED BY <1>1, <1>2, <1>3, <1>4, <1>5 DEF Kinds, IsDefault

\* The links of v are those of u, and of a last entry that follows b, or
\* nothing where b is NULL.
Joins(u, v, b) ==
  LET N == Count(u) IN
  /\ v.next \in Seq(Nat) /\ Len(v.next) = N + 1
  /\ v.prev \in Seq(Nat) /\ Len(v.prev) = N + 1
  /\ \A d \in 1 .. N : d # b => v.next[d] = u.next[d]
  /\ b # 0 => v.next[b] = N + 1
  /\ v.next[N + 1] = 0
  /\ \A d \in 1 .. N : v.prev[d] = u.prev[d]
  /\ v.prev[N + 1] = b

\* The current subsection of u takes one entry more.
Continues(u, v) ==
  LET N == Count(u) IN
  /\ Len(v.subs) = Len(u.subs) /\ v.cur = u.cur /\ u.cur # 0
  /\ \A s \in 1 .. Len(u.subs) :
       v.subs[s] = IF s = u.cur THEN [u.subs[s] EXCEPT !.last = N + 1] ELSE u.subs[s]
  /\ Joins(u, v, u.subs[u.cur].last)

\* A new subsection takes it.
LastEntryOf(u, name) ==
  IF LastSubSection(u, name) = 0 THEN 0 ELSE u.subs[LastSubSection(u, name)].last
Begins(u, v, name, number, start) ==
  LET N == Count(u) S == Len(u.subs) IN
  /\ Len(v.subs) = S + 1 /\ v.cur = S + 1
  /\ \A s \in 1 .. S : v.subs[s] = u.subs[s]
  /\ v.subs[S + 1] = [name |-> name, number |-> number, first |-> N + 1,
                      last |-> N + 1, start |-> start]
  /\ Joins(u, v, LastEntryOf(u, name))

\* AddEntry as one of the two.
Grows(u, v, op) ==
  IF StartsOne(u, op) THEN Begins(u, v, NewName(u, op), NewNumber(op), NewStart(op))
  ELSE Continues(u, v)

\* The fields of a unit that each step of AddEntry sets.
Put(f, a, b) == [f EXCEPT ![a] = b]
LastMoved(subs, s, e) == [subs EXCEPT ![s] = [@ EXCEPT !.last = e]]
NewSub(name, number, e, start) ==
  [name |-> name, number |-> number, first |-> e, last |-> e, start |-> start]

LEMMA LinkFields ==
  ASSUME NEW u, IsUnit(u), NEW a, NEW b
  PROVE  /\ Link(u, a, b).next = Put(u.next, a, b)
         /\ Link(u, a, b).prev = Put(u.prev, b, a)
BY DEF IsUnit, Link, Fields, Put

LEMMA AllocateFields ==
  ASSUME NEW u, IsUnit(u), NEW op
  PROVE  /\ Allocate(u, op).next = Append(u.next, 0)
         /\ Allocate(u, op).prev = Append(u.prev, 0)
BY DEF IsUnit, Allocate, Fields

LEMMA NewSubSectionFields ==
  ASSUME NEW u, IsUnit(u), NEW name, NEW number, NEW e, NEW start
  PROVE  LET v == AddNewSubSection(u, name, number, e, start)
             b == LastEntryOf(u, name)
         IN  /\ v.subs = Append(u.subs, NewSub(name, number, e, start))
             /\ v.cur = Len(u.subs) + 1
             /\ LastSubSection(u, name) = 0 => v.next = u.next /\ v.prev = u.prev
             /\ LastSubSection(u, name) # 0 =>
                  v.next = Put(u.next, b, e) /\ v.prev = Put(u.prev, e, b)
<1>. DEFINE new == NewSub(name, number, e, start)
            last == LastSubSection(u, name)
            b == LastEntryOf(u, name)
            w == IF last = 0 THEN u ELSE Link(u, u.subs[last].last, e)
            v == AddNewSubSection(u, name, number, e, start)
<1>1. IsUnit(w) /\ w.subs = u.subs
  BY LinkUnit
<1>2. /\ last = 0 => w.next = u.next /\ w.prev = u.prev
      /\ last # 0 => w.next = Put(u.next, b, e) /\ w.prev = Put(u.prev, e, b)
  <2>1. last # 0 => w = Link(u, u.subs[last].last, e) /\ b = u.subs[last].last
    BY DEF LastEntryOf
  <2>2. last = 0 => w = u
    OBVIOUS
  <2>. HIDE DEF w, b, last
  <2>. QED BY <2>1, <2>2, LinkFields
<1>3. v = [w EXCEPT !.subs = Append(@, new), !.prv = u.cur, !.cur = Len(u.subs) + 1]
  BY DEF AddNewSubSection, NewSub
<1>. HIDE DEF w, v, last, b, new
<1>4. /\ v.next = w.next /\ v.prev = w.prev /\ v.subs = Append(w.subs, new)
      /\ v.cur = Len(u.subs) + 1
  BY <1>1, <1>3 DEF IsUnit, Fields
<1>. QED BY <1>1, <1>2, <1>4 DEF v, last, b, new

LEMMA SetLastEntryFields ==
  ASSUME NEW u, IsUnit(u), NEW e
  PROVE  LET v == SetLastEntry(u, e)
             sub == u.subs[u.cur]
         IN  /\ v.subs = LastMoved(u.subs, u.cur, e)
             /\ e = sub.first => v.next = u.next /\ v.prev = u.prev
             /\ e # sub.first =>
                  /\ v.next = Put(u.next, sub.last, e)
                  /\ v.prev = Put(u.prev, e, sub.last)
<1>. DEFINE sub == u.subs[u.cur]
            w == IF e = sub.first THEN u ELSE Link(u, sub.last, e)
            v == SetLastEntry(u, e)
<1>1. IsUnit(w) /\ w.subs = u.subs
  BY LinkUnit
<1>2. /\ e = sub.first => w.next = u.next /\ w.prev = u.prev
      /\ e # sub.first => /\ w.next = Put(u.next, sub.last, e)
                          /\ w.prev = Put(u.prev, e, sub.last)
  <2>1. /\ e # sub.first => w = Link(u, sub.last, e)
        /\ e = sub.first => w = u
    OBVIOUS
  <2>. HIDE DEF w
  <2>. QED BY <2>1, LinkFields
<1>3. v = [w EXCEPT !.subs[u.cur].last = e]
  BY DEF SetLastEntry
<1>. HIDE DEF w, v, sub
<1>4. /\ v.next = w.next /\ v.prev = w.prev
      /\ v.subs = LastMoved(w.subs, u.cur, e)
  BY <1>1, <1>3 DEF IsUnit, Fields, LastMoved
<1>. QED BY <1>1, <1>2, <1>4 DEF v, sub

LEMMA LastMovedSubs ==
  ASSUME NEW subs \in Seq(SubSections), NEW c, NEW e
  PROVE  LET m == LastMoved(subs, c, e)
         IN  /\ Len(m) = Len(subs)
             /\ \A s \in 1 .. Len(subs) :
                  m[s] = IF s = c THEN [subs[s] EXCEPT !.last = e] ELSE subs[s]
<1>1. Len(subs) \in Nat
  BY LenProperties
<1>. QED BY <1>1 DEF LastMoved

\* Every nonempty set of natural numbers has a least element.
LEMMA LeastNat ==
  ASSUME NEW T \in SUBSET Nat, T # {}
  PROVE  \E m \in T : \A k \in T : m <= k
<1>1. \E m \in T : \A k \in T : ~ (<<k, m>> \in OpToRel(<, Nat))
  BY NatLessThanWellFounded, WFMin, Zenon
<1>2. \A k, m \in T : <<k, m>> \notin OpToRel(<, Nat) => m <= k
  BY DEF OpToRel
<1>. QED BY <1>1, <1>2

\* GetLastSubSection finds the last subsection of the name, if there is one.
LEMMA LastSubSectionIs ==
  ASSUME NEW u, Len(u.subs) \in Nat, NEW name
  PROVE  LET last == LastSubSection(u, name)
             own == {s \in 1 .. Len(u.subs) : u.subs[s].name = name}
         IN  /\ own = {} => last = 0
             /\ own # {} => last \in own /\ \A t \in own : t <= last
<1>. DEFINE S == Len(u.subs)
            own == {s \in 1 .. S : u.subs[s].name = name}
            Best(s) == \A t \in own : t <= s
<1>1. LastSubSection(u, name) = IF own = {} THEN 0 ELSE CHOOSE s \in own : Best(s)
  BY DEF LastSubSection
<1>2. own # {} => \E s \in own : Best(s)
  <2>. SUFFICES ASSUME own # {} PROVE \E s \in own : Best(s)
    OBVIOUS
  <2>. DEFINE T == {m \in Nat : \E s \in own : m = S - s}
  <2>1. T \in SUBSET Nat /\ T # {}
    <3>1. PICK s \in own : TRUE
      OBVIOUS
    <3>2. S - s \in Nat
      BY <3>1
    <3>. QED BY <3>1, <3>2
  <2>2. PICK m \in T : \A k \in T : m <= k
    BY <2>1, LeastNat
  <2>3. PICK s \in own : m = S - s
    BY <2>2
  <2>4. \A t \in own : S - s <= S - t
    <3>1. \A t \in own : S - t \in T
      OBVIOUS
    <3>. QED BY <3>1, <2>2, <2>3
  <2>5. \A t \in own : t <= s
    BY <2>4
  <2>. QED BY <2>5
<1>. HIDE DEF own, Best
<1>3. own # {} => LastSubSection(u, name) \in own /\ Best(LastSubSection(u, name))
  BY <1>1, <1>2
<1>. QED BY <1>1, <1>3 DEF own, Best

\* One more link at the end of a sequence of links: from b, or to b.
LinkFrom(f, b) == Put(Append(f, 0), b, Len(f) + 1)
LinkTo(f, b) == Put(Append(f, 0), Len(f) + 1, b)

LEMMA NextAppended ==
  ASSUME NEW N \in Nat, NEW f \in Seq(Nat), Len(f) = N, NEW b \in 1 .. N
  PROVE  LET g == LinkFrom(f, b)
         IN  /\ g \in Seq(Nat) /\ Len(g) = N + 1
             /\ \A d \in 1 .. N : d # b => g[d] = f[d]
             /\ g[b] = N + 1 /\ g[N + 1] = 0
<1>. DEFINE a == Append(f, 0)
            g == Put(a, b, N + 1)
<1>1. /\ a \in Seq(Nat) /\ Len(a) = N + 1 /\ a[N + 1] = 0
      /\ \A d \in 1 .. N : a[d] = f[d]
  BY AppendProperties
<1>2. g = Put(a, b, N + 1) /\ LinkFrom(f, b) = g
  BY DEF LinkFrom
<1>. HIDE DEF a, g
<1>3. b \in 1 .. Len(a) /\ N + 1 \in Nat /\ b # N + 1
  BY <1>1
<1>4. /\ g \in Seq(Nat) /\ Len(g) = N + 1
      /\ \A d \in 1 .. N + 1 : g[d] = IF d = b THEN N + 1 ELSE a[d]
  BY ONLY <1>1, <1>2, <1>3, ExceptSeq DEF Put
<1>5. g \in Seq(Nat) /\ Len(g) = N + 1 /\ g[b] = N + 1 /\ g[N + 1] = 0
      /\ \A d \in 1 .. N : d # b => g[d] = f[d]
  BY ONLY <1>1, <1>3, <1>4, N \in Nat, b \in 1 .. N
<1>. QED BY <1>2, <1>5

LEMMA PrevAppended ==
  ASSUME NEW N \in Nat, NEW f \in Seq(Nat), Len(f) = N, NEW b \in 1 .. N
  PROVE  LET h == LinkTo(f, b)
         IN  /\ h \in Seq(Nat) /\ Len(h) = N + 1
             /\ \A d \in 1 .. N : h[d] = f[d]
             /\ h[N + 1] = b
<1>. DEFINE a == Append(f, 0)
            h == Put(a, N + 1, b)
<1>1. /\ a \in Seq(Nat) /\ Len(a) = N + 1 /\ \A d \in 1 .. N : a[d] = f[d]
  BY AppendProperties
<1>2. h = Put(a, N + 1, b) /\ LinkTo(f, b) = h
  BY DEF LinkTo
<1>. HIDE DEF a, h
<1>3. N + 1 \in 1 .. Len(a) /\ b \in Nat
  BY <1>1
<1>4. /\ h \in Seq(Nat) /\ Len(h) = N + 1
      /\ \A d \in 1 .. N + 1 : h[d] = IF d = N + 1 THEN b ELSE a[d]
  BY ONLY <1>1, <1>2, <1>3, ExceptSeq DEF Put
<1>5. h \in Seq(Nat) /\ Len(h) = N + 1 /\ h[N + 1] = b
      /\ \A d \in 1 .. N : h[d] = f[d]
  BY ONLY <1>1, <1>3, <1>4, N \in Nat, b \in 1 .. N
<1>. QED BY <1>2, <1>5

LEMMA JoinsPut ==
  ASSUME NEW u, LinkTypes(u), NEW v, NEW b \in 1 .. Count(u),
         v.next = Put(Append(u.next, 0), b, Count(u) + 1),
         v.prev = Put(Append(u.prev, 0), Count(u) + 1, b)
  PROVE  Joins(u, v, b)
<1>. DEFINE N == Count(u)
<1>1. /\ u.next \in Seq(Nat) /\ Len(u.next) = N
      /\ u.prev \in Seq(Nat) /\ Len(u.prev) = N
  BY DEF LinkTypes
<1>2. N \in Nat
  BY <1>1, LenProperties
<1>3. b \in 1 .. N /\ v.next = LinkFrom(u.next, b) /\ v.prev = LinkTo(u.prev, b)
  BY <1>1 DEF LinkFrom, LinkTo
<1>. HIDE DEF N
<1>4. /\ v.next \in Seq(Nat) /\ Len(v.next) = N + 1
      /\ \A d \in 1 .. N : d # b => v.next[d] = u.next[d]
      /\ v.next[b] = N + 1 /\ v.next[N + 1] = 0
  <2>. DEFINE f == u.next
  <2>1. f \in Seq(Nat) /\ Len(f) = N /\ v.next = LinkFrom(f, b)
    BY <1>1, <1>3
  <2>. HIDE DEF f
  <2>2. LET g == LinkFrom(f, b)
        IN  /\ g \in Seq(Nat) /\ Len(g) = N + 1
            /\ \A d \in 1 .. N : d # b => g[d] = f[d]
            /\ g[b] = N + 1 /\ g[N + 1] = 0
    BY ONLY <2>1, <1>2, <1>3, NextAppended
  <2>. QED BY <2>1, <2>2 DEF f
<1>5. /\ v.prev \in Seq(Nat) /\ Len(v.prev) = N + 1
      /\ \A d \in 1 .. N : v.prev[d] = u.prev[d]
      /\ v.prev[N + 1] = b
  <2>. DEFINE f == u.prev
  <2>1. f \in Seq(Nat) /\ Len(f) = N /\ v.prev = LinkTo(f, b)
    BY <1>1, <1>3
  <2>. HIDE DEF f
  <2>2. LET h == LinkTo(f, b)
        IN  /\ h \in Seq(Nat) /\ Len(h) = N + 1
            /\ \A d \in 1 .. N : h[d] = f[d]
            /\ h[N + 1] = b
    BY ONLY <2>1, <1>2, <1>3, PrevAppended
  <2>. QED BY <2>1, <2>2 DEF f
<1>. QED BY <1>2, <1>3, <1>4, <1>5 DEF Joins, N

LEMMA JoinsNothing ==
  ASSUME NEW u, LinkTypes(u), NEW v,
         v.next = Append(u.next, 0), v.prev = Append(u.prev, 0)
  PROVE  Joins(u, v, 0)
<1>1. /\ u.next \in Seq(Nat) /\ Len(u.next) = Count(u)
      /\ u.prev \in Seq(Nat) /\ Len(u.prev) = Count(u)
  BY DEF LinkTypes
<1>2. /\ v.next \in Seq(Nat) /\ Len(v.next) = Count(u) + 1
      /\ \A d \in 1 .. Count(u) : v.next[d] = u.next[d]
      /\ v.next[Count(u) + 1] = 0
  BY <1>1, AppendProperties
<1>3. /\ v.prev \in Seq(Nat) /\ Len(v.prev) = Count(u) + 1
      /\ \A d \in 1 .. Count(u) : v.prev[d] = u.prev[d]
      /\ v.prev[Count(u) + 1] = 0
  BY <1>1, AppendProperties
<1>. QED BY <1>2, <1>3 DEF Joins

\* What a unit's ranges say of its subsections.
LEMMA SubSectionNumbers ==
  ASSUME NEW u, IsUnit(u), u.cur = Len(u.subs),
         \A s \in 1 .. Len(u.subs) :
           1 <= u.subs[s].first /\ u.subs[s].first <= u.subs[s].last /\ u.subs[s].last <= Count(u)
  PROVE  /\ Count(u) \in Nat /\ Len(u.subs) \in Nat /\ u.cur = Len(u.subs)
         /\ \A s \in 1 .. Len(u.subs) :
              /\ u.subs[s].first \in Nat /\ u.subs[s].last \in 1 .. Count(u)
              /\ u.subs[s].first <= u.subs[s].last /\ 1 <= u.subs[s].first
<1>1. Count(u) \in Nat /\ Len(u.subs) \in Nat /\ u.subs \in Seq(SubSections)
  BY LenProperties DEF IsUnit, Count
<1>2. \A s \in 1 .. Len(u.subs) : u.subs[s] \in SubSections
  BY <1>1, ElementOfSeq
<1>3. \A s \in 1 .. Len(u.subs) : u.subs[s].first \in Nat /\ u.subs[s].last \in Nat
  BY <1>2 DEF SubSections
<1>4. /\ u.cur = Len(u.subs)
      /\ \A s \in 1 .. Len(u.subs) : 1 <= u.subs[s].first /\ u.subs[s].first <= u.subs[s].last
                                     /\ u.subs[s].last <= Count(u)
  OBVIOUS
<1>. QED BY <1>1, <1>3, <1>4

LEMMA RangesNumbers ==
  ASSUME NEW u, IsUnit(u), Ranges(u)
  PROVE  /\ Count(u) \in Nat /\ Len(u.subs) \in Nat /\ u.cur = Len(u.subs)
         /\ \A s \in 1 .. Len(u.subs) :
              /\ u.subs[s].first \in Nat /\ u.subs[s].last \in 1 .. Count(u)
              /\ u.subs[s].first <= u.subs[s].last /\ 1 <= u.subs[s].first
BY SubSectionNumbers DEF Ranges

\* The current subsection is the one opened last, and entries can be linked to
\* the last entry of each.
Linkable(u) ==
  /\ LinkTypes(u)
  /\ u.cur = Len(u.subs)
  /\ \A s \in 1 .. Len(u.subs) :
       1 <= u.subs[s].first /\ u.subs[s].first <= u.subs[s].last /\ u.subs[s].last <= Count(u)

LEMMA TiledLinkable ==
  ASSUME NEW u, IsTiled(u)
  PROVE  Linkable(u)
BY DEF IsTiled, Ranges, Links, Linkable

\* AddEntry, with no subsection opened.
LEMMA ContinueGrows ==
  ASSUME NEW u, IsUnit(u), Linkable(u), NEW a, IsUnit(a), NEW op,
         a.subs = u.subs, a.cur = u.cur, a.next = Append(u.next, 0),
         a.prev = Append(u.prev, 0), u.cur # 0
  PROVE  LET l == SetLastEntry(a, Count(u) + 1)
         IN  \A v : v.subs = l.subs /\ v.cur = u.cur /\ v.next = l.next /\ v.prev = l.prev
                      => Continues(u, v)
<1>. DEFINE N == Count(u)
            e == N + 1
            l == SetLastEntry(a, e)
            sub == u.subs[u.cur]
<1>1. /\ N \in Nat /\ Len(u.subs) \in Nat /\ u.cur \in 1 .. Len(u.subs)
      /\ sub.last \in 1 .. N /\ e # sub.first
  <2>1. /\ N \in Nat /\ Len(u.subs) \in Nat /\ u.cur = Len(u.subs)
        /\ \A s \in 1 .. Len(u.subs) :
             /\ u.subs[s].first \in Nat /\ u.subs[s].last \in 1 .. N
             /\ u.subs[s].first <= u.subs[s].last
    BY SubSectionNumbers DEF Linkable
  <2>2. u.cur \in 1 .. Len(u.subs)
    BY <2>1
  <2>. QED BY <2>1, <2>2
<1>2. /\ l.subs = LastMoved(u.subs, u.cur, e)
      /\ l.next = Put(a.next, sub.last, e) /\ l.prev = Put(a.prev, e, sub.last)
  <2>1. a.subs[a.cur] = sub /\ e # sub.first
    BY <1>1
  <2>. HIDE DEF sub, e
  <2>2. /\ l.subs = LastMoved(a.subs, a.cur, e)
        /\ l.next = Put(a.next, sub.last, e) /\ l.prev = Put(a.prev, e, sub.last)
    BY <2>1, SetLastEntryFields
  <2>. QED BY <2>2
<1>. HIDE DEF l, e
<1>3. /\ Len(l.subs) = Len(u.subs)
      /\ \A s \in 1 .. Len(u.subs) :
           l.subs[s] = IF s = u.cur THEN [u.subs[s] EXCEPT !.last = e] ELSE u.subs[s]
  <2>1. u.subs \in Seq(SubSections)
    BY DEF IsUnit
  <2>. QED BY <1>2, <2>1, LastMovedSubs, SMTT(60)
<1>. SUFFICES ASSUME NEW v, v.subs = l.subs, v.cur = u.cur, v.next = l.next, v.prev = l.prev
              PROVE  Continues(u, v)
  BY DEF l, e
<1>4. Joins(u, v, sub.last)
  <2>1. LinkTypes(u) /\ sub.last \in 1 .. Count(u)
    BY <1>1 DEF Linkable
  <2>2. /\ v.next = Put(Append(u.next, 0), sub.last, Count(u) + 1)
        /\ v.prev = Put(Append(u.prev, 0), Count(u) + 1, sub.last)
    BY <1>2 DEF e
  <2>. QED BY ONLY <2>1, <2>2, JoinsPut
<1>. QED BY <1>1, <1>3, <1>4 DEF Continues, e

\* AddEntry, with a subsection opened.
LEMMA BeginGrows ==
  ASSUME NEW u, IsUnit(u), Linkable(u), NEW a, IsUnit(a),
         a.subs = u.subs, a.cur = u.cur, a.next = Append(u.next, 0),
         a.prev = Append(u.prev, 0),
         NEW name \in EntryNames, NEW number \in Nat, NEW start \in BOOLEAN
  PROVE  LET o == AddNewSubSection(a, name, number, Count(u) + 1, start)
             l == SetLastEntry(o, Count(u) + 1)
         IN  \A v : v.subs = l.subs /\ v.cur = o.cur /\ v.next = l.next /\ v.prev = l.prev
                      => Begins(u, v, name, number, start)
<1>. DEFINE N == Count(u)
            S == Len(u.subs)
            e == N + 1
            new == NewSub(name, number, e, start)
            b == LastEntryOf(u, name)
            o == AddNewSubSection(a, name, number, e, start)
            l == SetLastEntry(o, e)
<1>1. /\ N \in Nat /\ S \in Nat /\ u.subs \in Seq(SubSections)
      /\ \A s \in 1 .. S : u.subs[s].last \in 1 .. N
  BY SubSectionNumbers DEF Linkable, IsUnit
<1>2. new.first = e /\ new \in SubSections /\ [new EXCEPT !.last = e] = new
  BY <1>1 DEF SubSections, NewSub
<1>. HIDE DEF new
<1>3. /\ LastSubSection(a, name) = LastSubSection(u, name)
      /\ LastEntryOf(a, name) = b
  BY DEF LastSubSection, LastEntryOf
<1>4. /\ o.subs = Append(u.subs, new) /\ o.cur = S + 1
      /\ LastSubSection(u, name) = 0 => o.next = a.next /\ o.prev = a.prev
      /\ LastSubSection(u, name) # 0 => o.next = Put(a.next, b, e) /\ o.prev = Put(a.prev, e, b)
  <2>. HIDE DEF b, e
  <2>1. /\ o.subs = Append(a.subs, new) /\ o.cur = Len(a.subs) + 1
        /\ LastSubSection(a, name) = 0 => o.next = a.next /\ o.prev = a.prev
        /\ LastSubSection(a, name) # 0 =>
             /\ o.next = Put(a.next, LastEntryOf(a, name), e)
             /\ o.prev = Put(a.prev, e, LastEntryOf(a, name))
    <3>1. o.subs = Append(a.subs, new)
      BY ONLY IsUnit(a), NewSubSectionFields DEF new
    <3>2. o.cur = Len(a.subs) + 1
      BY ONLY IsUnit(a), NewSubSectionFields
    <3>3. LastSubSection(a, name) = 0 => o.next = a.next /\ o.prev = a.prev
      BY ONLY IsUnit(a), NewSubSectionFields
    <3>4. LastSubSection(a, name) # 0 =>
             /\ o.next = Put(a.next, LastEntryOf(a, name), e)
             /\ o.prev = Put(a.prev, e, LastEntryOf(a, name))
      BY ONLY IsUnit(a), NewSubSectionFields
    <3>. QED BY <3>1, <3>2, <3>3, <3>4
  <2>. QED BY <2>1, <1>3
<1>5. IsUnit(o)
  <2>1. e \in Nat
    BY <1>1
  <2>. HIDE DEF e
  <2>. QED BY <2>1, NewSubSectionUnit DEF Opens
<1>. HIDE DEF o
<1>6. /\ Append(u.subs, new) \in Seq(SubSections) /\ Len(Append(u.subs, new)) = S + 1
      /\ \A s \in 1 .. S : Append(u.subs, new)[s] = u.subs[s]
      /\ Append(u.subs, new)[S + 1] = new
  BY <1>1, <1>2, AppendProperties
<1>7. l.subs = LastMoved(o.subs, S + 1, e) /\ l.next = o.next /\ l.prev = o.prev
  <2>1. e = o.subs[o.cur].first
    BY <1>2, <1>4, <1>6
  <2>. HIDE DEF e
  <2>2. l.subs = LastMoved(o.subs, o.cur, e) /\ l.next = o.next /\ l.prev = o.prev
    BY <2>1, <1>5, SetLastEntryFields
  <2>. QED BY <2>2, <1>4
<1>. HIDE DEF l
<1>8. /\ Len(l.subs) = S + 1 /\ l.subs[S + 1] = new
      /\ \A s \in 1 .. S : l.subs[s] = u.subs[s]
  <2>1. /\ Len(l.subs) = S + 1
        /\ \A s \in 1 .. S + 1 :
             l.subs[s] = IF s = S + 1 THEN [o.subs[s] EXCEPT !.last = e] ELSE o.subs[s]
    <3>. HIDE DEF S, e
    <3>1. o.subs \in Seq(SubSections) /\ Len(o.subs) = S + 1
      BY <1>4, <1>6
    <3>. QED BY <3>1, <1>7, LastMovedSubs, SMTT(60)
  <2>2. \A s \in 1 .. S : s \in 1 .. S + 1 /\ s # S + 1 /\ o.subs[s] = u.subs[s]
    BY <1>1, <1>4, <1>6
  <2>3. S + 1 \in 1 .. S + 1 /\ o.subs[S + 1] = new
    BY <1>1, <1>4, <1>6
  <2>. HIDE DEF S, e
  <2>. QED BY <2>1, <2>2, <2>3, <1>2
<1>9. LastSubSection(u, name) = 0 => b = 0
  BY DEF LastEntryOf
<1>10. LastSubSection(u, name) # 0 => b \in 1 .. N
  <2>1. LastSubSection(u, name) # 0 => LastSubSection(u, name) \in 1 .. S
    BY <1>1, LastSubSectionIs
  <2>. QED BY <2>1, <1>1 DEF LastEntryOf
<1>. SUFFICES ASSUME NEW v, v.subs = l.subs, v.cur = o.cur, v.next = l.next, v.prev = l.prev
              PROVE  Begins(u, v, name, number, start)
  BY DEF l, o, e
<1>11. Joins(u, v, b)
  <2>1. LinkTypes(u)
    BY DEF Linkable
  <2>2. CASE LastSubSection(u, name) = 0
    <3>1. b = 0 /\ v.next = Append(u.next, 0) /\ v.prev = Append(u.prev, 0)
      BY <2>2, <1>4, <1>7, <1>9
    <3>. QED BY ONLY <2>1, <3>1, JoinsNothing
  <2>3. CASE LastSubSection(u, name) # 0
    <3>1. /\ b \in 1 .. Count(u) /\ v.next = Put(Append(u.next, 0), b, Count(u) + 1)
          /\ v.prev = Put(Append(u.prev, 0), Count(u) + 1, b)
      BY <2>3, <1>4, <1>7, <1>10 DEF e
    <3>. HIDE DEF b
    <3>. QED BY ONLY <2>1, <3>1, JoinsPut
  <2>. QED BY <2>2, <2>3
<1>. QED BY <1>1, <1>4, <1>8, <1>11 DEF Begins, NewSub, new, e

\* AddEntry opens a subsection or continues one, and links the entry there.
LEMMA AddEntryGrows ==
  ASSUME NEW u, IsUnit(u), Linkable(u), NEW op \in Ops, op.kind = "subsection" => u.cur # 0
  PROVE  Grows(u, AddEntry(u, op), op)
<1>. DEFINE e == Count(u) + 1
            a == Allocate(u, op)
            o == Opened(a, op, e)
            l == SetLastEntry(o, e)
            v == AddEntry(u, op)
<1>1. v = [l EXCEPT !.subOf[e] = o.cur]
  BY DEF AddEntry, Opened, IsDefault, SubSectionFor, Count
<1>2. /\ IsUnit(a) /\ a.subs = u.subs /\ a.cur = u.cur
      /\ a.next = Append(u.next, 0) /\ a.prev = Append(u.prev, 0)
  BY AllocateUnit, AllocateFields
<1>3. /\ StartsOne(a, op) = StartsOne(u, op)
      /\ StartsOne(u, op) => o = AddNewSubSection(a, NewName(u, op), NewNumber(op), e, NewStart(op))
      /\ ~StartsOne(u, op) => o = a /\ u.cur # 0
  <2>1. NewName(a, op) = NewName(u, op) /\ StartsOne(a, op) = StartsOne(u, op)
    BY <1>2 DEF NewName, StartsOne
  <2>2. o = IF StartsOne(a, op)
              THEN AddNewSubSection(a, NewName(a, op), NewNumber(op), e, NewStart(op)) ELSE a
    BY <1>2, OpenedIs
  <2>3. ~StartsOne(u, op) => u.cur # 0
    BY DEF StartsOne
  <2>. QED BY <2>1, <2>2, <2>3
<1>4. IsUnit(o) /\ e \in Nat
  <2>1. e \in Nat
    BY LenProperties DEF IsUnit, Count
  <2>. QED BY <2>1, <1>2, OpenedUnit
<1>. HIDE DEF a, v
<1>5. /\ v.next = l.next /\ v.prev = l.prev /\ v.subs = l.subs /\ v.cur = l.cur
      /\ l.cur = o.cur
  <2>1. IsUnit(l) /\ l.cur = o.cur
    <3>1. o.cur # 0
      BY <1>2, <1>4, OpenedUnit
    <3>. QED BY <3>1, <1>4, SetLastEntryUnit
  <2>. HIDE DEF l, o, e
  <2>. QED BY <1>1, <2>1 DEF IsUnit, Fields
<1>6. CASE StartsOne(u, op)
  <2>1. NewName(u, op) \in EntryNames /\ NewNumber(op) \in Nat /\ NewStart(op) \in BOOLEAN
    <3>1. (op.kind = "section" => op.name \in EntryNames) /\ op.number \in Nat
      BY DEF Ops, AllOps
    <3>2. Text \in EntryNames /\ Start \in EntryNames
      BY NamesAssumption DEF EntryNames
    <3>3. op.kind = "subsection" => u.subs[u.cur].name \in EntryNames
      <4>1. op.kind = "subsection" => u.cur \in 1 .. Len(u.subs) /\ u.subs \in Seq(SubSections)
        BY DEF IsUnit
      <4>2. op.kind = "subsection" => u.subs[u.cur] \in SubSections
        BY <4>1, ElementOfSeq
      <4>. QED BY <4>2 DEF SubSections
    <3>4. NewName(u, op) \in EntryNames
      BY <3>1, <3>2, <3>3 DEF NewName, IsDefault
    <3>. QED BY <3>1, <3>4 DEF NewNumber, NewStart
  <2>2. o = AddNewSubSection(a, NewName(u, op), NewNumber(op), e, NewStart(op))
    BY <1>3, <1>6
  <2>3. Begins(u, v, NewName(u, op), NewNumber(op), NewStart(op))
    <3>. HIDE DEF o
    <3>. QED BY ONLY <2>1, <2>2, <1>2, <1>5, IsUnit(u), Linkable(u), BeginGrows DEF l, e
  <2>. QED BY <2>3, <1>6 DEF Grows, v
<1>7. CASE ~StartsOne(u, op)
  <2>1. o = a /\ u.cur # 0
    BY <1>3, <1>7
  <2>2. v.cur = u.cur
    BY <2>1, <1>2, <1>5
  <2>3. Continues(u, v)
    <3>. HIDE DEF o
    <3>. QED BY ONLY <2>1, <2>2, <1>2, <1>5, IsUnit(u), Linkable(u), ContinueGrows DEF l, e
  <2>. QED BY <2>3, <1>7 DEF Grows, v
<1>. QED BY <1>6, <1>7

-----------------------------------------------------------------------------
(* A tiled unit stays tiled.                                               *)

\* b is the last entry so far of the section named, or NULL.
IsLastOf(u, b, name) ==
  IF b = 0 THEN \A c \in 1 .. Count(u) : NameOf(u, c) # name
  ELSE /\ b \in 1 .. Count(u) /\ NameOf(u, b) = name
       /\ \A c \in b + 1 .. Count(u) : NameOf(u, c) # name

\* Linking the new entry behind the last one of its section is right.
LEMMA JoinsLinks ==
  ASSUME NEW u, NEW v, Count(u) \in Nat, Count(v) = Count(u) + 1, Links(u), NEW name,
         NEW b, Joins(u, v, b), IsLastOf(u, b, name),
         \A e \in 1 .. Count(u) : NameOf(v, e) = NameOf(u, e),
         NameOf(v, Count(u) + 1) = name
  PROVE  Links(v)
<1>. DEFINE N == Count(u)
<1>1. /\ \A d \in 1 .. N : d # b => v.next[d] = u.next[d]
      /\ b # 0 => v.next[b] = N + 1
      /\ v.next[N + 1] = 0
      /\ \A d \in 1 .. N : v.prev[d] = u.prev[d]
      /\ v.prev[N + 1] = b
      /\ LinkTypes(v)
  BY DEF Joins, LinkTypes
<1>2. \A e \in 1 .. N : IsNext(u, e, u.next[e]) /\ IsPrev(u, e, u.prev[e])
  BY DEF Links
<1>3. /\ b = 0 => \A c \in 1 .. N : NameOf(u, c) # name
      /\ b # 0 => b \in 1 .. N /\ NameOf(u, b) = name
                  /\ \A c \in b + 1 .. N : NameOf(u, c) # name
  BY DEF IsLastOf
<1>4. N \in Nat /\ Count(v) = N + 1
  OBVIOUS
<1>5. /\ \A e \in 1 .. N : NameOf(v, e) = NameOf(u, e)
      /\ NameOf(v, N + 1) = name
  OBVIOUS
<1>6. ASSUME NEW e \in 1 .. N + 1
      PROVE  IsNext(v, e, v.next[e])
  <2>1. CASE e = N + 1
    BY ONLY <2>1, <1>1, <1>4 DEF IsNext
  <2>2. CASE e \in 1 .. N /\ e = b
    <3>1. v.next[e] = N + 1 /\ N + 1 # 0
      BY ONLY <2>2, <1>1, <1>4
    <3>2. N + 1 \in e + 1 .. N + 1 /\ NameOf(v, N + 1) = NameOf(v, e)
      BY ONLY <2>2, <1>3, <1>4, <1>5
    <3>3. \A c \in e + 1 .. N + 1 - 1 : NameOf(v, c) # NameOf(v, e)
      <4>. TAKE c \in e + 1 .. N + 1 - 1
      <4>1. c \in b + 1 .. N /\ c \in 1 .. N /\ b # 0
        BY ONLY <2>2, <1>4, c \in e + 1 .. N + 1 - 1
      <4>. QED BY ONLY <4>1, <2>2, <1>3, <1>5
    <3>. HIDE DEF N
    <3>. QED BY ONLY <3>1, <3>2, <3>3, <1>4 DEF IsNext
  <2>3. CASE e \in 1 .. N /\ e # b
    <3>. DEFINE d == u.next[e]
    <3>1. v.next[e] = d /\ IsNext(u, e, d)
      BY ONLY <2>3, <1>1, <1>2
    <3>. HIDE DEF d
    <3>2. CASE d = 0
      <4>1. \A c \in e + 1 .. N : NameOf(u, c) # NameOf(u, e)
        BY ONLY <3>1, <3>2 DEF IsNext
      <4>2. NameOf(u, e) # name
        <5>1. SUFFICES ASSUME NameOf(u, e) = name PROVE FALSE
          OBVIOUS
        <5>2. b # 0 /\ ~(e \in b + 1 .. N)
          BY ONLY <5>1, <2>3, <1>3
        <5>3. b \in e + 1 .. N
          BY ONLY <5>2, <2>3, <1>3, <1>4
        <5>. QED BY ONLY <5>1, <5>2, <5>3, <4>1, <1>3
      <4>3. \A c \in e + 1 .. N + 1 : NameOf(v, c) # NameOf(v, e)
        <5>. TAKE c \in e + 1 .. N + 1
        <5>1. c = N + 1 \/ (c \in e + 1 .. N /\ c \in 1 .. N)
          BY ONLY <2>3, <1>4, c \in e + 1 .. N + 1
        <5>. QED BY ONLY <5>1, <4>1, <4>2, <2>3, <1>5
      <4>. HIDE DEF N
      <4>. QED BY ONLY <4>3, <3>1, <3>2, <1>4 DEF IsNext
    <3>3. CASE d # 0
      <4>1. /\ d \in e + 1 .. N /\ NameOf(u, d) = NameOf(u, e)
            /\ \A c \in e + 1 .. d - 1 : NameOf(u, c) # NameOf(u, e)
        BY ONLY <3>1, <3>3 DEF IsNext
      <4>2. d \in e + 1 .. N + 1 /\ d \in 1 .. N
        BY ONLY <4>1, <2>3, <1>4
      <4>3. \A c \in e + 1 .. d - 1 : c \in 1 .. N
        BY ONLY <4>1, <2>3, <1>4
      <4>4. \A c \in e + 1 .. d - 1 : NameOf(v, c) # NameOf(v, e)
        BY ONLY <4>1, <4>3, <2>3, <1>5
      <4>5. NameOf(v, d) = NameOf(v, e)
        BY ONLY <4>1, <4>2, <2>3, <1>5
      <4>. HIDE DEF N
      <4>. QED BY ONLY <4>2, <4>4, <4>5, <3>1, <3>3, <1>4 DEF IsNext
    <3>. QED BY <3>2, <3>3
  <2>. QED BY <2>1, <2>2, <2>3, <1>4
<1>7. ASSUME NEW e \in 1 .. N + 1
      PROVE  IsPrev(v, e, v.prev[e])
  <2>1. CASE e = N + 1
    <3>1. \A c \in 1 .. e - 1 : NameOf(v, c) = NameOf(u, c)
      BY ONLY <2>1, <1>4, <1>5
    <3>2. b = 0 => \A c \in 1 .. e - 1 : NameOf(v, c) # name
      BY ONLY <2>1, <3>1, <1>3, <1>4
    <3>3. b # 0 => /\ b \in 1 .. e - 1 /\ NameOf(v, b) = name
                   /\ \A c \in b + 1 .. e - 1 : NameOf(v, c) # name
      <4>1. SUFFICES ASSUME b # 0
                     PROVE  /\ b \in 1 .. e - 1 /\ NameOf(v, b) = name
                            /\ \A c \in b + 1 .. e - 1 : NameOf(v, c) # name
        OBVIOUS
      <4>2. b \in 1 .. e - 1 /\ NameOf(v, b) = name
        BY ONLY <4>1, <2>1, <3>1, <1>3, <1>4
      <4>3. \A c \in b + 1 .. e - 1 : NameOf(v, c) # name
        <5>. TAKE c \in b + 1 .. e - 1
        <5>1. c \in b + 1 .. N /\ c \in 1 .. e - 1
          BY ONLY <4>2, <2>1, <1>4, c \in b + 1 .. e - 1
        <5>. QED BY ONLY <5>1, <4>1, <3>1, <1>3
      <4>. QED BY <4>2, <4>3
    <3>4. v.prev[e] = b /\ NameOf(v, e) = name
      BY ONLY <2>1, <1>1, <1>5
    <3>. QED BY ONLY <3>2, <3>3, <3>4 DEF IsPrev
  <2>2. CASE e \in 1 .. N
    <3>. DEFINE d == u.prev[e]
    <3>1. v.prev[e] = d /\ IsPrev(u, e, d)
      BY ONLY <2>2, <1>1, <1>2
    <3>2. \A c \in 1 .. e - 1 : NameOf(v, c) = NameOf(u, c)
      BY ONLY <2>2, <1>4, <1>5
    <3>3. NameOf(v, e) = NameOf(u, e)
      BY ONLY <2>2, <1>5
    <3>. HIDE DEF d
    <3>4. CASE d = 0
      BY ONLY <3>1, <3>2, <3>3, <3>4 DEF IsPrev
    <3>5. CASE d # 0
      <4>1. /\ d \in 1 .. e - 1 /\ NameOf(u, d) = NameOf(u, e)
            /\ \A c \in d + 1 .. e - 1 : NameOf(u, c) # NameOf(u, e)
        BY ONLY <3>1, <3>5 DEF IsPrev
      <4>2. \A c \in d + 1 .. e - 1 : c \in 1 .. e - 1
        BY ONLY <4>1, <2>2, <1>4
      <4>. QED BY ONLY <4>1, <4>2, <3>1, <3>2, <3>3, <3>5 DEF IsPrev
    <3>. QED BY <3>4, <3>5
  <2>. QED BY <2>1, <2>2, <1>4
<1>. QED BY ONLY <1>1, <1>4, <1>6, <1>7 DEF Links

\* Ranges as facts about numbers: where an entry is, and what is around it.
LEMMA RangeOf ==
  ASSUME NEW u, IsUnit(u), Ranges(u), NEW e \in 1 .. Count(u), NEW s \in 1 .. Len(u.subs)
  PROVE  u.subOf[e] = s <=> u.subs[s].first <= e /\ e <= u.subs[s].last
<1>. DEFINE t == u.subOf[e]
            S == Len(u.subs)
            F(i) == u.subs[i].first
            L(i) == u.subs[i].last
<1>1. /\ t \in 1 .. S /\ F(t) <= e /\ e <= L(t)
      /\ \A i, j \in 1 .. S : i < j => L(i) < F(j)
  BY DEF Ranges
<1>2. /\ Count(u) \in Nat /\ S \in Nat
      /\ \A i \in 1 .. S : F(i) \in Nat /\ L(i) \in Nat
  BY RangesNumbers
<1>3. s \in 1 .. S /\ e \in Nat
  BY <1>2
<1>. SUFFICES t = s <=> F(s) <= e /\ e <= L(s)
  OBVIOUS
<1>. HIDE DEF t, S, F, L
<1>4. t < s => L(t) < F(s)
  BY ONLY <1>1, <1>3
<1>5. s < t => L(s) < F(t)
  BY ONLY <1>1, <1>3
<1>. QED BY ONLY <1>1, <1>2, <1>3, <1>4, <1>5

LEMMA ContinueTiled ==
  ASSUME NEW u, IsUnit(u), IsTiled(u), NEW v, Count(v) = Count(u) + 1, Continues(u, v),
         \A d \in 1 .. Count(u) : v.subOf[d] = u.subOf[d],
         v.subOf[Count(u) + 1] = v.cur
  PROVE  IsTiled(v)
<1>. DEFINE N == Count(u)
            S == Len(u.subs)
            F(s) == u.subs[s].first
            L(s) == u.subs[s].last
<1>1. /\ N \in Nat /\ S \in Nat /\ u.cur = S /\ S # 0
      /\ \A s \in 1 .. S : F(s) \in Nat /\ L(s) \in 1 .. N /\ F(s) <= L(s) /\ 1 <= F(s)
  BY RangesNumbers DEF IsTiled, Continues
<1>2. (S = 0 <=> N = 0) /\ F(1) = 1 /\ L(S) = N
  BY <1>1 DEF IsTiled, Ranges
<1>10. \A s \in 1 .. S : s # S => F(s + 1) = L(s) + 1
  BY <1>1 DEF IsTiled, Ranges
<1>11. \A s, t \in 1 .. S : s < t => L(s) < F(t)
  BY <1>1 DEF IsTiled, Ranges
<1>12. \A e \in 1 .. N : u.subOf[e] \in 1 .. S /\ F(u.subOf[e]) <= e /\ e <= L(u.subOf[e])
  BY <1>1 DEF IsTiled, Ranges
<1>3. /\ Len(v.subs) = S /\ v.cur = S
      /\ \A s \in 1 .. S : /\ v.subs[s].first = F(s)
                           /\ v.subs[s].last = IF s = S THEN N + 1 ELSE L(s)
                           /\ v.subs[s].name = u.subs[s].name
  <2>. DEFINE Moved(r) == [r EXCEPT !.last = N + 1]
  <2>1. /\ Len(v.subs) = S /\ v.cur = S
        /\ \A s \in 1 .. S : v.subs[s] = IF s = S THEN Moved(u.subs[s]) ELSE u.subs[s]
    BY <1>1 DEF Continues
  <2>2. \A s \in 1 .. S : u.subs[s] \in SubSections
    BY ElementOfSeq DEF IsUnit
  <2>3. \A s \in 1 .. S : LET r == Moved(u.subs[s])
                          IN  r.first = F(s) /\ r.last = N + 1 /\ r.name = u.subs[s].name
    BY <2>2 DEF SubSections
  <2>. HIDE DEF N, S, Moved
  <2>. QED BY ONLY <2>1, <2>3
<1>4. Ranges(v)
  <2>1. /\ v.cur = Len(v.subs) /\ (Len(v.subs) = 0 <=> Count(v) = 0)
        /\ v.subs[1].first = 1 /\ v.subs[Len(v.subs)].last = Count(v)
    BY <1>1, <1>2, <1>3
  <2>2. /\ Len(v.subs) = S /\ Count(v) = N + 1
        /\ \A s \in 1 .. S : /\ v.subs[s].first = F(s)
                             /\ s = S => v.subs[s].last = N + 1
                             /\ s # S => v.subs[s].last = L(s)
    BY <1>3
  <2>. HIDE DEF N, S, F, L
  <2>3. \A s \in 1 .. S : /\ 1 <= v.subs[s].first /\ v.subs[s].first <= v.subs[s].last
                          /\ v.subs[s].last <= N + 1
    <3>. TAKE s \in 1 .. S
    <3>1. F(s) \in Nat /\ L(s) \in 1 .. N /\ F(s) <= L(s) /\ 1 <= F(s) /\ N \in Nat
      BY ONLY <1>1, s \in 1 .. S
    <3>2. /\ v.subs[s].first = F(s)
          /\ v.subs[s].last = N + 1 \/ v.subs[s].last = L(s)
      BY ONLY <2>2, s \in 1 .. S
    <3>. QED BY ONLY <3>1, <3>2
  <2>4. \A s \in 1 .. S : s # S => v.subs[s + 1].first = v.subs[s].last + 1
    <3>. TAKE s \in 1 .. S
    <3>1. s # S => s + 1 \in 1 .. S
      BY ONLY <1>1, s \in 1 .. S
    <3>. QED BY ONLY <3>1, <1>10, <2>2, s \in 1 .. S
  <2>5. \A s, t \in 1 .. S : s < t => v.subs[s].last < v.subs[t].first
    <3>. TAKE s, t \in 1 .. S
    <3>1. s < t => s # S
      BY ONLY <1>1, s \in 1 .. S, t \in 1 .. S
    <3>. QED BY ONLY <3>1, <1>11, <2>2, s \in 1 .. S, t \in 1 .. S
  <2>6. \A e \in 1 .. N + 1 :
          /\ v.subOf[e] \in 1 .. S
          /\ v.subs[v.subOf[e]].first <= e /\ e <= v.subs[v.subOf[e]].last
    <3>. TAKE e \in 1 .. N + 1
    <3>1. CASE e = N + 1
      <4>1. v.subOf[e] = S /\ S \in 1 .. S
        BY <3>1, <1>1, <1>3 DEF N
      <4>2. F(S) <= N + 1
        BY ONLY <1>1, <4>1
      <4>. QED BY ONLY <4>1, <4>2, <3>1, <2>2, <1>1
    <3>2. CASE e \in 1 .. N
      <4>1. v.subOf[e] = u.subOf[e]
        BY <3>2 DEF N
      <4>2. u.subOf[e] \in 1 .. S /\ F(u.subOf[e]) <= e /\ e <= L(u.subOf[e])
        BY ONLY <1>12, <3>2
      <4>. DEFINE t == u.subOf[e]
      <4>3. v.subs[t].first = F(t) /\ (v.subs[t].last = N + 1 \/ v.subs[t].last = L(t))
        BY ONLY <4>2, <2>2
      <4>4. t \in 1 .. S /\ F(t) <= e /\ e <= L(t) /\ v.subOf[e] = t
        BY ONLY <4>1, <4>2
      <4>5. e \in Nat /\ N \in Nat /\ e <= N
        BY ONLY <3>2, <1>1
      <4>. HIDE DEF t
      <4>. QED BY ONLY <4>3, <4>4, <4>5
    <3>. QED BY <3>1, <3>2, <1>1
  <2>. QED BY ONLY <2>1, <2>2, <2>3, <2>4, <2>5, <2>6 DEF Ranges
<1>5. \A e \in 1 .. N : NameOf(v, e) = NameOf(u, e)
  BY <1>12, <1>3 DEF NameOf
<1>6. NameOf(v, N + 1) = u.subs[S].name
  <2>1. v.subOf[N + 1] = S /\ S \in 1 .. S
    BY <1>1, <1>3
  <2>. QED BY <2>1, <1>3 DEF NameOf
<1>7. IsLastOf(u, N, u.subs[S].name)
  <2>1. N \in 1 .. N /\ N # 0
    BY <1>1, <1>2
  <2>2. u.subOf[N] = S
    <3>1. S \in 1 .. S /\ F(S) <= N /\ N <= L(S)
      BY <1>1, <1>2
    <3>. QED BY <3>1, <2>1, RangeOf DEF IsTiled
  <2>. QED BY <2>1, <2>2, <1>1 DEF IsLastOf, NameOf
<1>8. Joins(u, v, N)
  BY <1>1, <1>2 DEF Continues
<1>9. Links(v)
  <2>. DEFINE name == u.subs[S].name
  <2>1. NameOf(v, Count(u) + 1) = name /\ IsLastOf(u, N, name)
    BY <1>6, <1>7
  <2>2. Links(u) /\ Count(u) \in Nat /\ Count(v) = Count(u) + 1
    BY <1>1 DEF IsTiled
  <2>. HIDE DEF name
  <2>. QED BY ONLY <2>1, <2>2, <1>5, <1>8, JoinsLinks
<1>. QED BY <1>4, <1>9 DEF IsTiled

\* What LastEntryOf finds, in a unit whose ranges are right.
LEMMA LastEntryOfIs ==
  ASSUME NEW u, IsUnit(u), Ranges(u), NEW name
  PROVE  IsLastOf(u, LastEntryOf(u, name), name)
<1>. DEFINE N == Count(u)
            S == Len(u.subs)
            m == LastSubSection(u, name)
            F(s) == u.subs[s].first
            L(s) == u.subs[s].last
<1>1. /\ N \in Nat /\ S \in Nat
      /\ \A s \in 1 .. S : F(s) \in Nat /\ L(s) \in 1 .. N /\ F(s) <= L(s)
  BY RangesNumbers
<1>2. \A s, t \in 1 .. S : s < t => L(s) < F(t)
  BY DEF Ranges
<1>3. \A e \in 1 .. N : u.subOf[e] \in 1 .. S /\ F(u.subOf[e]) <= e /\ e <= L(u.subOf[e])
  BY DEF Ranges
<1>4. \/ m = 0 /\ \A s \in 1 .. S : u.subs[s].name # name
      \/ /\ m \in 1 .. S /\ u.subs[m].name = name
         /\ \A s \in 1 .. S : u.subs[s].name = name => s <= m
  <2>. DEFINE own == {s \in 1 .. S : u.subs[s].name = name}
  <2>1. /\ own = {} => m = 0
        /\ own # {} => m \in own /\ \A t \in own : t <= m
    <3>1. Len(u.subs) \in Nat
      BY <1>1
    <3>. QED BY ONLY <3>1, LastSubSectionIs
  <2>. HIDE DEF m
  <2>. QED BY <2>1
<1>5. CASE m = 0
  <2>1. LastEntryOf(u, name) = 0
    BY <1>5 DEF LastEntryOf
  <2>2. \A s \in 1 .. S : u.subs[s].name # name
    <3>. HIDE DEF m, S
    <3>. QED BY ONLY <1>4, <1>5
  <2>3. \A c \in 1 .. N : NameOf(u, c) # name
    BY <2>2, <1>3 DEF NameOf
  <2>. QED BY <2>1, <2>3 DEF IsLastOf
<1>6. CASE m # 0
  <2>1. LastEntryOf(u, name) = L(m)
    BY <1>6 DEF LastEntryOf
  <2>. DEFINE b == L(m)
  <2>. HIDE DEF m, S
  <2>2. /\ m \in 1 .. S /\ u.subs[m].name = name
        /\ \A s \in 1 .. S : u.subs[s].name = name => s <= m
    BY ONLY <1>4, <1>6
  <2>3. b \in 1 .. N /\ F(m) <= b
    BY ONLY <1>1, <2>2
  <2>4. u.subOf[b] = m
    <3>1. m \in 1 .. Len(u.subs) /\ b \in 1 .. Count(u) /\ F(m) <= b /\ b <= L(m)
      BY <2>2, <2>3, <1>1 DEF S
    <3>. QED BY ONLY <3>1, IsUnit(u), Ranges(u), RangeOf
  <2>5. \A c \in b + 1 .. N : NameOf(u, c) # name
    <3>. TAKE c \in b + 1 .. N
    <3>. DEFINE t == u.subOf[c]
    <3>1. c \in 1 .. N /\ b < c
      BY ONLY <2>3, <1>1, c \in b + 1 .. N
    <3>2. t \in 1 .. S /\ F(t) <= c /\ c <= L(t)
      BY ONLY <3>1, <1>3
    <3>. HIDE DEF t
    <3>3. t # m
      BY ONLY <3>1, <3>2, <2>2, <1>1
    <3>4. t < m => L(t) < F(m)
      BY ONLY <3>2, <2>2, <1>2
    <3>5. L(t) \in 1 .. N /\ F(m) \in Nat /\ m \in Nat /\ t \in Nat
      BY ONLY <3>2, <2>2, <1>1
    <3>6. ~(t <= m)
      BY ONLY <3>1, <3>2, <3>3, <3>4, <3>5, <2>3, <1>1
    <3>7. u.subs[t].name # name
      BY ONLY <3>2, <3>6, <2>2
    <3>. QED BY ONLY <3>7 DEF NameOf, t
  <2>6. b # 0 /\ NameOf(u, b) = name
    BY ONLY <2>2, <2>3, <2>4, <1>1 DEF NameOf
  <2>. QED BY ONLY <2>1, <2>3, <2>5, <2>6 DEF IsLastOf, N
<1>. QED BY <1>5, <1>6

LEMMA BeginTiled ==
  ASSUME NEW u, IsUnit(u), IsTiled(u), NEW v, Count(v) = Count(u) + 1,
         NEW name, NEW number, NEW start, Begins(u, v, name, number, start),
         \A d \in 1 .. Count(u) : v.subOf[d] = u.subOf[d],
         v.subOf[Count(u) + 1] = v.cur
  PROVE  IsTiled(v)
<1>. DEFINE N == Count(u)
            S == Len(u.subs)
            F(s) == u.subs[s].first
            L(s) == u.subs[s].last
<1>1. /\ N \in Nat /\ S \in Nat
      /\ \A s \in 1 .. S : F(s) \in Nat /\ L(s) \in 1 .. N /\ F(s) <= L(s) /\ 1 <= F(s)
  BY RangesNumbers DEF IsTiled
<1>2. (S = 0 <=> N = 0) /\ (S # 0 => F(1) = 1 /\ L(S) = N)
  BY DEF IsTiled, Ranges
<1>3. \A s \in 1 .. S : s # S => F(s + 1) = L(s) + 1
  BY DEF IsTiled, Ranges
<1>4. \A s, t \in 1 .. S : s < t => L(s) < F(t)
  BY DEF IsTiled, Ranges
<1>5. \A e \in 1 .. N : u.subOf[e] \in 1 .. S /\ F(u.subOf[e]) <= e /\ e <= L(u.subOf[e])
  BY DEF IsTiled, Ranges
<1>6. /\ Len(v.subs) = S + 1 /\ v.cur = S + 1
      /\ \A s \in 1 .. S : v.subs[s] = u.subs[s]
      /\ v.subs[S + 1].first = N + 1 /\ v.subs[S + 1].last = N + 1
      /\ v.subs[S + 1].name = name
  BY DEF Begins
<1>7. Count(v) = N + 1 /\ v.subOf[N + 1] = S + 1
      /\ \A d \in 1 .. N : v.subOf[d] = u.subOf[d]
  BY <1>6
<1>8. Ranges(v)
  <2>. DEFINE f(s) == v.subs[s].first
              l(s) == v.subs[s].last
  <2>1. /\ \A s \in 1 .. S : f(s) = F(s) /\ l(s) = L(s)
        /\ f(S + 1) = N + 1 /\ l(S + 1) = N + 1
    BY <1>6
  <2>2. \A s \in 1 .. S + 1 : s \in 1 .. S \/ s = S + 1
    BY <1>1
  <2>. HIDE DEF N, S, F, L, f, l
  <2>3. \A s \in 1 .. S + 1 : 1 <= f(s) /\ f(s) <= l(s) /\ l(s) <= N + 1
    <3>. TAKE s \in 1 .. S + 1
    <3>1. CASE s = S + 1
      BY ONLY <3>1, <2>1, <1>1
    <3>2. CASE s \in 1 .. S
      <4>1. F(s) \in Nat /\ L(s) \in 1 .. N /\ F(s) <= L(s) /\ 1 <= F(s) /\ N \in Nat
        BY ONLY <3>2, <1>1
      <4>. QED BY ONLY <4>1, <3>2, <2>1
    <3>. QED BY <3>1, <3>2, <2>2
  <2>4. \A s \in 1 .. S + 1 : s # S + 1 => f(s + 1) = l(s) + 1
    <3>. TAKE s \in 1 .. S + 1
    <3>1. CASE s = S
      <4>1. s \in 1 .. S /\ S # 0
        BY ONLY <3>1, <1>1, s \in 1 .. S + 1
      <4>. QED BY ONLY <4>1, <3>1, <2>1, <1>2
    <3>2. CASE s \in 1 .. S /\ s # S
      <4>1. s + 1 \in 1 .. S
        BY ONLY <3>2, <1>1
      <4>. QED BY ONLY <4>1, <3>2, <2>1, <1>3
    <3>. QED BY <3>1, <3>2, <2>2
  <2>5. \A s, t \in 1 .. S + 1 : s < t => l(s) < f(t)
    <3>. TAKE s, t \in 1 .. S + 1
    <3>. SUFFICES ASSUME s < t PROVE l(s) < f(t)
      OBVIOUS
    <3>1. s \in 1 .. S
      BY ONLY <1>1, s < t, s \in 1 .. S + 1, t \in 1 .. S + 1
    <3>2. CASE t = S + 1
      <4>1. L(s) \in 1 .. N /\ N \in Nat
        BY ONLY <3>1, <1>1
      <4>. QED BY ONLY <4>1, <3>1, <3>2, <2>1
    <3>3. CASE t \in 1 .. S
      BY ONLY <3>1, <3>3, <2>1, <1>4, s < t
    <3>. QED BY <3>2, <3>3, <2>2
  <2>6. \A e \in 1 .. N + 1 :
          v.subOf[e] \in 1 .. S + 1 /\ f(v.subOf[e]) <= e /\ e <= l(v.subOf[e])
    <3>. TAKE e \in 1 .. N + 1
    <3>1. CASE e = N + 1
      BY ONLY <3>1, <2>1, <1>1, <1>7
    <3>2. CASE e \in 1 .. N
      <4>. DEFINE t == u.subOf[e]
      <4>1. v.subOf[e] = t
        BY ONLY <3>2, <1>7
      <4>2. t \in 1 .. S /\ F(t) <= e /\ e <= L(t)
        BY ONLY <3>2, <1>5
      <4>. HIDE DEF t
      <4>3. f(t) = F(t) /\ l(t) = L(t) /\ t \in 1 .. S + 1
        BY ONLY <4>2, <2>1, <1>1
      <4>. QED BY ONLY <4>1, <4>2, <4>3
    <3>. QED BY <3>1, <3>2, <1>1
  <2>7. /\ v.cur = Len(v.subs) /\ (Len(v.subs) = 0 <=> Count(v) = 0)
        /\ f(1) = 1 /\ l(Len(v.subs)) = Count(v)
    <3>1. S # 0 => 1 \in 1 .. S
      BY ONLY <1>1
    <3>2. f(1) = 1
      BY ONLY <3>1, <2>1, <1>1, <1>2
    <3>. QED BY ONLY <3>2, <2>1, <1>1, <1>6, <1>7
  <2>8. Len(v.subs) = S + 1 /\ Count(v) = N + 1
    BY ONLY <1>6, <1>7
  <2>. QED BY ONLY <2>3, <2>4, <2>5, <2>6, <2>7, <2>8 DEF Ranges, f, l
<1>9. \A e \in 1 .. N : NameOf(v, e) = NameOf(u, e)
  BY <1>5, <1>6, <1>7 DEF NameOf
<1>10. NameOf(v, N + 1) = name
  BY <1>6, <1>7 DEF NameOf
<1>11. Links(v)
  <2>. DEFINE b == LastEntryOf(u, name)
  <2>1. Joins(u, v, b)
    BY DEF Begins
  <2>2. IsLastOf(u, b, name)
    BY LastEntryOfIs DEF IsTiled
  <2>3. Links(u) /\ Count(u) \in Nat
    BY <1>1 DEF IsTiled
  <2>. HIDE DEF b
  <2>. QED BY ONLY <2>1, <2>2, <2>3, <1>7, <1>9, <1>10, JoinsLinks
<1>. QED BY <1>8, <1>11 DEF IsTiled

\* A unit between two callbacks.
Tidy(u) == IsUnit(u) /\ IsMapped(u) /\ IsTiled(u)

LEMMA AddEntryTidy ==
  ASSUME NEW u, Tidy(u), NEW op \in Ops, op.kind = "subsection" => u.cur # 0
  PROVE  Tidy(AddEntry(u, op)) /\ AddEntry(u, op).cur # 0
<1>. DEFINE v == AddEntry(u, op)
<1>1. Grows(u, v, op) /\ Appends(u, v, op)
  BY AddEntryGrows, AddEntryUnit, TiledLinkable DEF Tidy
<1>. HIDE DEF v
<1>2. /\ IsUnit(v) /\ IsMapped(v) /\ v.cur # 0 /\ Count(v) = Count(u) + 1
      /\ \A d \in 1 .. Count(u) : v.subOf[d] = u.subOf[d]
      /\ v.subOf[Count(u) + 1] = v.cur
  BY <1>1 DEF Appends, Count
<1>3. CASE StartsOne(u, op)
  <2>1. Begins(u, v, NewName(u, op), NewNumber(op), NewStart(op))
    BY <1>1, <1>3 DEF Grows
  <2>2. IsTiled(v)
    BY <1>2, <2>1, BeginTiled DEF Tidy
  <2>. QED BY <1>2, <2>2 DEF Tidy, v
<1>4. CASE ~StartsOne(u, op)
  <2>1. Continues(u, v)
    BY <1>1, <1>4 DEF Grows
  <2>2. IsTiled(v)
    BY <1>2, <2>1, ContinueTiled DEF Tidy
  <2>. QED BY <1>2, <2>2 DEF Tidy, v
<1>. QED BY <1>3, <1>4

\* v is u but for its stack and its previous subsection.
SameText(u, v) ==
  /\ v.entries = u.entries /\ v.next = u.next /\ v.prev = u.prev
  /\ v.subOf = u.subOf /\ v.subs = u.subs /\ v.cur = u.cur

LEMMA SameTidy ==
  ASSUME NEW u, Tidy(u), NEW v, IsUnit(v), IsMapped(v), SameText(u, v)
  PROVE  Tidy(v)
<1>1. Ranges(v)
  BY DEF Tidy, IsTiled, Ranges, SameText, Count
<1>2. Links(v)
  <2>1. Links(u)
    BY DEF Tidy, IsTiled
  <2>2. Count(v) = Count(u) /\ \A c : NameOf(v, c) = NameOf(u, c)
    BY DEF SameText, Count, NameOf
  <2>3. LinkTypes(v) /\ \A e : v.next[e] = u.next[e] /\ v.prev[e] = u.prev[e]
    BY <2>1, <2>2 DEF Links, LinkTypes, SameText
  <2>4. ASSUME NEW e \in 1 .. Count(v)
        PROVE  IsNext(v, e, v.next[e]) /\ IsPrev(v, e, v.prev[e])
    <3>1. IsNext(u, e, u.next[e]) /\ IsPrev(u, e, u.prev[e])
      BY <2>1, <2>2 DEF Links
    <3>2. IsNext(v, e, u.next[e])
      BY ONLY <3>1, <2>2 DEF IsNext
    <3>3. IsPrev(v, e, u.prev[e])
      BY ONLY <3>1, <2>2 DEF IsPrev
    <3>. QED BY ONLY <3>2, <3>3, <2>3
  <2>. QED BY ONLY <2>3, <2>4 DEF Links
<1>. QED BY <1>1, <1>2 DEF Tidy, IsTiled

LEMMA PushTidy ==
  ASSUME NEW u, Tidy(u), u.cur # 0
  PROVE  Tidy(Push(u)) /\ Push(u).cur # 0
<1>1. IsUnit(Push(u)) /\ IsMapped(Push(u))
  BY PushUnit DEF Tidy
<1>2. SameText(u, Push(u))
  BY DEF Tidy, IsUnit, Push, Fields, SameText
<1>. QED BY <1>1, <1>2, SameTidy DEF SameText

LEMMA PopTidy ==
  ASSUME NEW u, Tidy(u), u.stack # <<>>
  PROVE  Tidy(Popped(u)) /\ Popped(u).subs = u.subs
<1>1. IsUnit(Popped(u)) /\ IsMapped(Popped(u))
  BY PoppedUnit DEF Tidy
<1>2. SameText(u, Popped(u))
  BY DEF Tidy, IsUnit, Popped, Fields, SameText
<1>. QED BY <1>1, <1>2, SameTidy DEF SameText

LEMMA PreviousTidy ==
  ASSUME NEW u, Tidy(u), NEW s \in 0 .. Len(u.subs)
  PROVE  Tidy([u EXCEPT !.prv = s])
<1>. DEFINE v == [u EXCEPT !.prv = s]
<1>1. IsUnit(v) /\ IsMapped(v)
  BY PreviousUnit DEF Tidy
<1>2. SameText(u, v)
  BY DEF Tidy, IsUnit, Fields, SameText
<1>. HIDE DEF v
<1>3. Tidy(v)
  BY <1>1, <1>2, SameTidy
<1>. QED BY <1>3 DEF v

LEMMA NamedTidy ==
  ASSUME NEW u, Tidy(u), NEW name \in EntryNames
  PROVE  LET v == AddEntry(u, Named("section", name)) IN Tidy(v) /\ v.cur # 0
<1>. DEFINE op == Named("section", name)
<1>1. op \in Ops /\ op.kind = "section"
  BY Operations
<1>. HIDE DEF op
<1>2. Tidy(AddEntry(u, op)) /\ AddEntry(u, op).cur # 0
  BY <1>1, AddEntryTidy
<1>. QED BY <1>2 DEF op

LEMMA NumberedTidy ==
  ASSUME NEW u, Tidy(u), u.cur # 0, NEW n \in Nat
  PROVE  Tidy(AddEntry(u, Numbered("subsection", n)))
<1>. DEFINE op == Numbered("subsection", n)
<1>1. op \in Ops /\ op.kind = "subsection"
  BY Operations
<1>. HIDE DEF op
<1>2. Tidy(AddEntry(u, op))
  BY <1>1, AddEntryTidy
<1>. QED BY <1>2 DEF op

LEMMA ReopenTidy ==
  ASSUME NEW u, Tidy(u), NEW s \in SubSections
  PROVE  Tidy(Reopen(u, s))
<1>. DEFINE v == AddEntry(u, Named("section", s.name))
<1>1. s.name \in EntryNames /\ s.number \in Nat
  BY DEF SubSections
<1>2. Tidy(v) /\ v.cur # 0
  BY <1>1, NamedTidy
<1>3. Reopen(u, s) = IF s.number = 0 THEN v ELSE AddEntry(v, Numbered("subsection", s.number))
  BY DEF Reopen
<1>. HIDE DEF v
<1>4. Tidy(AddEntry(v, Numbered("subsection", s.number)))
  BY <1>1, <1>2, NumberedTidy
<1>. QED BY <1>2, <1>3, <1>4

\* The unit is well formed, and tiled unless `first' is lost.
TidyInv == TypeInv /\ TiledInv

LEMMA TidyUnit ==
  ASSUME TidyInv, "first" \notin lost
  PROVE  /\ Tidy(unit)
         /\ unit.cur \in 0 .. Len(unit.subs) /\ unit.prv \in 0 .. Len(unit.subs)
         /\ unit.subs \in Seq(SubSections)
BY DEF TidyInv, TypeInv, TiledInv, Tidy, IsUnit

LEMMA TiledStep ==
  ASSUME TidyInv, Next
  PROVE  TiledInv'
<1>. SUFFICES ASSUME "first" \notin lost' PROVE IsTiled(unit')
  BY DEF TiledInv
<1>1. ASSUME NEW op \in Ops, ContentsKind(op), Contents(op)
      PROVE  IsTiled(unit')
  <2>1. unit' = AddEntry(unit, op) /\ lost' = lost
    BY <1>1 DEF Contents, Linked
  <2>2. Tidy(AddEntry(unit, op))
    <3>1. Tidy(unit) /\ op.kind # "subsection"
      BY <1>1, <2>1, TidyUnit DEF ContentsKind
    <3>. QED BY <3>1, AddEntryTidy
  <2>. QED BY <2>1, <2>2 DEF Tidy
<1>2. ASSUME NEW name \in Names, NEW n \in Numbers, OpenSection(name, n)
      PROVE  IsTiled(unit')
  <2>1. unit' = AddEntry(unit, Named("section", name)) /\ "first" \notin lost
    BY <1>2 DEF OpenSection, Linked
  <2>2. name \in EntryNames
    BY DEF EntryNames
  <2>3. Tidy(unit')
    BY <2>1, <2>2, TidyUnit, NamedTidy
  <2>. QED BY <2>3 DEF Tidy
<1>3. ASSUME NEW n \in Numbers, OpenSubSection(n)
      PROVE  IsTiled(unit')
  <2>1. /\ unit' = AddEntry(unit, Numbered("subsection", n))
        /\ "first" \notin lost /\ unit.cur # 0
    BY <1>3 DEF OpenSubSection, Linked
  <2>2. n \in Nat
    BY NumbersAssumption
  <2>3. Tidy(unit')
    BY <2>1, <2>2, TidyUnit, NumberedTidy
  <2>. QED BY <2>3 DEF Tidy
<1>4. ASSUME NEW name \in Names, NEW n \in Numbers, PushSection(name, n)
      PROVE  IsTiled(unit')
  <2>1. CASE unit.cur = 0
    <3>1. unit' = unit /\ lost' = lost
      BY <1>4, <2>1 DEF PushSection, Abort
    <3>. QED BY <3>1 DEF TidyInv, TiledInv
  <2>2. CASE unit.cur # 0
    <3>. DEFINE p == Push(unit)
                u == AddEntry(p, Named("section", name))
    <3>1. /\ unit' = IF n = 0 THEN u ELSE AddEntry(u, Numbered("subsection", n))
          /\ "first" \notin lost
      BY <1>4, <2>2 DEF PushSection, Linked
    <3>2. name \in EntryNames /\ n \in Nat
      BY NumbersAssumption DEF EntryNames
    <3>3. Tidy(p)
      BY <2>2, <3>1, TidyUnit, PushTidy
    <3>. HIDE DEF p
    <3>4. Tidy(u) /\ u.cur # 0
      BY <3>2, <3>3, NamedTidy
    <3>. HIDE DEF u
    <3>5. Tidy(AddEntry(u, Numbered("subsection", n)))
      BY <3>2, <3>4, NumberedTidy
    <3>. QED BY <3>1, <3>4, <3>5 DEF Tidy
  <2>. QED BY <2>1, <2>2
<1>5. CASE PopSection
  <2>. DEFINE p == Popped(unit)
              top == Top(unit.stack)
              s == unit.subs[top[1]]
              u == Reopen(p, s)
  <2>1. unit' = [u EXCEPT !.prv = top[2]] /\ "first" \notin lost /\ gasStack # <<>>
    BY <1>5 DEF PopSection, Pop, Popped, Linked
  <2>2. Tidy(unit) /\ IsUnit(unit) /\ IsMapped(unit)
    BY <2>1, TidyUnit DEF Tidy
  <2>3. /\ unit.stack # <<>> /\ unit.stack \in Seq(Nat \X Nat)
        /\ Len(unit.stack) \in 1 .. Len(unit.stack) /\ top = unit.stack[Len(unit.stack)]
    <3>1. /\ gasStack \in Seq(Places \X (Places \cup {None}))
          /\ Len(gasStack) <= Len(unit.stack)
          /\ unit.stack \in Seq(Nat \X Nat)
      BY <2>2 DEF TidyInv, TypeInv, IsUnit
    <3>2. Len(gasStack) \in Nat \ {0} /\ Len(unit.stack) \in Nat
      BY <2>1, <3>1, EmptySeq, LenProperties
    <3>3. unit.stack # <<>>
      BY ONLY <3>1, <3>2, EmptySeq
    <3>. QED BY <3>1, <3>2, <3>3 DEF Top
  <2>4. top[1] \in 1 .. Len(unit.subs) /\ top[2] \in 0 .. Len(unit.subs)
    <3>. HIDE DEF top
    <3>. QED BY ONLY <2>2, <2>3 DEF IsUnit
  <2>. HIDE DEF top
  <2>5. s \in SubSections
    BY <2>2, <2>4, ElementOfSeq DEF IsUnit
  <2>. HIDE DEF s
  <2>6. Tidy(p) /\ p.subs = unit.subs
    BY <2>2, <2>3, PopTidy
  <2>. HIDE DEF p
  <2>7. Tidy(u)
    BY <2>5, <2>6, ReopenTidy
  <2>8. top[2] \in 0 .. Len(u.subs)
    <3>1. Extends(p, u)
      BY <2>5, <2>6, ReopenReturns DEF Tidy, Returns
    <3>2. Len(unit.subs) \in Nat /\ Len(u.subs) \in Nat /\ Len(unit.subs) <= Len(u.subs)
      BY <3>1, <2>2, <2>6, <2>7, LenProperties DEF Tidy, IsUnit, Extends
    <3>. QED BY <3>2, <2>4
  <2>. HIDE DEF u
  <2>9. Tidy(unit')
    BY <2>1, <2>7, <2>8, PreviousTidy
  <2>. QED BY <2>9 DEF Tidy
<1>6. CASE PreviousSection
  <2>1. CASE unit.prv = 0
    <3>1. unit' = unit /\ lost' = lost
      BY <1>6, <2>1 DEF PreviousSection, Abort
    <3>. QED BY <3>1 DEF TidyInv, TiledInv
  <2>2. CASE unit.prv # 0
    <3>. DEFINE name == unit.subs[unit.prv].name
    <3>1. unit' = AddEntry(unit, Named("section", name)) /\ "first" \notin lost
      BY <1>6, <2>2 DEF PreviousSection, SetPrevious, Linked
    <3>2. name \in EntryNames
      <4>1. unit.prv \in 1 .. Len(unit.subs) /\ unit.subs \in Seq(SubSections)
        BY <2>2, <3>1, TidyUnit
      <4>2. unit.subs[unit.prv] \in SubSections
        BY <4>1, ElementOfSeq
      <4>. QED BY <4>2 DEF SubSections
    <3>. HIDE DEF name
    <3>3. Tidy(unit')
      BY <3>1, <3>2, TidyUnit, NamedTidy
    <3>. QED BY <3>3 DEF Tidy
  <2>. QED BY <2>1, <2>2
<1>7. CASE OpenStruct
  <2>1. CASE unit.cur = 0
    <3>1. unit' = unit /\ lost' = lost
      BY <1>7, <2>1 DEF OpenStruct, Abort
    <3>. QED BY <3>1 DEF TidyInv, TiledInv
  <2>2. CASE unit.cur # 0
    <3>. DEFINE p == Push(unit)
                op == Statement("struct")
    <3>1. unit' = AddEntry(p, op) /\ "first" \notin lost
      BY <1>7, <2>2 DEF OpenStruct, Linked
    <3>2. op \in Ops /\ op.kind # "subsection"
      BY Operations DEF Kinds
    <3>3. Tidy(p)
      BY <2>2, <3>1, TidyUnit, PushTidy
    <3>. HIDE DEF p, op
    <3>4. Tidy(unit')
      BY <3>1, <3>2, <3>3, AddEntryTidy
    <3>. QED BY <3>4 DEF Tidy
  <2>. QED BY <2>1, <2>2
<1>. QED BY <1>1, <1>2, <1>3, <1>4, <1>5, <1>6, <1>7, ContentsNext
         DEF Next, SectionStatement

LEMMA TiledInit == Init => TiledInv
<1>. SUFFICES ASSUME Init PROVE IsTiled(unit)
  BY DEF TiledInv
<1>1. /\ unit.entries = <<>> /\ unit.next = <<>> /\ unit.prev = <<>> /\ unit.subs = <<>>
      /\ unit.cur = 0
  BY DEF Init, NoUnit
<1>2. Ranges(unit)
  BY <1>1 DEF Ranges, Count
<1>3. Links(unit)
  BY <1>1 DEF Links, LinkTypes, Count
<1>. QED BY <1>2, <1>3 DEF IsTiled

LEMMA TiledInvariant == Spec => []TiledInv
<1>1. TypeInv /\ TiledInv /\ [Next]_vars => TiledInv'
  <2>1. CASE UNCHANGED vars
    BY <2>1 DEF vars, TiledInv
  <2>. QED BY <2>1, TiledStep DEF TidyInv
<1>. QED BY <1>1, TiledInit, SectionTypes, PTL DEF Spec

-----------------------------------------------------------------------------
(* PrintMaoUnit writes the entries of a tiled unit in the order read.      *)

\* Where PrintMaoUnit is in subsection s after k entries, and up to n.
PrintStep(s, at, k) ==
  IF k = 0 THEN unit.subs[s].first
  ELSE IF at[k - 1] = 0 THEN 0 ELSE unit.next[at[k - 1]]
IsPrint(s, at, n) == at = [k \in 0 .. n |-> PrintStep(s, at, k)]

\* The recursive function that Prints chooses exists.
LEMMA PrintExists ==
  ASSUME NEW s, NEW N \in Nat
  PROVE  \E at : IsPrint(s, at, N)
<1>. DEFINE T == {n \in Nat : ~ \E at : IsPrint(s, at, n)}
<1>. SUFFICES ASSUME T # {} PROVE FALSE
  OBVIOUS
<1>1. PICK n \in T : \A m \in T : n <= m
  <2>1. T \in SUBSET Nat
    OBVIOUS
  <2>. QED BY <2>1, LeastNat
<1>2. n \in Nat /\ ~ \E at : IsPrint(s, at, n)
  OBVIOUS
<1>3. PICK g : n > 0 => IsPrint(s, g, n - 1)
  <2>1. n > 0 => n - 1 \in Nat /\ n - 1 \notin T
    BY <1>1, <1>2
  <2>. QED BY <2>1
<1>. DEFINE at == [k \in 0 .. n |-> IF k = n THEN PrintStep(s, g, n) ELSE g[k]]
<1>4. \A k \in 0 .. n : k # n => g[k] = PrintStep(s, g, k)
  BY <1>2, <1>3 DEF IsPrint
<1>5. \A k \in 0 .. n : PrintStep(s, at, k) = PrintStep(s, g, k)
  <2>. SUFFICES ASSUME NEW k \in 0 .. n PROVE PrintStep(s, at, k) = PrintStep(s, g, k)
    OBVIOUS
  <2>1. k = 0 \/ at[k - 1] = g[k - 1]
    BY <1>2
  <2>. HIDE DEF at
  <2>. QED BY <2>1 DEF PrintStep
<1>6. \A k \in 0 .. n : at[k] = PrintStep(s, at, k)
  <2>1. \A k \in 0 .. n : at[k] = PrintStep(s, g, k)
    BY <1>4
  <2>. HIDE DEF at
  <2>. QED BY <2>1, <1>5
<1>7. IsPrint(s, at, n)
  <2>1. at = [k \in 0 .. n |-> at[k]]
    OBVIOUS
  <2>. HIDE DEF at
  <2>. QED BY <2>1, <1>6 DEF IsPrint
<1>. QED BY <1>2, <1>7

\* Inside a subsection next_ is the entry behind; at its end it leads out.
LEMMA NextInside ==
  ASSUME IsUnit(unit), IsTiled(unit), NEW s \in 1 .. Len(unit.subs)
  PROVE  /\ \A e \in unit.subs[s].first .. unit.subs[s].last - 1 : unit.next[e] = e + 1
         /\ unit.next[unit.subs[s].last] # 0 =>
              unit.next[unit.subs[s].last] \in unit.subs[s].last + 1 .. Count(unit)
<1>1. /\ Count(unit) \in Nat /\ unit.subs[s].first \in Nat
      /\ unit.subs[s].last \in 1 .. Count(unit)
      /\ unit.subs[s].first <= unit.subs[s].last /\ 1 <= unit.subs[s].first
  BY RangesNumbers DEF IsTiled
<1>2. \A e \in 1 .. Count(unit) : IsNext(unit, e, unit.next[e])
  BY DEF IsTiled, Links
<1>3. ASSUME NEW e \in unit.subs[s].first .. unit.subs[s].last - 1
      PROVE  unit.next[e] = e + 1
  <2>1. e \in 1 .. Count(unit) /\ e + 1 \in 1 .. Count(unit) /\ e + 1 # 0 /\ e \in Nat
    BY <1>1, <1>3
  <2>2. unit.subOf[e] = s /\ unit.subOf[e + 1] = s
    <3>1. /\ unit.subs[s].first <= e /\ e <= unit.subs[s].last
          /\ unit.subs[s].first <= e + 1 /\ e + 1 <= unit.subs[s].last
      BY <1>1, <1>3
    <3>2. \A c \in 1 .. Count(unit) :
            unit.subs[s].first <= c /\ c <= unit.subs[s].last => unit.subOf[c] = s
      BY RangeOf DEF IsTiled
    <3>. QED BY <2>1, <3>1, <3>2
  <2>3. NameOf(unit, e + 1) = NameOf(unit, e)
    BY <2>2 DEF NameOf
  <2>4. IsNext(unit, e, unit.next[e])
    BY <1>2, <2>1
  <2>. DEFINE d == unit.next[e]
  <2>5. d # 0
    BY <2>1, <2>3, <2>4, <1>1 DEF IsNext
  <2>6. d \in e + 1 .. Count(unit) /\ ~(e + 1 \in e + 1 .. d - 1)
    BY <2>3, <2>4, <2>5 DEF IsNext
  <2>. HIDE DEF d
  <2>7. d = e + 1
    BY <2>1, <2>6, <1>1
  <2>. QED BY <2>7 DEF d
<1>4. IsNext(unit, unit.subs[s].last, unit.next[unit.subs[s].last])
  BY <1>1, <1>2
<1>5. unit.next[unit.subs[s].last] # 0 =>
        unit.next[unit.subs[s].last] \in unit.subs[s].last + 1 .. Count(unit)
  BY <1>4 DEF IsNext
<1>. QED BY <1>3, <1>5

\* The entries from one to another.
Interval(i, j) == [k \in 1 .. j - i + 1 |-> i + k - 1]

\* A subsection prints its range.
LEMMA PrintsRange ==
  ASSUME IsUnit(unit), IsTiled(unit), NEW s \in 1 .. Len(unit.subs)
  PROVE  Prints(s) = Interval(unit.subs[s].first, unit.subs[s].last)
<1>. DEFINE N == Len(unit.entries)
            first == unit.subs[s].first
            last == unit.subs[s].last
            at == CHOOSE g : IsPrint(s, g, N)
            end == unit.next[last]
            stops == {k \in DOMAIN at : at[k] = end}
            IsLeast(k) == \A j \in stops : k <= j
            stop == IF stops = {} THEN N + 1 ELSE CHOOSE k \in stops : IsLeast(k)
            M == last - first + 1
<1>1. Prints(s) = [k \in 1 .. stop |-> at[k - 1]]
  BY DEF Prints, IsPrint, PrintStep
<1>2. IsPrint(s, at, N)
  <2>1. N \in Nat
    BY LenProperties DEF IsUnit
  <2>. QED BY <2>1, PrintExists
<1>3. /\ N \in Nat /\ first \in Nat /\ last \in 1 .. N /\ first <= last /\ 1 <= first
  BY RangesNumbers DEF IsTiled, Count
<1>4. /\ \A e \in first .. last - 1 : unit.next[e] = e + 1
      /\ end # 0 => end \in last + 1 .. N
  BY NextInside DEF Count
<1>. HIDE DEF at, N, first, last, end
<1>5. DOMAIN at = 0 .. N /\ \A k \in 0 .. N : at[k] = PrintStep(s, at, k)
  BY <1>2 DEF IsPrint
<1>6. /\ at[0] = first
      /\ \A k \in 1 .. N : at[k - 1] # 0 => at[k] = unit.next[at[k - 1]]
  BY <1>3, <1>5 DEF PrintStep, first
<1>7. \A k \in 0 .. last - first : at[k] = first + k
  <2>. DEFINE T == {k \in Nat : k <= last - first /\ at[k] # first + k}
  <2>. SUFFICES T = {}
    BY <1>3
  <2>. SUFFICES ASSUME T # {} PROVE FALSE
    OBVIOUS
  <2>1. PICK k \in T : \A j \in T : k <= j
    <3>1. T \in SUBSET Nat
      OBVIOUS
    <3>. QED BY <3>1, LeastNat
  <2>2. k # 0
    BY <1>3, <1>6
  <2>3. k - 1 \in Nat /\ k - 1 \notin T /\ k - 1 <= last - first
    BY <2>1, <2>2, <1>3
  <2>4. at[k - 1] = first + (k - 1)
    BY <2>3
  <2>5. at[k] = unit.next[at[k - 1]]
    BY <2>1, <2>2, <2>4, <1>3, <1>6
  <2>6. first + (k - 1) \in first .. last - 1
    BY <2>1, <2>2, <1>3
  <2>7. at[k] = first + (k - 1) + 1
    BY <2>4, <2>5, <2>6, <1>4
  <2>. QED BY <2>1, <2>7, <1>3
<1>8. M \in Nat /\ M \in stops /\ \A k \in stops : M <= k
  <2>1. M \in 1 .. N /\ M - 1 = last - first /\ M - 1 \in 0 .. last - first
    BY <1>3
  <2>2. at[M - 1] = last
    BY <2>1, <1>3, <1>7
  <2>3. at[M] = end
    <3>1. at[M] = unit.next[at[M - 1]]
      <4>1. at[M - 1] # 0
        BY <2>2, <1>3
      <4>. QED BY ONLY <2>1, <4>1, <1>6
    <3>. QED BY <3>1, <2>2 DEF end
  <2>4. \A k \in 0 .. N : k < M => at[k] # end
    <3>1. \A k \in 0 .. N : k < M => at[k] = first + k /\ first + k <= last /\ first + k # 0
      BY <2>1, <1>3, <1>7
    <3>. QED BY <3>1, <1>3, <1>4
  <2>. QED BY <2>1, <2>3, <2>4, <1>3, <1>5
<1>9. stop = M
  <2>. HIDE DEF M, stops, IsLeast
  <2>1. IsLeast(M)
    BY <1>8 DEF IsLeast
  <2>2. stop \in stops /\ IsLeast(stop)
    BY <2>1, <1>8
  <2>3. \A k \in stops : k \in Int
    BY <1>3, <1>5 DEF stops
  <2>. HIDE DEF stop
  <2>4. stop <= M /\ M <= stop
    BY <2>2, <1>8 DEF IsLeast
  <2>. QED BY <2>2, <2>3, <2>4, <1>8
<1>10. \A k \in 1 .. M : at[k - 1] = first + k - 1
  BY <1>3, <1>7
<1>. HIDE DEF stop
<1>. QED BY <1>1, <1>3, <1>9, <1>10 DEF first, last, Interval

\* Written's function up to subsection s, which the entries before the next
\* subsection are.
UpToStep(at, s) == IF s = 0 THEN <<>> ELSE at[s - 1] \o Prints(s)
IsUpTo(at, S) == at = [s \in 0 .. S |-> UpToStep(at, s)]
Ident(n) == [e \in 1 .. n |-> e]

LEMMA IdentConcat ==
  ASSUME NEW a \in Nat, NEW f \in Nat, NEW b \in Nat, a < f, f <= a + 1, f <= b
  PROVE  Ident(a) \o Interval(f, b) = Ident(b)
<1>. DEFINE p == Ident(a)
            q == Interval(f, b)
            r == Ident(b)
<1>1. p \in Seq(Nat) /\ Len(p) = a /\ \A k \in 1 .. a : p[k] = k
  BY DEF Ident
<1>2. q \in Seq(Nat) /\ Len(q) = b - a /\ \A k \in 1 .. b - a : q[k] = a + k
  BY DEF Interval
<1>3. r \in Seq(Nat) /\ Len(r) = b /\ \A k \in 1 .. b : r[k] = k
  BY DEF Ident
<1>. HIDE DEF p, q, r
<1>4. /\ p \o q \in Seq(Nat) /\ Len(p \o q) = Len(p) + Len(q)
      /\ \A k \in 1 .. Len(p) + Len(q) :
           (p \o q)[k] = IF k <= Len(p) THEN p[k] ELSE q[k - Len(p)]
  BY <1>1, <1>2, ConcatProperties
<1>5. Len(p) + Len(q) = b
  BY <1>1, <1>2
<1>6. \A k \in 1 .. b : (p \o q)[k] = r[k]
  <2>. SUFFICES ASSUME NEW k \in 1 .. b PROVE (p \o q)[k] = r[k]
    OBVIOUS
  <2>1. (p \o q)[k] = IF k <= a THEN p[k] ELSE q[k - a]
    BY <1>1, <1>4, <1>5
  <2>2. k <= a => p[k] = k
    BY <1>1
  <2>3. ~(k <= a) => q[k - a] = k
    <3>1. ~(k <= a) => k - a \in 1 .. b - a /\ a + (k - a) = k
      OBVIOUS
    <3>. QED BY <3>1, <1>2
  <2>. QED BY <2>1, <2>2, <2>3, <1>3
<1>7. p \o q = r
  BY <1>3, <1>4, <1>5, <1>6, SeqEqual
<1>. QED BY <1>7 DEF p, q, r

\* The written file is every entry once, in the order read.
LEMMA WrittenIs ==
  ASSUME IsUnit(unit), IsTiled(unit)
  PROVE  Written = Ident(Count(unit))
<1>. DEFINE S == Len(unit.subs)
            End(s) == IF s = 0 THEN 0 ELSE unit.subs[s].last
            ends == [s \in 0 .. S |-> Ident(End(s))]
            at == CHOOSE g : IsUpTo(g, S)
<1>1. Written = at[S]
  BY DEF Written, IsUpTo, UpToStep
<1>2. /\ S \in Nat /\ End(0) = 0 /\ End(S) = Count(unit)
      /\ \A s \in 1 .. S : unit.subs[s].first = End(s - 1) + 1
      /\ \A s \in 1 .. S : End(s - 1) \in Nat /\ End(s) \in Nat /\ End(s - 1) < End(s)
  <2>1. /\ S \in Nat /\ Count(unit) \in Nat
        /\ \A s \in 1 .. S : /\ unit.subs[s].first \in Nat
                             /\ unit.subs[s].last \in 1 .. Count(unit)
                             /\ unit.subs[s].first <= unit.subs[s].last
    BY RangesNumbers DEF IsTiled
  <2>2. /\ S = 0 <=> Count(unit) = 0
        /\ S # 0 => unit.subs[1].first = 1 /\ unit.subs[S].last = Count(unit)
        /\ \A s \in 1 .. S : s # S => unit.subs[s + 1].first = unit.subs[s].last + 1
    BY DEF IsTiled, Ranges
  <2>3. End(0) = 0 /\ End(S) = Count(unit)
    BY <2>2
  <2>4. \A s \in 1 .. S : unit.subs[s].first = End(s - 1) + 1
    <3>. SUFFICES ASSUME NEW s \in 1 .. S PROVE unit.subs[s].first = End(s - 1) + 1
      OBVIOUS
    <3>1. CASE s = 1
      BY <3>1, <2>2
    <3>2. CASE s # 1
      <4>1. s - 1 \in 1 .. S /\ s - 1 # S /\ (s - 1) + 1 = s
        BY <3>2, <2>1
      <4>2. unit.subs[(s - 1) + 1].first = unit.subs[s - 1].last + 1
        BY <4>1, <2>2
      <4>. QED BY <4>1, <4>2
    <3>. QED BY <3>1, <3>2
  <2>5. \A s \in 1 .. S : End(s - 1) \in Nat /\ End(s) \in Nat /\ End(s - 1) < End(s)
    <3>. SUFFICES ASSUME NEW s \in 1 .. S
                  PROVE  End(s - 1) \in Nat /\ End(s) \in Nat /\ End(s - 1) < End(s)
      OBVIOUS
    <3>1. End(s) = unit.subs[s].last /\ End(s) \in Nat
      BY <2>1
    <3>2. s - 1 # 0 => s - 1 \in 1 .. S
      BY <2>1
    <3>3. End(s - 1) \in Nat
      BY <3>2, <2>1
    <3>4. unit.subs[s].first = End(s - 1) + 1 /\ unit.subs[s].first <= End(s)
      BY <2>1, <2>4
    <3>. HIDE DEF End
    <3>. QED BY <3>1, <3>3, <3>4
  <2>. QED BY <2>1, <2>3, <2>4, <2>5
<1>3. \A s \in 1 .. S : Prints(s) = Interval(unit.subs[s].first, End(s))
  BY <1>2, PrintsRange
<1>. HIDE DEF S, End
<1>4. \A s \in 0 .. S : ends[s] = UpToStep(ends, s)
  <2>. SUFFICES ASSUME NEW s \in 0 .. S PROVE ends[s] = UpToStep(ends, s)
    OBVIOUS
  <2>1. CASE s = 0
    BY <2>1, <1>2 DEF UpToStep, Ident
  <2>2. CASE s # 0
    <3>1. s \in 1 .. S /\ s - 1 \in 0 .. S
      BY <2>2, <1>2
    <3>2. Ident(End(s - 1)) \o Prints(s) = Ident(End(s))
      <4>. DEFINE a == End(s - 1)
                  f == unit.subs[s].first
                  b == End(s)
      <4>1. a \in Nat /\ f \in Nat /\ b \in Nat /\ a < f /\ f <= a + 1 /\ f <= b
        BY <3>1, <1>2
      <4>2. Prints(s) = Interval(f, b)
        BY <3>1, <1>3
      <4>. HIDE DEF a, f, b
      <4>3. Ident(a) \o Prints(s) = Ident(b)
        BY ONLY <4>1, <4>2, IdentConcat
      <4>. QED BY <4>3 DEF a, b
    <3>3. ends[s - 1] = Ident(End(s - 1)) /\ ends[s] = Ident(End(s))
      BY <3>1
    <3>. HIDE DEF ends
    <3>. QED BY <2>2, <3>2, <3>3 DEF UpToStep
  <2>. QED BY <2>1, <2>2
<1>5. IsUpTo(ends, S)
  <2>1. ends = [s \in 0 .. S |-> ends[s]]
    OBVIOUS
  <2>. HIDE DEF ends
  <2>. QED BY <2>1, <1>4 DEF IsUpTo
<1>6. IsUpTo(at, S)
  BY <1>5
<1>. HIDE DEF at
<1>7. \A s \in 0 .. S : at[s] = UpToStep(at, s)
  BY <1>6 DEF IsUpTo
<1>. HIDE DEF ends
<1>8. \A s \in 0 .. S : at[s] = ends[s]
  <2>. DEFINE T == {s \in Nat : s <= S /\ at[s] # ends[s]}
  <2>. SUFFICES T = {}
    <3>1. \A s \in 0 .. S : s \in Nat /\ s <= S
      BY ONLY <1>2
    <3>. QED BY <3>1
  <2>. SUFFICES ASSUME T # {} PROVE FALSE
    OBVIOUS
  <2>1. PICK s \in T : \A t \in T : s <= t
    <3>1. T \in SUBSET Nat
      OBVIOUS
    <3>. QED BY <3>1, LeastNat
  <2>2. s \in 0 .. S /\ at[s] # ends[s]
    BY <2>1, <1>2
  <2>3. s # 0 => at[s - 1] = ends[s - 1]
    <3>1. s # 0 => s - 1 \in Nat /\ s - 1 <= S /\ s - 1 \notin T
      BY <2>1, <1>2
    <3>. QED BY <3>1
  <2>4. UpToStep(at, s) = UpToStep(ends, s)
    BY <2>3 DEF UpToStep
  <2>. QED BY <2>2, <2>4, <1>4, <1>7
<1>9. at[S] = Ident(End(S))
  BY <1>2, <1>8 DEF ends
<1>. QED BY <1>1, <1>2, <1>9

\* The next_ and prev_ of a tiled unit are each other's inverse.
LEMMA LinksInverse ==
  ASSUME Links(unit), Count(unit) \in Nat, NEW e \in 1 .. Count(unit)
  PROVE  /\ unit.next[e] # 0 => unit.prev[unit.next[e]] = e
         /\ unit.prev[e] # 0 => unit.next[unit.prev[e]] = e
<1>. DEFINE N == Count(unit)
            next == unit.next
            prev == unit.prev
            Name(d) == NameOf(unit, d)
<1>1. /\ \A d \in 1 .. N : next[d] \in Nat /\ prev[d] \in Nat
      /\ \A d \in 1 .. N : IsNext(unit, d, next[d]) /\ IsPrev(unit, d, prev[d])
  <2>1. unit.next \in Seq(Nat) /\ Len(unit.next) = N /\ unit.prev \in Seq(Nat) /\ Len(unit.prev) = N
    BY DEF Links, LinkTypes
  <2>. QED BY <2>1, ElementOfSeq DEF Links
<1>2. \A d \in 1 .. N :
        /\ next[d] = 0 => \A c \in d + 1 .. N : Name(c) # Name(d)
        /\ next[d] # 0 => /\ next[d] \in d + 1 .. N /\ Name(next[d]) = Name(d)
                          /\ \A c \in d + 1 .. next[d] - 1 : Name(c) # Name(d)
  BY <1>1 DEF IsNext
<1>3. \A d \in 1 .. N :
        /\ prev[d] = 0 => \A c \in 1 .. d - 1 : Name(c) # Name(d)
        /\ prev[d] # 0 => /\ prev[d] \in 1 .. d - 1 /\ Name(prev[d]) = Name(d)
                          /\ \A c \in prev[d] + 1 .. d - 1 : Name(c) # Name(d)
  BY <1>1 DEF IsPrev
<1>4. N \in Nat /\ e \in 1 .. N
  OBVIOUS
<1>. HIDE DEF N, next, prev, Name
<1>5. ASSUME next[e] # 0 PROVE prev[next[e]] = e
  <2>. DEFINE d == next[e]
  <2>1. d \in e + 1 .. N /\ Name(d) = Name(e) /\ \A c \in e + 1 .. d - 1 : Name(c) # Name(e)
    BY <1>2, <1>4, <1>5
  <2>. DEFINE c == prev[d]
  <2>2. d \in 1 .. N /\ c \in Nat
    BY <2>1, <1>1, <1>4
  <2>. HIDE DEF d
  <2>3. /\ c = 0 => \A b \in 1 .. d - 1 : Name(b) # Name(d)
        /\ c # 0 => /\ c \in 1 .. d - 1 /\ Name(c) = Name(d)
                    /\ \A b \in c + 1 .. d - 1 : Name(b) # Name(d)
    BY <2>2, <1>3
  <2>. HIDE DEF c
  <2>4. e \in 1 .. d - 1
    BY <2>1, <1>4
  <2>5. c # 0 /\ ~(e \in c + 1 .. d - 1)
    BY <2>1, <2>3, <2>4
  <2>6. ~(c \in e + 1 .. d - 1)
    BY <2>1, <2>3, <2>5
  <2>7. c = e
    BY <2>2, <2>3, <2>4, <2>5, <2>6, <1>4
  <2>. QED BY <2>7 DEF c, d
<1>6. ASSUME prev[e] # 0 PROVE next[prev[e]] = e
  <2>. DEFINE d == prev[e]
  <2>1. d \in 1 .. e - 1 /\ Name(d) = Name(e) /\ \A c \in d + 1 .. e - 1 : Name(c) # Name(e)
    BY <1>3, <1>4, <1>6
  <2>. DEFINE c == next[d]
  <2>2. d \in 1 .. N /\ c \in Nat
    BY <2>1, <1>1, <1>4
  <2>. HIDE DEF d
  <2>3. /\ c = 0 => \A b \in d + 1 .. N : Name(b) # Name(d)
        /\ c # 0 => /\ c \in d + 1 .. N /\ Name(c) = Name(d)
                    /\ \A b \in d + 1 .. c - 1 : Name(b) # Name(d)
    BY <2>2, <1>2
  <2>. HIDE DEF c
  <2>4. e \in d + 1 .. N
    BY <2>1, <1>4
  <2>5. c # 0 /\ ~(e \in d + 1 .. c - 1)
    BY <2>1, <2>3, <2>4
  <2>6. ~(c \in d + 1 .. e - 1)
    BY <2>1, <2>3, <2>5
  <2>7. c = e
    BY <2>2, <2>3, <2>4, <2>5, <2>6, <1>4
  <2>. QED BY <2>7 DEF c, d
<1>. QED BY <1>5, <1>6 DEF next, prev

\* A section list is in the order read, can be walked both ways, and its
\* subsections bracket what is mapped to them.
LEMMA TiledLists ==
  ASSUME TidyInv
  PROVE  SectionsAreLists
<1>. DEFINE N == Len(unit.entries)
            Name(e) == unit.subs[unit.subOf[e]].name
            After(e) == {d \in e + 1 .. N : Name(d) = Name(e)}
            Least(S) == IF S = {} THEN 0 ELSE CHOOSE d \in S : \A c \in S : d <= c
            Own(s) == {e \in 1 .. N : unit.subOf[e] = s}
<1>1. WrittenOnce
  <2>1. "first" \notin lost => Written = Ident(Count(unit))
    BY TidyUnit, WrittenIs DEF Tidy
  <2>. QED BY <2>1 DEF WrittenOnce, Ident, Count
<1>2. ASSUME "first" \notin lost, NEW e \in 1 .. N
      PROVE  /\ unit.next[e] = Least(After(e))
             /\ unit.next[e] # 0 => unit.prev[unit.next[e]] = e
             /\ unit.prev[e] # 0 => unit.next[unit.prev[e]] = e
  <2>1. Links(unit) /\ Count(unit) \in Nat /\ e \in 1 .. Count(unit)
    BY <1>2, TidyUnit, LenProperties DEF Tidy, IsTiled, IsUnit, Count
  <2>2. IsNext(unit, e, unit.next[e])
    BY <2>1 DEF Links
  <2>. DEFINE d == unit.next[e]
              S == After(e)
              IsLeast(b) == \A c \in S : b <= c
  <2>3. d = 0 => S = {}
    BY <2>2 DEF IsNext, NameOf, Count
  <2>4. d # 0 => d \in S /\ IsLeast(d)
    <3>1. d # 0 => d \in S
      BY <2>2 DEF IsNext, NameOf, Count
    <3>2. d # 0 => \A c \in e + 1 .. d - 1 : Name(c) # Name(e)
      BY <2>2 DEF IsNext, NameOf
    <3>. QED BY <3>1, <3>2, <2>1
  <2>5. \A c \in S : c \in Nat
    BY <2>1
  <2>6. Least(S) = IF S = {} THEN 0 ELSE CHOOSE b \in S : IsLeast(b)
    OBVIOUS
  <2>. HIDE DEF S, d, Least
  <2>7. ASSUME d # 0 PROVE Least(S) = d
    <3>. DEFINE b == CHOOSE b \in S : IsLeast(b)
    <3>1. b \in S /\ IsLeast(b)
      BY <2>4, <2>7
    <3>2. Least(S) = b
      BY <2>4, <2>6, <2>7
    <3>. HIDE DEF b
    <3>3. b <= d /\ d <= b
      BY <3>1, <2>4, <2>7
    <3>. QED BY <3>1, <3>2, <3>3, <2>4, <2>5, <2>7
  <2>8. Least(S) = d
    BY <2>3, <2>6, <2>7
  <2>. QED BY <2>1, <2>8, LinksInverse DEF d, S
<1>3. ASSUME "first" \notin lost, NEW s \in 1 .. Len(unit.subs)
      PROVE  Own(s) \ {unit.subs[s].first} =
               {e \in Own(s) : unit.subs[s].first < e /\ e <= unit.subs[s].last}
  <2>1. IsUnit(unit) /\ IsTiled(unit)
    BY <1>3, TidyUnit DEF Tidy
  <2>2. unit.subs[s].first \in Nat /\ unit.subs[s].last \in Nat
    BY <2>1, RangesNumbers DEF IsTiled
  <2>3. \A e \in Own(s) : unit.subs[s].first <= e /\ e <= unit.subs[s].last
    BY <2>1, RangeOf DEF IsTiled, Count
  <2>. DEFINE O == Own(s)
  <2>4. \A e \in O : e \in Int
    OBVIOUS
  <2>. HIDE DEF O
  <2>. QED BY <2>2, <2>3, <2>4 DEF O
<1>. HIDE DEF After, Least, Own
<1>4. "first" \notin lost =>
        /\ \A e \in 1 .. N :
             /\ unit.next[e] = Least(After(e))
             /\ unit.next[e] # 0 => unit.prev[unit.next[e]] = e
             /\ unit.prev[e] # 0 => unit.next[unit.prev[e]] = e
        /\ \A s \in 1 .. Len(unit.subs) :
             Own(s) \ {unit.subs[s].first} =
               {e \in Own(s) : unit.subs[s].first < e /\ e <= unit.subs[s].last}
  BY <1>2, <1>3
<1>. QED BY <1>1, <1>4 DEF SectionsAreLists, After, Least, Own

-----------------------------------------------------------------------------
(* What the callbacks do to subsection numbers, and gas's way through the  *)
(* entries they write.                                                     *)

NumbersKept(u, v) ==
  /\ Len(u.subs) <= Len(v.subs)
  /\ \A s \in 1 .. Len(u.subs) :
       v.subs[s].number = u.subs[s].number /\ v.subs[s].start = u.subs[s].start

\* v is u with one entry more.
Adds(u, v, op) ==
  /\ Tidy(v) /\ v.cur # 0 /\ v.stack = u.stack
  /\ v.entries = Append(u.entries, op)
  /\ NumbersKept(u, v)
  /\ StartsOne(u, op) =>
       v.subs[v.cur].number = NewNumber(op) /\ v.subs[v.cur].start = NewStart(op)
  /\ ~StartsOne(u, op) => v.cur = u.cur

LEMMA AddEntryAdds ==
  ASSUME NEW u, Tidy(u), NEW op \in Ops, op.kind = "subsection" => u.cur # 0
  PROVE  Adds(u, AddEntry(u, op), op)
<1>. DEFINE v == AddEntry(u, op)
            S == Len(u.subs)
<1>1. Grows(u, v, op) /\ Appends(u, v, op) /\ Tidy(v)
  BY AddEntryGrows, AddEntryUnit, AddEntryTidy, TiledLinkable DEF Tidy
<1>. HIDE DEF v
<1>2. v.cur # 0 /\ v.stack = u.stack /\ v.entries = Append(u.entries, op)
  BY <1>1 DEF Appends, Extends
<1>3. S \in Nat /\ \A s \in 1 .. S : u.subs[s] \in SubSections
  BY LenProperties, ElementOfSeq DEF Tidy, IsUnit
<1>4. CASE StartsOne(u, op)
  <2>1. /\ Len(v.subs) = S + 1 /\ v.cur = S + 1
        /\ \A s \in 1 .. S : v.subs[s] = u.subs[s]
        /\ v.subs[S + 1].number = NewNumber(op) /\ v.subs[S + 1].start = NewStart(op)
    BY <1>1, <1>4 DEF Grows, Begins
  <2>. QED BY <2>1, <1>1, <1>2, <1>3, <1>4 DEF Adds, NumbersKept, v
<1>5. CASE ~StartsOne(u, op)
  <2>1. /\ Len(v.subs) = S /\ v.cur = u.cur
        /\ \A s \in 1 .. S :
             v.subs[s] = IF s = u.cur THEN [u.subs[s] EXCEPT !.last = Count(u) + 1] ELSE u.subs[s]
    BY <1>1, <1>5 DEF Grows, Continues
  <2>2. \A s \in 1 .. S : v.subs[s].number = u.subs[s].number /\ v.subs[s].start = u.subs[s].start
    BY <2>1, <1>3 DEF SubSections
  <2>. QED BY <2>1, <2>2, <1>1, <1>2, <1>3, <1>5 DEF Adds, NumbersKept, v
<1>. QED BY <1>4, <1>5

LEMMA NumbersTransitive ==
  ASSUME NEW u, Len(u.subs) \in Nat, NEW v, Len(v.subs) \in Nat, NEW w,
         Len(w.subs) \in Nat, NumbersKept(u, v), NumbersKept(v, w)
  PROVE  NumbersKept(u, w)
<1>1. /\ Len(u.subs) <= Len(v.subs) /\ Len(v.subs) <= Len(w.subs)
      /\ \A s \in 1 .. Len(u.subs) :
           v.subs[s].number = u.subs[s].number /\ v.subs[s].start = u.subs[s].start
      /\ \A s \in 1 .. Len(v.subs) :
           w.subs[s].number = v.subs[s].number /\ w.subs[s].start = v.subs[s].start
  BY DEF NumbersKept
<1>2. \A s \in 1 .. Len(u.subs) : s \in 1 .. Len(v.subs)
  BY <1>1
<1>3. Len(u.subs) <= Len(w.subs)
  BY <1>1
<1>. QED BY <1>1, <1>2, <1>3 DEF NumbersKept

\* gas goes from p to q reading the one or two entries v has more than u.
Follows(u, v, p, q) ==
  \/ \E op \in Ops : v.entries = Append(u.entries, op) /\ q = PlaceAfter(p, op)
  \/ \E op, op2 \in Ops : /\ v.entries = Append(Append(u.entries, op), op2)
                          /\ q = PlaceAfter(PlaceAfter(p, op), op2)
                          /\ op.kind = "section"

\* v is u after directives that open a subsection with the name and number.
Lands(u, v, name, number) ==
  /\ Tidy(v) /\ v.cur # 0 /\ v.stack = u.stack
  /\ NumbersKept(u, v)
  /\ v.subs[v.cur].number = number /\ ~v.subs[v.cur].start
  /\ \A p : Follows(u, v, p, <<name, number>>)

Opening(u, name, number) ==
  LET v == AddEntry(u, Named("section", name))
  IN  IF number = 0 THEN v ELSE AddEntry(v, Numbered("subsection", number))

LEMMA OpeningLands ==
  ASSUME NEW u, Tidy(u), NEW name \in EntryNames, NEW number \in Nat
  PROVE  Lands(u, Opening(u, name, number), name, number)
<1>. DEFINE op == Named("section", name)
            op2 == Numbered("subsection", number)
            v == AddEntry(u, op)
            w == AddEntry(v, op2)
<1>1. /\ op \in Ops /\ op.kind = "section" /\ op.name = name
      /\ op2 \in Ops /\ op2.kind = "subsection" /\ op2.number = number
  <2>1. op2.number = number
    BY DEF Numbered, Statement
  <2>. QED BY <2>1, Operations
<1>2. Opening(u, name, number) = IF number = 0 THEN v ELSE w
  BY DEF Opening
<1>. HIDE DEF op, op2
<1>3. Adds(u, v, op)
  BY <1>1, AddEntryAdds
<1>. HIDE DEF v
<1>4. Tidy(v) /\ v.cur # 0
  BY <1>3 DEF Adds
<1>5. Adds(v, w, op2)
  BY <1>1, <1>4, AddEntryAdds
<1>. HIDE DEF w
<1>6. \A p : PlaceAfter(p, op) = <<name, 0>>
  BY <1>1 DEF PlaceAfter
<1>7. PlaceAfter(<<name, 0>>, op2) = <<name, number>>
  BY <1>1 DEF PlaceAfter
<1>8. CASE number = 0
  <2>1. v.subs[v.cur].number = 0 /\ ~v.subs[v.cur].start
    BY <1>1, <1>3 DEF Adds, StartsOne, NewNumber, NewStart
  <2>2. \A p : Follows(u, v, p, <<name, number>>)
    BY <1>1, <1>3, <1>6, <1>8 DEF Adds, Follows
  <2>3. Lands(u, v, name, number)
    BY <2>1, <2>2, <1>3, <1>8 DEF Adds, Lands
  <2>. QED BY <2>3, <1>2, <1>8
<1>9. CASE number # 0
  <2>1. w.subs[w.cur].number = number /\ ~w.subs[w.cur].start
    BY <1>1, <1>5 DEF Adds, StartsOne, NewNumber, NewStart
  <2>2. \A p : Follows(u, w, p, <<name, number>>)
    <3>1. w.entries = Append(Append(u.entries, op), op2)
      BY <1>3, <1>5 DEF Adds
    <3>. SUFFICES ASSUME NEW p PROVE Follows(u, w, p, <<name, number>>)
      OBVIOUS
    <3>2. <<name, number>> = PlaceAfter(PlaceAfter(p, op), op2)
      BY <1>6, <1>7
    <3>. QED BY <3>1, <3>2, <1>1 DEF Follows
  <2>3. NumbersKept(u, w)
    BY <1>3, <1>5, NumbersTransitive, LenProperties DEF Adds, Tidy, IsUnit
  <2>4. Lands(u, w, name, number)
    BY <2>1, <2>2, <2>3, <1>3, <1>5 DEF Adds, Lands
  <2>. QED BY <2>4, <1>2, <1>9
<1>. QED BY <1>8, <1>9

\* One entry more to read.
LEMMA ReplayAppend ==
  ASSUME NEW ops \in Seq(Ops), NEW op \in Ops, NEW at, IsReplay(ops, at)
  PROVE  \E at2 : /\ IsReplay(Append(ops, op), at2)
                  /\ \A k \in 0 .. Len(ops) : at2[k] = at[k]
                  /\ at2[Len(ops) + 1] = PlaceAfter(at[Len(ops)], op)
<1>. DEFINE n == Len(ops)
            at2 == [k \in 0 .. n + 1 |-> IF k = n + 1 THEN PlaceAfter(at[n], op) ELSE at[k]]
            new == Append(ops, op)
<1>1. /\ n \in Nat /\ Len(new) = n + 1 /\ new[n + 1] = op
      /\ \A k \in 1 .. n : new[k] = ops[k]
  BY LenProperties, AppendProperties
<1>2. /\ at[0] = <<Text, 0>>
      /\ \A k \in 1 .. n : at[k] = PlaceAfter(at[k - 1], ops[k])
  BY DEF IsReplay
<1>3. /\ at2 = [k \in 0 .. n + 1 |-> at2[k]]
      /\ \A k \in 0 .. n : at2[k] = at[k]
      /\ at2[n + 1] = PlaceAfter(at[n], op)
  <2>1. n \in Nat
    BY <1>1
  <2>. DEFINE last == PlaceAfter(at[n], op)
  <2>. HIDE DEF n, last
  <2>2. /\ \A k \in 0 .. n : k # n + 1 /\ k \in 0 .. n + 1
        /\ n + 1 \in 0 .. n + 1
    BY ONLY <2>1
  <2>3. at2 = [k \in 0 .. n + 1 |-> at2[k]]
    OBVIOUS
  <2>4. \A k \in 0 .. n : at2[k] = at[k]
    BY <2>2
  <2>5. at2[n + 1] = last
    BY <2>2 DEF last
  <2>. QED BY <2>3, <2>4, <2>5 DEF last
<1>. HIDE DEF at2, new, n
<1>4. at2[0] = <<Text, 0>>
  <2>1. 0 \in 0 .. n
    BY ONLY <1>1
  <2>2. at2[0] = at[0]
    BY <2>1, <1>3
  <2>. QED BY ONLY <2>2, <1>2
<1>5. \A k \in 1 .. n + 1 : at2[k] = PlaceAfter(at2[k - 1], new[k])
  <2>. SUFFICES ASSUME NEW k \in 1 .. n + 1 PROVE at2[k] = PlaceAfter(at2[k - 1], new[k])
    OBVIOUS
  <2>1. CASE k = n + 1
    <3>1. k - 1 = n /\ n \in 0 .. n
      BY <2>1, <1>1
    <3>. QED BY <2>1, <3>1, <1>1, <1>3
  <2>2. CASE k # n + 1
    <3>1. k \in 1 .. n /\ k \in 0 .. n /\ k - 1 \in 0 .. n
      BY <2>2, <1>1
    <3>. QED BY <3>1, <1>1, <1>2, <1>3
  <2>. QED BY <2>1, <2>2
<1>6. IsReplay(new, at2)
  BY <1>1, <1>3, <1>4, <1>5 DEF IsReplay
<1>. QED BY <1>3, <1>6 DEF new, n

\* The places of the entries, when gas has read the new ones as well.
LEMMA PlacesFollow ==
  ASSUME TypeInv, Linked(unit'), NEW at, Replays(at), NEW at2,
         IsReplay(unit'.entries, at2),
         Count(unit') \in Nat, Count(unit) <= Count(unit'),
         \A k \in 1 .. Count(unit) : unit'.entries[k] = unit.entries[k] /\ at2[k] = at[k],
         at2[Count(unit')] = now',
         \A k \in Count(unit) + 1 .. Count(unit') :
           unit'.entries[k].kind \in {"insn", "label", "data"} => at2[k] = now'
  PROVE  Replays(at2)'
<1>. DEFINE N == Count(unit)
            M == Count(unit')
            entries == unit'.entries
<1>1. /\ place' = [e \in 1 .. M |-> IF e \in DOMAIN place THEN place[e] ELSE now']
      /\ DOMAIN place = 1 .. N /\ N \in Nat /\ M \in Nat /\ N <= M
  BY LenProperties DEF Linked, TypeInv, IsUnit, Count
<1>2. \A k \in 1 .. N : HasContents(k) => at[k] = place[k]
  BY DEF Replays
<1>. SUFFICES ASSUME NEW k \in 1 .. M, entries[k].kind \in {"insn", "label", "data"}
              PROVE  at2[k] = place'[k]
  BY DEF Replays, HasContents
<1>. HIDE DEF N, M, entries
<1>3. CASE k \in 1 .. N
  <2>1. entries[k] = unit.entries[k] /\ at2[k] = at[k]
    BY <1>3 DEF N, entries
  <2>2. at[k] = place[k]
    BY <2>1, <1>2, <1>3 DEF HasContents
  <2>3. place'[k] = place[k]
    BY <1>1, <1>3
  <2>. QED BY ONLY <2>1, <2>2, <2>3
<1>4. CASE k \notin 1 .. N
  <2>1. k \in N + 1 .. M
    BY <1>1, <1>4
  <2>2. at2[k] = now'
    BY <2>1 DEF N, M, entries
  <2>3. place'[k] = now'
    BY <1>1, <1>4
  <2>. QED BY ONLY <2>2, <2>3
<1>. QED BY <1>3, <1>4

LEMMA ReplayFollows ==
  ASSUME TypeInv, Linked(unit'), NEW at, Replays(at), Follows(unit, unit', now, now')
  PROVE  (\E at2 : Replays(at2))'
<1>. DEFINE N == Count(unit)
            entries == unit.entries
<1>1. entries \in Seq(Ops) /\ N = Len(entries) /\ N \in Nat
  BY LenProperties DEF TypeInv, IsUnit, Count
<1>2. IsReplay(entries, at) /\ at[N] = now
  BY DEF Replays
<1>. HIDE DEF N, entries
<1>3. ASSUME NEW op \in Ops, unit'.entries = Append(entries, op), now' = PlaceAfter(now, op)
      PROVE  (\E at2 : Replays(at2))'
  <2>1. PICK at2 : /\ IsReplay(Append(entries, op), at2)
                   /\ \A k \in 0 .. N : at2[k] = at[k]
                   /\ at2[N + 1] = PlaceAfter(at[N], op)
    BY <1>1, <1>2, ReplayAppend
  <2>2. /\ Count(unit') = N + 1
        /\ \A k \in 1 .. N : unit'.entries[k] = entries[k]
    BY <1>1, <1>3, AppendProperties DEF Count
  <2>3. IsReplay(unit'.entries, at2) /\ at2[Count(unit')] = now'
    BY <2>1, <2>2, <1>2, <1>3
  <2>4. /\ Count(unit') \in Nat /\ N <= Count(unit')
        /\ \A k \in 1 .. N : unit'.entries[k] = entries[k] /\ at2[k] = at[k]
        /\ \A k \in N + 1 .. Count(unit') : at2[k] = now'
    <3>1. \A k \in 1 .. N : k \in 0 .. N
      BY <1>1
    <3>2. \A k \in N + 1 .. Count(unit') : k = Count(unit')
      BY <2>2, <1>1
    <3>. QED BY <3>1, <3>2, <2>1, <2>2, <2>3, <1>1
  <2>5. Replays(at2)'
    BY <2>3, <2>4, PlacesFollow DEF N, entries
  <2>. QED BY <2>5
<1>4. ASSUME NEW op \in Ops, NEW op2 \in Ops, op.kind = "section",
             unit'.entries = Append(Append(entries, op), op2),
             now' = PlaceAfter(PlaceAfter(now, op), op2)
      PROVE  (\E at2 : Replays(at2))'
  <2>. DEFINE mid == Append(entries, op)
  <2>1. PICK at1 : /\ IsReplay(mid, at1)
                   /\ \A k \in 0 .. N : at1[k] = at[k]
                   /\ at1[N + 1] = PlaceAfter(at[N], op)
    BY <1>1, <1>2, ReplayAppend
  <2>2. /\ mid \in Seq(Ops) /\ Len(mid) = N + 1 /\ mid[N + 1] = op
        /\ \A k \in 1 .. N : mid[k] = entries[k]
    BY <1>1, AppendProperties
  <2>3. unit'.entries = Append(mid, op2)
    BY <1>4
  <2>. HIDE DEF mid
  <2>4. PICK at2 : /\ IsReplay(Append(mid, op2), at2)
                   /\ \A k \in 0 .. Len(mid) : at2[k] = at1[k]
                   /\ at2[Len(mid) + 1] = PlaceAfter(at1[Len(mid)], op2)
    BY <2>1, <2>2, ReplayAppend
  <2>5. /\ Count(unit') = Len(mid) + 1
        /\ \A k \in 1 .. Len(mid) : unit'.entries[k] = mid[k]
    BY <2>2, <2>3, AppendProperties DEF Count
  <2>6. IsReplay(unit'.entries, at2) /\ at2[Count(unit')] = now'
    <3>1. at1[Len(mid)] = PlaceAfter(now, op)
      BY <2>1, <2>2, <1>2
    <3>. QED BY <3>1, <2>3, <2>4, <2>5, <1>4
  <2>7. /\ Count(unit') \in Nat /\ N <= Count(unit')
        /\ \A k \in 1 .. N : unit'.entries[k] = entries[k] /\ at2[k] = at[k]
    <3>1. \A k \in 1 .. N : k \in 0 .. N /\ k \in 0 .. Len(mid) /\ k \in 1 .. Len(mid)
      BY <2>2, <1>1
    <3>. QED BY <3>1, <2>1, <2>2, <2>4, <2>5, <1>1
  <2>8. \A k \in N + 1 .. Count(unit') :
          unit'.entries[k].kind \in {"insn", "label", "data"} => at2[k] = now'
    <3>1. \A k \in N + 1 .. Count(unit') : k = Count(unit') \/ k = N + 1
      BY <2>2, <2>5, <1>1
    <3>2. unit'.entries[N + 1] = op
      BY <2>2, <2>5, <1>1
    <3>. QED BY <3>1, <3>2, <2>6, <1>4
  <2>9. Replays(at2)'
    BY <2>6, <2>7, <2>8, PlacesFollow DEF N, entries
  <2>. QED BY <2>9
<1>. QED BY <1>3, <1>4 DEF Follows, entries

LEMMA NumberAlikeKept ==
  ASSUME NEW u, Len(u.subs) \in Nat, NEW v, NumbersKept(u, v), NEW s \in 0 .. Len(u.subs),
         NEW at, NumberAlike(u, at, s)
  PROVE  NumberAlike(v, at, s)
<1>1. s # 0 => s \in 1 .. Len(u.subs)
  OBVIOUS
<1>. QED BY <1>1 DEF NumberAlike, NumbersKept

\* What is on both stacks keeps its number.
LEMMA NumbersStack ==
  ASSUME TypeInv, StackNumbers, gasStack' = gasStack, NumbersKept(unit, unit'),
         unit'.stack = unit.stack
  PROVE  StackNumbers'
<1>. SUFFICES ASSUME Len(gasStack) = Len(unit.stack), NEW i \in 1 .. Len(gasStack)
              PROVE  NumberAlike(unit', gasStack[i][1], unit.stack[i][1])
  BY DEF StackNumbers
<1>1. NumberAlike(unit, gasStack[i][1], unit.stack[i][1])
  BY DEF StackNumbers
<1>2. unit.stack[i][1] \in 1 .. Len(unit.subs)
  BY DEF TypeInv, IsUnit
<1>3. Len(unit.subs) \in Nat
  BY LenProperties DEF TypeInv, IsUnit
<1>4. unit.stack[i][1] \in 0 .. Len(unit.subs)
  BY ONLY <1>2, <1>3
<1>. QED BY <1>1, <1>3, <1>4, NumberAlikeKept

-----------------------------------------------------------------------------
(* The accounts agree on numbers as well, and reading the entries again    *)
(* puts gas where it is.                                                   *)

TextInv == TypeInv /\ Account /\ TiledInv /\ NumberInv
Reads == \/ UNCHANGED <<now, unit, place>>
         \/ Linked(unit') /\ Follows(unit, unit', now, now')
Agrees == Reads /\ CurrentNumber' /\ StackNumbers'

LEMMA TextUnit ==
  ASSUME TextInv, lost \subseteq {"pushed"}
  PROVE  /\ TypeInv /\ CurrentNumber /\ StackNumbers
         /\ Tidy(unit) /\ IsUnit(unit) /\ IsMapped(unit)
         /\ unit.subs \in Seq(SubSections) /\ Len(unit.subs) \in Nat
         /\ unit.cur \in 0 .. Len(unit.subs) /\ unit.prv \in 0 .. Len(unit.subs)
         /\ now[1] = Abs => Len(gasStack) < Len(unit.stack)
         /\ "pushed" \notin lost => PreviousAlike(unit, previous, unit.prv)
         /\ StackAlike
<1>1. Tidy(unit)
  BY TidyUnit DEF TextInv, TidyInv
<1>2. Len(unit.subs) \in Nat
  BY <1>1, LenProperties DEF Tidy, IsUnit
<1>3. lost \subseteq {"pushed", "number"}
  OBVIOUS
<1>. QED BY <1>1, <1>2, <1>3 DEF TextInv, NumberInv, Account, Tidy, IsUnit

LEMMA LostGrows == Next => lost \subseteq lost'
BY ContentsNext DEF Next, SectionStatement, Contents, OpenSection, OpenSubSection, PushSection,
       PopSection, PreviousSection, OpenStruct, Abort

LEMMA StuckAgrees ==
  ASSUME CurrentNumber, StackNumbers, UNCHANGED <<gas, unit, place>>
  PROVE  Agrees
<1>1. /\ now' = now /\ previous' = previous /\ gasStack' = gasStack
      /\ unit' = unit /\ place' = place
  BY DEF gas
<1>. QED BY <1>1 DEF Agrees, Reads, CurrentNumber, StackNumbers

LEMMA ContentsAgrees ==
  ASSUME TextInv, lost' \subseteq {"pushed"},
         NEW op \in Ops, ContentsKind(op), Contents(op)
  PROVE  Agrees
<1>. DEFINE v == AddEntry(unit, op)
<1>1. op.kind \in {"insn", "label", "data", "size"}
  BY DEF ContentsKind
<1>2. /\ now' = now /\ gasStack' = gasStack /\ lost' = lost
      /\ Linked(v) /\ unit' = v
  BY <1>1 DEF Contents, gas, Linked
<1>3. Tidy(unit) /\ Len(unit.subs) \in Nat /\ unit.cur \in 0 .. Len(unit.subs) /\ TypeInv
      /\ CurrentNumber /\ StackNumbers
  BY <1>2, TextUnit
<1>4. Adds(unit, v, op)
  BY <1>1, <1>3, AddEntryAdds
<1>. HIDE DEF v
<1>5. Follows(unit, v, now, now)
  <2>1. now = PlaceAfter(now, op)
    BY <1>1 DEF PlaceAfter
  <2>. QED BY <2>1, <1>1, <1>4 DEF Follows, Adds
<1>6. now[1] # Abs => NumberAlike(unit, now, unit.cur)
  BY <1>2, <1>3 DEF CurrentNumber
<1>7. ASSUME now[1] # Abs PROVE NumberAlike(v, now, v.cur)
  <2>1. CASE StartsOne(unit, op)
    <3>1. unit.cur = 0 \/ unit.subs[unit.cur].start
      BY <2>1, <1>1 DEF StartsOne
    <3>2. now[2] = 0
      BY <3>1, <1>6, <1>7 DEF NumberAlike
    <3>3. v.subs[v.cur].number = 0
      BY <2>1, <1>1, <1>4 DEF Adds, NewNumber
    <3>. QED BY <3>2, <3>3 DEF NumberAlike
  <2>2. CASE ~StartsOne(unit, op)
    <3>1. v.cur = unit.cur /\ NumbersKept(unit, v)
      BY <2>2, <1>4 DEF Adds
    <3>. QED BY <3>1, <1>3, <1>6, <1>7, NumberAlikeKept
  <2>. QED BY <2>1, <2>2
<1>8. StackNumbers'
  BY <1>2, <1>3, <1>4, NumbersStack DEF Adds
<1>. QED BY <1>2, <1>5, <1>7, <1>8 DEF Agrees, Reads, CurrentNumber

\* What a directive back to a section, and a subsection of it, leaves.
LEMMA LandsAgrees ==
  ASSUME NEW u, u.entries = unit.entries, NEW name, NEW number,
         Lands(u, unit', name, number), Linked(unit'), now' = <<name, number>>
  PROVE  Reads /\ CurrentNumber'
<1>1. Follows(u, unit', now, <<name, number>>)
  BY DEF Lands
<1>2. Follows(unit, unit', now, now')
  BY <1>1 DEF Follows
<1>3. NumberAlike(unit', now', unit'.cur)
  BY DEF Lands, NumberAlike
<1>. QED BY <1>2, <1>3 DEF Reads, CurrentNumber

LEMMA OpenSectionAgrees ==
  ASSUME TextInv, lost' \subseteq {"pushed"},
         NEW name \in Names, NEW n \in Numbers, OpenSection(name, n)
  PROVE  Agrees
<1>1. /\ n = 0 /\ now' = <<name, 0>> /\ gasStack' = gasStack /\ lost \subseteq {"pushed"}
      /\ unit' = Opening(unit, name, 0) /\ Linked(unit')
  BY DEF OpenSection, Linked, Opening
<1>2. Tidy(unit) /\ TypeInv /\ StackNumbers
  BY <1>1, TextUnit
<1>3. name \in EntryNames
  BY DEF EntryNames
<1>4. Lands(unit, unit', name, 0)
  BY <1>1, <1>2, <1>3, OpeningLands
<1>5. Reads /\ CurrentNumber'
  BY <1>1, <1>4, LandsAgrees
<1>6. StackNumbers'
  BY <1>1, <1>2, <1>4, NumbersStack DEF Lands
<1>. QED BY <1>5, <1>6 DEF Agrees

LEMMA OpenSubSectionAgrees ==
  ASSUME TextInv, lost' \subseteq {"pushed"}, NEW n \in Numbers, OpenSubSection(n)
  PROVE  Agrees
<1>. DEFINE op == Numbered("subsection", n)
            v == AddEntry(unit, op)
<1>1. /\ now' = <<now[1], n>> /\ gasStack' = gasStack /\ lost \subseteq {"pushed"}
      /\ unit.cur # 0 /\ Linked(v) /\ unit' = v
  BY DEF OpenSubSection, Linked
<1>2. Tidy(unit) /\ TypeInv /\ StackNumbers
  BY <1>1, TextUnit
<1>3. op \in Ops /\ op.kind = "subsection" /\ op.number = n
  <2>1. op.number = n
    BY DEF Numbered, Statement
  <2>. QED BY <2>1, Operations, NumbersAssumption
<1>. HIDE DEF op
<1>4. Adds(unit, v, op)
  BY <1>1, <1>2, <1>3, AddEntryAdds
<1>. HIDE DEF v
<1>5. Follows(unit, v, now, now')
  <2>1. now' = PlaceAfter(now, op)
    BY <1>1, <1>3 DEF PlaceAfter
  <2>. QED BY <2>1, <1>3, <1>4 DEF Follows, Adds
<1>6. v.subs[v.cur].number = n /\ ~v.subs[v.cur].start /\ v.cur # 0
  BY <1>3, <1>4 DEF Adds, StartsOne, NewNumber, NewStart
<1>7. NumberAlike(v, now', v.cur)
  BY <1>1, <1>6 DEF NumberAlike
<1>8. StackNumbers'
  BY <1>1, <1>2, <1>4, NumbersStack DEF Adds
<1>. QED BY <1>1, <1>5, <1>7, <1>8 DEF Agrees, Reads, CurrentNumber

LEMMA PushSectionAgrees ==
  ASSUME TextInv, lost' \subseteq {"pushed"},
         NEW name \in Names, NEW n \in Numbers, PushSection(name, n)
  PROVE  Agrees
<1>1. CASE unit.cur = 0
  <2>1. UNCHANGED <<gas, unit, place, lost>>
    BY <1>1 DEF PushSection, Abort
  <2>2. CurrentNumber /\ StackNumbers
    BY <2>1, TextUnit
  <2>. QED BY <2>1, <2>2, StuckAgrees
<1>2. CASE unit.cur # 0
  <2>. DEFINE p == Push(unit)
              top == <<now, previous>>
              pair == <<unit.cur, unit.prv>>
  <2>1. /\ now' = <<name, n>> /\ gasStack' = Append(gasStack, top)
        /\ lost \subseteq {"pushed"}
        /\ unit' = Opening(p, name, n) /\ Linked(unit')
    BY <1>2 DEF PushSection, Linked, Opening
  <2>2. /\ Tidy(unit) /\ IsUnit(unit) /\ IsMapped(unit) /\ TypeInv
        /\ StackNumbers /\ CurrentNumber
        /\ Len(unit.subs) \in Nat /\ unit.cur \in 0 .. Len(unit.subs)
        /\ now[1] = Abs => Len(gasStack) < Len(unit.stack)
    BY <2>1, TextUnit
  <2>3. name \in EntryNames /\ n \in Nat
    BY NumbersAssumption DEF EntryNames
  <2>4. Tidy(p)
    BY <1>2, <2>2, PushTidy
  <2>5. /\ p.entries = unit.entries /\ p.subs = unit.subs
        /\ p.stack = Append(unit.stack, pair)
    BY <1>2, <2>2, PushUnit
  <2>6. Lands(p, unit', name, n)
    BY <2>1, <2>3, <2>4, OpeningLands
  <2>7. Reads /\ CurrentNumber'
    <3>. HIDE DEF p
    <3>. QED BY <2>1, <2>5, <2>6, LandsAgrees
  <2>8. NumbersKept(unit, unit') /\ unit'.stack = Append(unit.stack, pair)
    BY <2>5, <2>6 DEF Lands, NumbersKept
  <2>9. /\ unit.stack \in Seq(Nat \X Nat) /\ pair \in Nat \X Nat
        /\ gasStack \in Seq(Places \X (Places \cup {None}))
        /\ top \in Places \X (Places \cup {None})
        /\ top[1] = now /\ pair[1] = unit.cur
    <3>1. unit.cur \in Nat /\ unit.prv \in Nat
      BY <2>2 DEF IsUnit
    <3>. QED BY <3>1, <2>2 DEF TypeInv, IsUnit
  <2>. HIDE DEF p, top, pair
  <2>10. /\ Len(gasStack') = Len(gasStack) + 1 /\ Len(gasStack) \in Nat
         /\ \A i \in 1 .. Len(gasStack) : gasStack'[i] = gasStack[i]
         /\ gasStack'[Len(gasStack) + 1] = top
    BY ONLY <2>1, <2>9, AppendProperties, LenProperties
  <2>11. /\ Len(unit'.stack) = Len(unit.stack) + 1 /\ Len(unit.stack) \in Nat
         /\ \A i \in 1 .. Len(unit.stack) : unit'.stack[i] = unit.stack[i]
         /\ unit'.stack[Len(unit.stack) + 1] = pair
    BY ONLY <2>8, <2>9, AppendProperties, LenProperties
  <2>12. ASSUME Len(gasStack') = Len(unit'.stack), NEW i \in 1 .. Len(gasStack')
         PROVE  NumberAlike(unit', gasStack'[i][1], unit'.stack[i][1])
    <3>1. Len(gasStack) = Len(unit.stack)
      BY <2>10, <2>11, <2>12
    <3>2. CASE i = Len(gasStack) + 1
      <4>1. gasStack'[i] = top /\ unit'.stack[i] = pair
        BY <3>1, <3>2, <2>10, <2>11
      <4>2. NumberAlike(unit, now, unit.cur)
        BY <3>1, <2>2, <2>10 DEF CurrentNumber
      <4>. QED BY <4>1, <4>2, <2>2, <2>8, <2>9, NumberAlikeKept
    <3>3. CASE i # Len(gasStack) + 1
      <4>1. i \in 1 .. Len(gasStack) /\ i \in 1 .. Len(unit.stack)
        BY <3>1, <3>3, <2>10, <2>12
      <4>2. gasStack'[i] = gasStack[i] /\ unit'.stack[i] = unit.stack[i]
        BY <4>1, <2>10, <2>11
      <4>3. unit.stack[i][1] \in 0 .. Len(unit.subs)
        <5>1. unit.stack[i][1] \in 1 .. Len(unit.subs)
          BY ONLY <2>2, <4>1 DEF IsUnit
        <5>. QED BY <5>1, <2>2
      <4>4. NumberAlike(unit, gasStack[i][1], unit.stack[i][1])
        BY <3>1, <4>1, <2>2 DEF StackNumbers
      <4>. QED BY <4>2, <4>3, <4>4, <2>2, <2>8, NumberAlikeKept
    <3>. QED BY <3>2, <3>3
  <2>. QED BY <2>7, <2>12 DEF Agrees, StackNumbers
<1>. QED BY <1>1, <1>2

LEMMA PopSectionAgrees ==
  ASSUME TextInv, lost' \subseteq {"pushed"}, PopSection
  PROVE  Agrees
<1>. DEFINE p == Popped(unit)
            top == Top(unit.stack)
            s == unit.subs[top[1]]
            u == Opening(p, s.name, s.number)
            v == [u EXCEPT !.prv = top[2]]
            n == Len(gasStack)
<1>1. /\ gasStack # <<>> /\ gasStack' = Rest(gasStack) /\ now' = Top(gasStack)[1]
      /\ lost \subseteq {"pushed"}
      /\ ~s.start /\ ~(Len(unit.stack) > Len(gasStack))
      /\ Linked(v) /\ unit' = v
  BY DEF PopSection, Pop, Popped, Linked, Opening, Reopen
<1>2. /\ Tidy(unit) /\ IsUnit(unit) /\ IsMapped(unit) /\ TypeInv
      /\ StackNumbers /\ StackAlike /\ Len(unit.subs) \in Nat /\ unit.subs \in Seq(SubSections)
  BY <1>1, TextUnit
<1>3. /\ unit.stack \in Seq(Nat \X Nat)
      /\ gasStack \in Seq(Places \X (Places \cup {None}))
      /\ Len(gasStack) <= Len(unit.stack)
      /\ gasStack # <<>> /\ unit.stack # <<>>
  <2>1. /\ unit.stack \in Seq(Nat \X Nat)
        /\ gasStack \in Seq(Places \X (Places \cup {None}))
        /\ Len(gasStack) <= Len(unit.stack) /\ gasStack # <<>>
    <3>1. unit.stack \in Seq(Nat \X Nat)
      BY <1>2 DEF IsUnit
    <3>2. /\ gasStack \in Seq(Places \X (Places \cup {None}))
          /\ Len(gasStack) <= Len(unit.stack)
      BY <1>2 DEF TypeInv
    <3>. QED BY ONLY <3>1, <3>2, <1>1
  <2>2. Len(gasStack) \in Nat \ {0} /\ Len(unit.stack) \in Nat
    BY ONLY <2>1, EmptySeq, LenProperties
  <2>3. unit.stack # <<>>
    BY ONLY <2>1, <2>2, EmptySeq
  <2>. QED BY ONLY <2>1, <2>3
<1>4. /\ n \in Nat \ {0} /\ Len(gasStack') = n - 1
      /\ \A i \in 1 .. Len(gasStack') : gasStack'[i] = gasStack[i]
      /\ Top(gasStack) = gasStack[n]
      /\ Top(gasStack) \in Places \X (Places \cup {None})
  BY ONLY <1>1, <1>3, RestProperties
<1>5. /\ Len(unit.stack) \in Nat \ {0} /\ Len(Rest(unit.stack)) = Len(unit.stack) - 1
      /\ \A i \in 1 .. Len(Rest(unit.stack)) : Rest(unit.stack)[i] = unit.stack[i]
      /\ top = unit.stack[Len(unit.stack)]
  BY ONLY <1>3, RestProperties
<1>6. top[1] \in 1 .. Len(unit.subs) /\ top[2] \in 0 .. Len(unit.subs)
  <2>1. Len(unit.stack) \in 1 .. Len(unit.stack)
    BY <1>5
  <2>. HIDE DEF top
  <2>. QED BY ONLY <1>2, <1>5, <2>1 DEF IsUnit
<1>7. Len(unit.stack) = n
  <2>1. ~(Len(unit.stack) > n) /\ n <= Len(unit.stack)
    BY <1>1, <1>3
  <2>. HIDE DEF n
  <2>. QED BY ONLY <2>1, <1>4, <1>5
<1>8. /\ Alike(unit, now', top[1]) /\ NumberAlike(unit, now', top[1])
      /\ now' \in Places
  <2>1. n \in 1 .. n
    BY <1>4
  <2>2. now' = gasStack[n][1] /\ top[1] = unit.stack[n][1]
    BY <1>1, <1>4, <1>5, <1>7
  <2>3. now' \in Places
    BY <1>1, <1>4
  <2>. HIDE DEF top, n
  <2>. QED BY <2>1, <2>2, <2>3, <1>2, <1>7 DEF StackAlike, StackNumbers, n
<1>9. now' = <<s.name, s.number>>
  <2>1. now'[1] = s.name /\ now'[2] = s.number
    <3>. HIDE DEF top
    <3>1. top[1] # 0 /\ ~unit.subs[top[1]].start
      BY <1>1, <1>2, <1>6
    <3>2. Alike(unit, now', top[1]) /\ NumberAlike(unit, now', top[1])
      BY <1>8
    <3>3. now'[1] = unit.subs[top[1]].name
      BY ONLY <3>1, <3>2 DEF Alike
    <3>4. now'[2] = unit.subs[top[1]].number
      BY ONLY <3>1, <3>2 DEF NumberAlike
    <3>. QED BY <3>3, <3>4
  <2>2. now' = <<now'[1], now'[2]>>
    BY <1>8 DEF Places
  <2>. QED BY ONLY <2>1, <2>2
<1>. HIDE DEF top
<1>10. s \in SubSections
  BY ONLY <1>2, <1>6, ElementOfSeq
<1>11. s.name \in EntryNames /\ s.number \in Nat
  BY <1>10 DEF SubSections
<1>. HIDE DEF s
<1>12. Tidy(p) /\ p.entries = unit.entries /\ p.subs = unit.subs /\ p.stack = Rest(unit.stack)
  BY <1>2, <1>3, PopTidy, PoppedUnit
<1>. HIDE DEF p
<1>13. Lands(p, u, s.name, s.number)
  BY <1>11, <1>12, OpeningLands
<1>. HIDE DEF u
<1>14. top[2] \in 0 .. Len(u.subs) /\ Tidy(u)
  <2>1. Len(unit.subs) <= Len(u.subs) /\ Len(u.subs) \in Nat /\ Tidy(u)
    BY <1>12, <1>13, LenProperties DEF Lands, NumbersKept, Tidy, IsUnit
  <2>. QED BY <2>1, <1>2, <1>6
<1>15. /\ Tidy(v) /\ v.entries = u.entries /\ v.subs = u.subs /\ v.cur = u.cur
       /\ v.stack = u.stack
  BY <1>14, PreviousTidy, PreviousUnit DEF Tidy
<1>. HIDE DEF v
<1>16. Lands(p, v, s.name, s.number)
  <2>1. \A q : Follows(p, v, q, <<s.name, s.number>>)
    BY <1>13, <1>15 DEF Lands, Follows
  <2>2. NumbersKept(p, v)
    BY <1>13, <1>15 DEF Lands, NumbersKept
  <2>. QED BY <2>1, <2>2, <1>13, <1>15 DEF Lands
<1>17. Reads /\ CurrentNumber'
  BY <1>1, <1>9, <1>12, <1>16, LandsAgrees
<1>18. NumbersKept(unit, unit') /\ unit'.stack = Rest(unit.stack)
  BY <1>1, <1>12, <1>16 DEF Lands, NumbersKept
<1>19. ASSUME NEW i \in 1 .. Len(gasStack')
       PROVE  NumberAlike(unit', gasStack'[i][1], unit'.stack[i][1])
  <2>1. i \in 1 .. n /\ i \in 1 .. Len(unit.stack) /\ i \in 1 .. Len(Rest(unit.stack))
    BY <1>4, <1>5, <1>7, <1>19
  <2>2. gasStack'[i] = gasStack[i] /\ unit'.stack[i] = unit.stack[i]
    BY <2>1, <1>4, <1>5, <1>18, <1>19
  <2>3. unit.stack[i][1] \in 0 .. Len(unit.subs)
    <3>1. unit.stack[i][1] \in 1 .. Len(unit.subs)
      BY ONLY <1>2, <2>1 DEF IsUnit
    <3>. QED BY <3>1, <1>2
  <2>4. NumberAlike(unit, gasStack[i][1], unit.stack[i][1])
    BY <2>1, <1>2, <1>7 DEF StackNumbers
  <2>. QED BY <2>2, <2>3, <2>4, <1>2, <1>18, NumberAlikeKept
<1>. QED BY <1>17, <1>19 DEF Agrees, StackNumbers

LEMMA PreviousSectionAgrees ==
  ASSUME TextInv, lost' \subseteq {"pushed"}, PreviousSection
  PROVE  Agrees
<1>1. CASE unit.prv = 0
  <2>1. UNCHANGED <<gas, unit, place, lost>>
    BY <1>1 DEF PreviousSection, Abort
  <2>2. CurrentNumber /\ StackNumbers
    BY <2>1, TextUnit
  <2>. QED BY <2>1, <2>2, StuckAgrees
<1>2. CASE unit.prv # 0
  <2>. DEFINE name == unit.subs[unit.prv].name
  <2>1. /\ now' = previous /\ gasStack' = gasStack
        /\ lost \subseteq {"pushed"} /\ "pushed" \notin lost
        /\ previous # None /\ previous[1] # Abs /\ previous[2] = 0
        /\ ~unit.subs[unit.prv].start
        /\ unit' = Opening(unit, name, 0) /\ Linked(unit')
    <3>1. /\ now' = previous /\ gasStack' = gasStack /\ previous # None
          /\ lost' = lost \cup (IF unit.subs[unit.prv].start THEN {"start"} ELSE {})
                         \cup (IF previous[1] = Abs THEN {"struct"} ELSE {})
                         \cup (IF previous[2] # 0 THEN {"number"} ELSE {})
                         \cup (IF "pushed" \in lost THEN {"name"} ELSE {})
          /\ Linked(SetPrevious(unit))
      BY <1>2 DEF PreviousSection
    <3>2. /\ lost \subseteq {"pushed"} /\ "pushed" \notin lost
          /\ previous[1] # Abs /\ previous[2] = 0 /\ ~unit.subs[unit.prv].start
      BY <3>1
    <3>3. unit' = Opening(unit, name, 0) /\ Linked(unit')
      BY ONLY <3>1 DEF SetPrevious, Linked, Opening
    <3>. QED BY ONLY <3>1, <3>2, <3>3
  <2>2. /\ Tidy(unit) /\ TypeInv /\ StackNumbers /\ Len(unit.subs) \in Nat
        /\ unit.subs \in Seq(SubSections) /\ unit.prv \in 0 .. Len(unit.subs)
        /\ PreviousAlike(unit, previous, unit.prv)
    BY <2>1, TextUnit
  <2>3. previous = <<name, 0>>
    <3>1. previous[1] = name /\ previous \in Places
      BY <2>1, <2>2, <1>2 DEF PreviousAlike, TypeInv
    <3>2. previous = <<previous[1], previous[2]>>
      BY <3>1 DEF Places
    <3>. HIDE DEF name
    <3>. QED BY ONLY <3>1, <3>2, <2>1
  <2>4. name \in EntryNames
    <3>1. unit.subs[unit.prv] \in SubSections
      BY <2>2, <1>2, ElementOfSeq
    <3>. QED BY <3>1 DEF SubSections
  <2>. HIDE DEF name
  <2>5. Lands(unit, unit', name, 0)
    BY <2>1, <2>2, <2>4, OpeningLands
  <2>6. Reads /\ CurrentNumber'
    <3>1. now' = <<name, 0>>
      BY ONLY <2>1, <2>3
    <3>. QED BY <3>1, <2>1, <2>5, LandsAgrees
  <2>7. StackNumbers'
    BY <2>1, <2>2, <2>5, NumbersStack DEF Lands
  <2>. QED BY <2>6, <2>7 DEF Agrees
<1>. QED BY <1>1, <1>2

LEMMA OpenStructAgrees ==
  ASSUME TextInv, lost' \subseteq {"pushed"}, OpenStruct
  PROVE  Agrees
<1>1. CASE unit.cur = 0
  <2>1. UNCHANGED <<gas, unit, place, lost>>
    BY <1>1 DEF OpenStruct, Abort
  <2>2. CurrentNumber /\ StackNumbers
    BY <2>1, TextUnit
  <2>. QED BY <2>1, <2>2, StuckAgrees
<1>2. CASE unit.cur # 0
  <2>. DEFINE p == Push(unit)
              op == Statement("struct")
              v == AddEntry(p, op)
              pair == <<unit.cur, unit.prv>>
  <2>1. /\ now' = <<Abs, 0>> /\ gasStack' = gasStack /\ lost \subseteq {"pushed"}
        /\ unit' = v /\ Linked(v)
    BY <1>2 DEF OpenStruct, Linked
  <2>2. Tidy(unit) /\ IsUnit(unit) /\ IsMapped(unit) /\ TypeInv
    BY <2>1, TextUnit
  <2>3. op \in Ops /\ op.kind = "struct"
    BY Operations DEF Kinds
  <2>4. Tidy(p) /\ p.entries = unit.entries /\ p.stack = Append(unit.stack, pair)
    BY <1>2, <2>2, PushTidy, PushUnit
  <2>. HIDE DEF p, op
  <2>5. Adds(p, v, op)
    BY <2>3, <2>4, AddEntryAdds
  <2>. HIDE DEF v
  <2>6. Follows(unit, v, now, now')
    <3>1. now' = PlaceAfter(now, op)
      BY <2>1, <2>3 DEF PlaceAfter
    <3>. QED BY <3>1, <2>3, <2>4, <2>5 DEF Follows, Adds
  <2>7. Len(gasStack') # Len(unit'.stack)
    <3>1. /\ unit.stack \in Seq(Nat \X Nat) /\ pair \in Nat \X Nat
          /\ Len(gasStack) <= Len(unit.stack) /\ Len(gasStack) \in Nat
      <4>1. /\ unit.stack \in Seq(Nat \X Nat) /\ Len(unit.subs) \in Nat
            /\ unit.cur \in 0 .. Len(unit.subs) /\ unit.prv \in 0 .. Len(unit.subs)
        BY <2>2, LenProperties DEF IsUnit
      <4>2. /\ gasStack \in Seq(Places \X (Places \cup {None}))
            /\ Len(gasStack) <= Len(unit.stack)
        BY <2>2 DEF TypeInv
      <4>3. Len(gasStack) \in Nat
        BY ONLY <4>2, LenProperties
      <4>4. pair \in Nat \X Nat
        BY ONLY <4>1 DEF pair
      <4>. QED BY ONLY <4>1, <4>2, <4>3, <4>4
    <3>2. unit'.stack = Append(unit.stack, pair)
      BY <2>1, <2>4, <2>5 DEF Adds
    <3>. HIDE DEF pair
    <3>3. Len(unit'.stack) = Len(unit.stack) + 1 /\ Len(unit.stack) \in Nat
      BY ONLY <3>1, <3>2, AppendProperties, LenProperties
    <3>. QED BY ONLY <3>1, <3>3, <2>1
  <2>. QED BY <2>1, <2>6, <2>7 DEF Agrees, Reads, CurrentNumber, StackNumbers
<1>. QED BY <1>1, <1>2

LEMMA TextStep ==
  ASSUME TextInv, lost' \subseteq {"pushed"}, Next
  PROVE  Agrees
BY ContentsAgrees, OpenSectionAgrees, OpenSubSectionAgrees, PushSectionAgrees,
   PopSectionAgrees, PreviousSectionAgrees, OpenStructAgrees, ContentsNext DEF Next, SectionStatement

LEMMA NumberStep == TextInv /\ [Next]_vars => NumberInv'
<1>1. CASE UNCHANGED vars
  BY <1>1 DEF TextInv, vars, gas, NumberInv, CurrentNumber, StackNumbers
<1>2. ASSUME TextInv, Next PROVE NumberInv'
  BY <1>2, TextStep DEF Agrees, NumberInv
<1>. QED BY <1>1, <1>2

LEMMA ReplayStep == TextInv /\ ReplayInv /\ [Next]_vars => ReplayInv'
<1>. SUFFICES ASSUME TextInv, ReplayInv, [Next]_vars, lost' \subseteq {"pushed"}
              PROVE  (\E at : Replays(at))'
  BY DEF ReplayInv
<1>1. lost \subseteq {"pushed"}
  BY LostGrows DEF vars
<1>2. PICK at : Replays(at)
  BY <1>1 DEF ReplayInv
<1>3. CASE UNCHANGED <<now, unit, place>>
  <2>1. Replays(at)'
    BY <1>2, <1>3 DEF Replays, HasContents
  <2>. QED BY <2>1
<1>4. CASE Linked(unit') /\ Follows(unit, unit', now, now')
  <2>1. TypeInv
    BY DEF TextInv
  <2>. QED BY <2>1, <1>2, <1>4, ReplayFollows
<1>5. CASE Next
  BY <1>3, <1>4, <1>5, TextStep DEF Agrees, Reads
<1>6. CASE UNCHANGED vars
  BY <1>3, <1>6 DEF vars, gas
<1>. QED BY <1>5, <1>6

LEMMA TextInit == Init => NumberInv /\ ReplayInv
<1>. SUFFICES ASSUME Init PROVE NumberInv /\ ReplayInv
  OBVIOUS
<1>1. /\ unit.entries = <<>> /\ unit.cur = 0 /\ now = <<Text, 0>> /\ gasStack = <<>>
      /\ Count(unit) = 0
  BY DEF Init, NoUnit, Count
<1>2. NumberInv
  BY <1>1 DEF NumberInv, CurrentNumber, StackNumbers, NumberAlike
<1>. DEFINE at == [k \in 0 .. 0 |-> <<Text, 0>>]
<1>3. IsReplay(<<>>, at)
  BY DEF IsReplay
<1>4. Replays(at)
  BY <1>1, <1>3 DEF Replays
<1>. QED BY <1>2, <1>4 DEF ReplayInv

\* Reading what is written is reading the entries again.
LEMMA ReplayAssembled ==
  ASSUME TidyInv, ReplayInv
  PROVE  AssembledAlike
<1>. SUFFICES ASSUME lost \subseteq {"pushed"} PROVE AssembledAlike
  BY DEF AssembledAlike
<1>. DEFINE N == Count(unit)
            entries == unit.entries
            w == Ident(N)
            Step(at, k) == IF k = 0 THEN <<Text, 0>> ELSE PlaceAfter(at[k - 1], entries[w[k]])
            IsPlaces(at) == at = [k \in 0 .. Len(w) |-> Step(at, k)]
            got == WrittenPlace(w)
<1>1. Tidy(unit) /\ N \in Nat
  BY TidyUnit, LenProperties DEF Tidy, IsUnit, Count
<1>2. Written = w
  BY <1>1, WrittenIs DEF Tidy
<1>3. Len(w) = N /\ \A k \in 1 .. N : w[k] = k
  BY <1>1 DEF Ident
<1>4. PICK at : Replays(at)
  BY DEF ReplayInv
<1>5. /\ at = [k \in 0 .. N |-> at[k]] /\ at[0] = <<Text, 0>>
      /\ \A k \in 1 .. N : at[k] = PlaceAfter(at[k - 1], entries[k])
      /\ \A k \in 1 .. N : HasContents(k) => at[k] = place[k]
  BY <1>4 DEF Replays, IsReplay, Count
<1>6. got = CHOOSE g : IsPlaces(g)
  BY DEF WrittenPlace, PlaceAfter
<1>. HIDE DEF w, N, entries, got
<1>7. IsPlaces(at)
  <2>1. \A k \in 0 .. N : at[k] = Step(at, k)
    <3>. SUFFICES ASSUME NEW k \in 0 .. N PROVE at[k] = Step(at, k)
      OBVIOUS
    <3>1. CASE k = 0
      BY <3>1, <1>5
    <3>2. CASE k # 0
      <4>1. k \in 1 .. N
        BY <3>2, <1>1
      <4>. QED BY <4>1, <3>2, <1>3, <1>5
    <3>. QED BY <3>1, <3>2
  <2>. HIDE DEF Step
  <2>2. at = [k \in 0 .. N |-> Step(at, k)]
    BY <2>1, <1>5
  <2>. QED BY <2>2, <1>3
<1>8. IsPlaces(got)
  <2>. HIDE DEF IsPlaces
  <2>. QED BY <1>6, <1>7
<1>9. \A k \in 0 .. N : got[k] = Step(got, k)
  <2>. HIDE DEF Step
  <2>1. got = [k \in 0 .. N |-> Step(got, k)]
    BY <1>8, <1>3
  <2>. QED BY <2>1
<1>10. \A k \in 0 .. N : got[k] = at[k]
  <2>. DEFINE T == {k \in Nat : k <= N /\ got[k] # at[k]}
  <2>. SUFFICES T = {}
    <3>1. \A k \in 0 .. N : k \in Nat /\ k <= N
      BY ONLY <1>1
    <3>. QED BY <3>1
  <2>. SUFFICES ASSUME T # {} PROVE FALSE
    OBVIOUS
  <2>1. PICK k \in T : \A j \in T : k <= j
    <3>1. T \in SUBSET Nat
      OBVIOUS
    <3>. QED BY <3>1, LeastNat
  <2>2. k \in 0 .. N /\ got[k] # at[k]
    BY <2>1, <1>1
  <2>3. k # 0
    BY <2>2, <1>5, <1>9
  <2>4. k \in 1 .. N /\ k - 1 \in Nat /\ k - 1 <= N /\ k - 1 \notin T
    BY <2>1, <2>2, <2>3, <1>1
  <2>5. got[k - 1] = at[k - 1]
    BY <2>4
  <2>6. got[k] = PlaceAfter(got[k - 1], entries[k])
    BY <2>2, <2>3, <2>4, <1>3, <1>9
  <2>. QED BY <2>2, <2>4, <2>5, <2>6, <1>5
<1>11. \A k \in 1 .. N : HasContents(k) => got[k] = place[k]
  <2>1. \A k \in 1 .. N : k \in 0 .. N
    BY <1>1
  <2>. QED BY <2>1, <1>5, <1>10
<1>12. \A k \in 1 .. Len(w) : HasContents(w[k]) => got[k] = place[w[k]]
  BY <1>3, <1>11
<1>. QED BY <1>2, <1>12 DEF AssembledAlike, got

-----------------------------------------------------------------------------

\* For every file that has a section before its first .subsection: the list of
\* a section (MaoUnit::AddNewSubSection, SubSection::set_last_entry) is its
\* entries in the order read, linked both ways; a subsection is the range
\* between its first and its last entry; and PrintMaoUnit writes every entry
\* once, in the order read.
THEOREM ListsTheorem == Spec => []SectionsAreLists
<1>1. TypeInv /\ TiledInv => SectionsAreLists
  BY TiledLists DEF TidyInv
<1>. QED BY <1>1, SectionTypes, TiledInvariant, PTL

LEMMA TextInvariant == Spec => [](NumberInv /\ ReplayInv)
<1>1. /\ TypeInv /\ Account /\ TiledInv /\ NumberInv /\ ReplayInv /\ [Next]_vars
      => NumberInv' /\ ReplayInv'
  BY NumberStep, ReplayStep DEF TextInv
<1>. QED BY <1>1, TextInit, SectionTypes, AccountTheorem, TiledInvariant, PTL DEF Spec

\* For every file: gas, reading what PrintMaoUnit writes, assembles each label,
\* instruction and datum into the section and the subsection it put it in when
\* it read the original, unless the file did one of the things that make MAO
\* lose its account (the section callbacks of ir.cc, MaoUnit::PushSubSection,
\* PopSubSection, SetPreviousSubSection).
THEOREM AssembledTheorem == Spec => []AssembledAlike
<1>1. TypeInv /\ TiledInv /\ NumberInv /\ ReplayInv => AssembledAlike
  BY ReplayAssembled DEF TidyInv
<1>. QED BY <1>1, SectionTypes, TiledInvariant, TextInvariant, PTL
=============================================================================
