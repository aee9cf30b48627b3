------------------------ MODULE FunctionFinderProofs ------------------------
(***************************************************************************)
(* For every file, every symbol table and every section: the range of      *)
(* entries of each function is exactly what GetFunction answers for it,    *)
(* unless a function has two names; and an instruction of a code section   *)
(* is left without a function only behind the .size of one.  Both rest on  *)
(* the list of a section, which next_ walks onward from its first entry    *)
(* and on which no entry has two predecessors, whatever the file does.     *)
(***************************************************************************)
EXTENDS FunctionFinder, SectionsProofs

-----------------------------------------------------------------------------
(* The lists of the sections, whatever the file does.                      *)

\* Subsection s is the first (the last) of its section.
IsFirstSub(u, s) == \A t \in 1 .. s - 1 : u.subs[t].name # u.subs[s].name
IsLastSub(u, s) == \A t \in s + 1 .. Len(u.subs) : u.subs[t].name # u.subs[s].name

\* A .subsection before any section is linked to itself, for a while.
SelfLinked(u, e) ==
  e = 1 /\ u.next[1] = 1 /\ u.entries[1].kind = "subsection" /\ NameOf(u, 1) = Start

Onward(u, e) == u.next[e] = 0 \/ u.next[e] \in e + 1 .. Count(u) \/ SelfLinked(u, e)

\* e is the first entry of its section, or follows one of its section.
IsHead(u, e) ==
  \E s \in 1 .. Len(u.subs) :
    IsFirstSub(u, s) /\ u.subs[s].first = e /\ u.subs[s].name = NameOf(u, e)
Reached(u, e) ==
  \/ IsHead(u, e)
  \/ \E a \in 1 .. e - 1 : u.next[a] = e /\ NameOf(u, a) = NameOf(u, e)

EndsOpen(u, e) == u.next[e] = 0 \/ SelfLinked(u, e)

SubsChained(u) ==
  \A s \in 1 .. Len(u.subs) :
    /\ NameOf(u, u.subs[s].first) = u.subs[s].name
    /\ NameOf(u, u.subs[s].last) = u.subs[s].name
    /\ IsLastSub(u, s) => EndsOpen(u, u.subs[s].last)

NextOnce(u) ==
  \A a, b \in 1 .. Count(u) : u.next[a] = u.next[b] /\ u.next[a] # 0 => a = b

EntriesChained(u) ==
  /\ \A e \in 1 .. Count(u) : Onward(u, e) /\ Reached(u, e)
  /\ NextOnce(u)

\* Every label is an entry of its own.
LabelsOnce(u) ==
  /\ \A e \in 1 .. Count(u) :
       u.entries[e].kind = "label" => u.entries[e] = Named("label", u.entries[e].name)
  /\ \A d, e \in 1 .. Count(u) :
       u.entries[d].kind = "label" /\ u.entries[d] = u.entries[e] => d = e

Sound(u) ==
  /\ IsUnit(u) /\ IsMapped(u) /\ Linkable(u)
  /\ SubsChained(u) /\ EntriesChained(u) /\ LabelsOnce(u)

\* What is added is no label, or a new one.
IsFresh(u, op) ==
  op.kind = "label" =>
    op = Named("label", op.name) /\ \A e \in 1 .. Count(u) : u.entries[e] # op

\* v is u with one more entry, of the section named, linked behind b.
Lengthens(u, v, b, name) ==
  LET N == Count(u) IN
  /\ Count(v) = N + 1
  /\ \A d \in 1 .. N : v.entries[d] = u.entries[d] /\ NameOf(v, d) = NameOf(u, d)
  /\ NameOf(v, N + 1) = name
  /\ Len(u.subs) <= Len(v.subs)
  /\ \A s \in 1 .. Len(u.subs) :
       v.subs[s].name = u.subs[s].name /\ v.subs[s].first = u.subs[s].first
  /\ Joins(u, v, b)

\* b is where the list of the section ends, or NULL if it is new.
IsEnd(u, b, name) ==
  IF b = 0 THEN \A s \in 1 .. Len(u.subs) : u.subs[s].name # name
  ELSE b \in 1 .. Count(u) /\ NameOf(u, b) = name /\ EndsOpen(u, b)

\* The links of an entry behind the end of its section go on being a list.
LEMMA LengthensChained ==
  ASSUME NEW u, NEW v, Count(u) \in Nat, Len(u.subs) \in Nat, Len(v.subs) \in Nat,
         LinkTypes(u), EntriesChained(u),
         NEW b, NEW name, Lengthens(u, v, b, name), IsEnd(u, b, name),
         b = 0 => /\ Len(v.subs) = Len(u.subs) + 1
                  /\ v.subs[Len(v.subs)].first = Count(u) + 1
                  /\ v.subs[Len(v.subs)].name = name
  PROVE  EntriesChained(v)
<1>. DEFINE N == Count(u)
            S == Len(u.subs)
<1>1. /\ N \in Nat /\ Count(v) = N + 1 /\ S \in Nat /\ Len(v.subs) \in Nat /\ S <= Len(v.subs)
      /\ \A d \in 1 .. N : v.entries[d] = u.entries[d] /\ NameOf(v, d) = NameOf(u, d)
      /\ NameOf(v, N + 1) = name
      /\ \A s \in 1 .. S : v.subs[s].name = u.subs[s].name /\ v.subs[s].first = u.subs[s].first
  BY DEF Lengthens
<1>2. /\ \A d \in 1 .. N : d # b => v.next[d] = u.next[d]
      /\ b # 0 => v.next[b] = N + 1
      /\ v.next[N + 1] = 0
  BY DEF Lengthens, Joins
<1>3. b # 0 => b \in 1 .. N /\ NameOf(u, b) = name /\ (u.next[b] = 0 \/ (b = 1 /\ u.next[1] = 1))
  BY DEF IsEnd, EndsOpen, SelfLinked
<1>4. \A e \in 1 .. N : Onward(u, e) /\ Reached(u, e)
  BY DEF EntriesChained
<1>5. ASSUME NEW e \in 1 .. N, e # b
      PROVE  Onward(v, e)
  <2>1. v.next[e] = u.next[e]
    BY <1>2, <1>5
  <2>2. SelfLinked(u, e) => SelfLinked(v, e)
    <3>1. SelfLinked(u, e) => e = 1
      BY DEF SelfLinked
    <3>2. v.entries[e] = u.entries[e] /\ NameOf(v, e) = NameOf(u, e)
      BY <1>1
    <3>. QED BY ONLY <3>1, <3>2, <2>1 DEF SelfLinked
  <2>3. u.next[e] \in e + 1 .. N => u.next[e] \in e + 1 .. N + 1
    BY <1>1
  <2>. QED BY ONLY <2>1, <2>2, <2>3, <1>1, <1>4, e \in 1 .. N DEF Onward
<1>6. ASSUME NEW e \in 1 .. N
      PROVE  Reached(v, e)
  <2>1. CASE IsHead(u, e)
    <3>1. PICK s \in 1 .. S :
            IsFirstSub(u, s) /\ u.subs[s].first = e /\ u.subs[s].name = NameOf(u, e)
      BY <2>1 DEF IsHead
    <3>2. \A t \in 1 .. s - 1 : t \in 1 .. S
      BY <1>1
    <3>3. IsFirstSub(v, s)
      BY ONLY <3>1, <3>2, <1>1 DEF IsFirstSub
    <3>4. v.subs[s].first = e /\ v.subs[s].name = NameOf(v, e)
      BY <3>1, <1>1
    <3>5. s \in 1 .. Len(v.subs)
      BY <1>1
    <3>. QED BY ONLY <3>3, <3>4, <3>5 DEF Reached, IsHead
  <2>2. CASE \E a \in 1 .. e - 1 : u.next[a] = e /\ NameOf(u, a) = NameOf(u, e)
    <3>1. PICK a \in 1 .. e - 1 : u.next[a] = e /\ NameOf(u, a) = NameOf(u, e)
      BY <2>2
    <3>2. a \in 1 .. N /\ a < e
      BY <1>1
    <3>3. a # b
      BY <3>1, <3>2, <1>1, <1>3
    <3>4. v.next[a] = e /\ NameOf(v, a) = NameOf(v, e)
      BY <3>1, <3>2, <3>3, <1>1, <1>2
    <3>. QED BY ONLY <3>4, a \in 1 .. e - 1 DEF Reached
  <2>. QED BY ONLY <2>1, <2>2, <1>4, e \in 1 .. N DEF Reached
<1>7. Onward(v, N + 1) /\ (b # 0 => Onward(v, b))
  BY <1>1, <1>2, <1>3 DEF Onward
<1>8. Reached(v, N + 1)
  <2>1. CASE b # 0
    <3>1. b \in 1 .. (N + 1) - 1 /\ v.next[b] = N + 1 /\ NameOf(v, b) = NameOf(v, N + 1)
      BY <2>1, <1>1, <1>2, <1>3
    <3>. QED BY ONLY <3>1 DEF Reached
  <2>2. CASE b = 0
    <3>. DEFINE s == S + 1
    <3>1. /\ Len(v.subs) = s /\ v.subs[s].first = N + 1 /\ v.subs[s].name = name
          /\ s \in 1 .. Len(v.subs)
      BY <2>2, <1>1
    <3>2. \A t \in 1 .. s - 1 : v.subs[t].name # name
      <4>1. \A t \in 1 .. S : u.subs[t].name # name
        BY <2>2 DEF IsEnd
      <4>. QED BY <4>1, <1>1
    <3>. HIDE DEF s
    <3>3. IsFirstSub(v, s)
      BY ONLY <3>1, <3>2 DEF IsFirstSub
    <3>. QED BY ONLY <3>1, <3>3, <1>1 DEF Reached, IsHead
  <2>. QED BY <2>1, <2>2
<1>9. NextOnce(v)
  <2>1. \A e \in 1 .. N : u.next[e] # N + 1
    <3>. TAKE e \in 1 .. N
    <3>1. u.next[e] = 0 \/ u.next[e] \in e + 1 .. N \/ (e = 1 /\ u.next[e] = 1)
      BY <1>4 DEF Onward, SelfLinked
    <3>. QED BY <3>1, <1>1
  <2>2. \A a, d \in 1 .. N : u.next[a] = u.next[d] /\ u.next[a] # 0 => a = d
    BY DEF EntriesChained, NextOnce
  <2>3. \A a, d \in 1 .. N + 1 : v.next[a] = v.next[d] /\ v.next[a] # 0 => a = d
    BY ONLY <2>1, <2>2, <1>1, <1>2
  <2>. QED BY <2>3, <1>1 DEF NextOnce
<1>10. \A e \in 1 .. N + 1 : e = N + 1 \/ e \in 1 .. N
  BY <1>1
<1>. QED BY ONLY <1>1, <1>5, <1>6, <1>7, <1>8, <1>9, <1>10 DEF EntriesChained

\* The subsections go on bracketing their sections when the entry opens one or
\* goes into the current one.
LEMMA LengthensSubs ==
  ASSUME NEW u, NEW v, Count(u) \in Nat, Len(u.subs) \in Nat, SubsChained(u),
         \A s \in 1 .. Len(u.subs) :
           u.subs[s].first \in 1 .. Count(u) /\ u.subs[s].last \in 1 .. Count(u),
         NEW b, NEW name, Lengthens(u, v, b, name), b # 0 => NameOf(u, b) = name,
         NEW c \in 1 .. Len(v.subs), Len(v.subs) \in {Len(u.subs), Len(u.subs) + 1},
         c = Len(v.subs), v.subs[c].last = Count(u) + 1, v.subs[c].name = name,
         c = Len(u.subs) + 1 => v.subs[c].first = Count(u) + 1,
         \A s \in 1 .. Len(u.subs) : s # c => v.subs[s].last = u.subs[s].last
  PROVE  SubsChained(v)
<1>. DEFINE N == Count(u)
            S == Len(u.subs)
<1>1. /\ N \in Nat /\ Count(v) = N + 1 /\ S \in Nat /\ Len(v.subs) \in {S, S + 1}
      /\ \A d \in 1 .. N : v.entries[d] = u.entries[d] /\ NameOf(v, d) = NameOf(u, d)
      /\ NameOf(v, N + 1) = name
      /\ \A s \in 1 .. S : v.subs[s].name = u.subs[s].name /\ v.subs[s].first = u.subs[s].first
  BY DEF Lengthens
<1>2. /\ \A d \in 1 .. N : d # b => v.next[d] = u.next[d]
      /\ v.next[N + 1] = 0
  BY DEF Lengthens, Joins
<1>3. /\ \A s \in 1 .. S : u.subs[s].first \in 1 .. N /\ u.subs[s].last \in 1 .. N
      /\ \A s \in 1 .. S : s # c => v.subs[s].last = u.subs[s].last
      /\ c = Len(v.subs) /\ v.subs[c].last = N + 1 /\ v.subs[c].name = name
      /\ c = S + 1 => v.subs[c].first = N + 1
      /\ b # 0 => NameOf(u, b) = name
  OBVIOUS
<1>4. \A s \in 1 .. S :
        /\ NameOf(u, u.subs[s].first) = u.subs[s].name
        /\ NameOf(u, u.subs[s].last) = u.subs[s].name
        /\ IsLastSub(u, s) => EndsOpen(u, u.subs[s].last)
  BY DEF SubsChained
<1>. HIDE DEF N, S
<1>5. ASSUME NEW s \in 1 .. S
      PROVE  NameOf(v, v.subs[s].first) = v.subs[s].name
  BY ONLY <1>1, <1>3, <1>4, s \in 1 .. S
<1>6. ASSUME NEW s \in 1 .. S, s # c
      PROVE  /\ NameOf(v, v.subs[s].last) = v.subs[s].name
             /\ IsLastSub(v, s) => EndsOpen(v, v.subs[s].last)
  <2>. DEFINE l == u.subs[s].last
  <2>1. l \in 1 .. N /\ v.subs[s].last = l /\ NameOf(u, l) = u.subs[s].name
    BY <1>3, <1>4, <1>6
  <2>. HIDE DEF l
  <2>2. NameOf(v, l) = v.subs[s].name
    BY <2>1, <1>1
  <2>3. ASSUME IsLastSub(v, s)
        PROVE  EndsOpen(v, l)
    <3>1. \A t \in s + 1 .. Len(v.subs) : v.subs[t].name # v.subs[s].name
      BY <2>3 DEF IsLastSub
    <3>2. u.subs[s].name # name
      <4>1. c \in s + 1 .. Len(v.subs)
        BY ONLY <1>1, <1>3, <1>6, c \in 1 .. Len(v.subs), s \in 1 .. S
      <4>. QED BY <4>1, <3>1, <1>1, <1>3
    <3>3. IsLastSub(u, s)
      <4>1. \A t \in s + 1 .. S : t \in s + 1 .. Len(v.subs) /\ t \in 1 .. S
        BY ONLY <1>1, s \in 1 .. S
      <4>. QED BY ONLY <4>1, <3>1, <1>1, s \in 1 .. S DEF IsLastSub, S
    <3>4. EndsOpen(u, l)
      BY <3>3, <1>4 DEF l
    <3>5. v.next[l] = u.next[l]
      BY <3>2, <2>1, <1>2, <1>3
    <3>6. v.entries[l] = u.entries[l] /\ NameOf(v, l) = NameOf(u, l)
      BY <2>1, <1>1
    <3>. QED BY ONLY <3>4, <3>5, <3>6 DEF EndsOpen, SelfLinked
  <2>. QED BY <2>1, <2>2, <2>3
<1>7. /\ NameOf(v, v.subs[c].last) = v.subs[c].name
      /\ EndsOpen(v, v.subs[c].last)
  BY <1>1, <1>2, <1>3 DEF EndsOpen
<1>8. NameOf(v, v.subs[c].first) = v.subs[c].name
  <2>1. c \in 1 .. S \/ c = S + 1
    BY <1>1, <1>3
  <2>. QED BY <2>1, <1>1, <1>3, <1>5
<1>9. \A s \in 1 .. Len(v.subs) : s = c \/ s \in 1 .. S
  BY <1>1, <1>3
<1>. QED BY ONLY <1>5, <1>6, <1>7, <1>8, <1>9 DEF SubsChained

\* A subsection that takes the entry, and one that is opened for it.
LEMMA ContinueSound ==
  ASSUME NEW u, Sound(u), NEW v, Count(v) = Count(u) + 1, Continues(u, v),
         \A d \in 1 .. Count(u) : v.subOf[d] = u.subOf[d] /\ v.entries[d] = u.entries[d],
         v.subOf[Count(u) + 1] = v.cur
  PROVE  Linkable(v) /\ SubsChained(v) /\ EntriesChained(v)
<1>. DEFINE N == Count(u)
            S == Len(u.subs)
            c == u.cur
            b == u.subs[c].last
            name == u.subs[c].name
<1>1. /\ N \in Nat /\ S \in Nat /\ c = S
      /\ \A s \in 1 .. S :
           /\ u.subs[s].first \in Nat /\ u.subs[s].last \in 1 .. N
           /\ u.subs[s].first <= u.subs[s].last /\ 1 <= u.subs[s].first
  BY SubSectionNumbers DEF Sound, Linkable
<1>2. /\ Len(v.subs) = S /\ v.cur = c /\ c # 0
      /\ \A s \in 1 .. S : v.subs[s] = IF s = c THEN [u.subs[s] EXCEPT !.last = N + 1] ELSE u.subs[s]
      /\ Joins(u, v, b)
  BY DEF Continues
<1>3. c \in 1 .. S
  BY <1>1, <1>2
<1>4. /\ \A s \in 1 .. S : v.subs[s].name = u.subs[s].name /\ v.subs[s].first = u.subs[s].first
      /\ \A s \in 1 .. S : s # c => v.subs[s].last = u.subs[s].last
      /\ v.subs[c].last = N + 1
  <2>1. \A s \in 1 .. S : u.subs[s] \in SubSections
    BY <1>1, ElementOfSeq DEF Sound, IsUnit
  <2>. QED BY <1>2, <1>3, <2>1 DEF SubSections
<1>5. \A d \in 1 .. N : u.subOf[d] \in 1 .. S
  BY DEF Sound, IsMapped, Count
<1>6. \A d \in 1 .. N : v.entries[d] = u.entries[d] /\ NameOf(v, d) = NameOf(u, d)
  BY <1>4, <1>5 DEF NameOf
<1>7. NameOf(v, N + 1) = name
  BY <1>2, <1>3, <1>4 DEF NameOf
<1>8. b # 0 /\ IsEnd(u, b, name)
  <2>1. b \in 1 .. N /\ b # 0
    BY <1>1, <1>3
  <2>2. IsLastSub(u, c)
    BY <1>1 DEF IsLastSub
  <2>3. NameOf(u, b) = name /\ EndsOpen(u, b)
    BY <1>3, <2>2 DEF Sound, SubsChained
  <2>. QED BY <2>1, <2>3 DEF IsEnd
<1>9. Linkable(v)
  <2>1. LinkTypes(v)
    BY <1>2 DEF Joins, LinkTypes
  <2>2. \A s \in 1 .. S : 1 <= v.subs[s].first /\ v.subs[s].first <= v.subs[s].last
                          /\ v.subs[s].last <= N + 1
    <3> TAKE s \in 1 .. S
    <3>1. /\ u.subs[s].first \in Nat /\ u.subs[s].last \in 1 .. N
          /\ u.subs[s].first <= u.subs[s].last /\ 1 <= u.subs[s].first
      BY ONLY <1>1, s \in 1 .. S
    <3>2. /\ v.subs[s].first = u.subs[s].first
          /\ v.subs[s].last = IF s = c THEN N + 1 ELSE u.subs[s].last
      BY ONLY <1>4, s \in 1 .. S
    <3>. QED BY ONLY <1>1, <3>1, <3>2
  <2>. QED BY <2>1, <2>2, <1>1, <1>2 DEF Linkable
<1>10. Lengthens(u, v, b, name)
  <2>1. Len(u.subs) <= Len(v.subs)
    BY <1>1, <1>2
  <2>. HIDE DEF b, name, S
  <2>. QED BY <2>1, <1>2, <1>4, <1>6, <1>7 DEF Lengthens, S
<1>. HIDE DEF b, name
<1>11. EntriesChained(v)
  <2>1. LinkTypes(u) /\ EntriesChained(u) /\ Len(v.subs) \in Nat
    BY <1>1, <1>2 DEF Sound, Linkable
  <2>. QED BY <2>1, <1>1, <1>8, <1>10, LengthensChained
<1>12. SubsChained(v)
  <2>1. SubsChained(u) /\ NameOf(u, b) = name
    BY <1>8 DEF Sound, IsEnd
  <2>2. \A s \in 1 .. S : u.subs[s].first \in 1 .. N /\ u.subs[s].last \in 1 .. N
    BY <1>1
  <2>3. /\ c \in 1 .. Len(v.subs) /\ Len(v.subs) \in {S, S + 1} /\ c = Len(v.subs) /\ c # S + 1
        /\ v.subs[c].last = N + 1 /\ v.subs[c].name = name
    BY <1>1, <1>2, <1>3, <1>4 DEF name
  <2>4. \A s \in 1 .. S : s # c => v.subs[s].last = u.subs[s].last
    BY <1>4
  <2>5. N \in Nat /\ S \in Nat
    BY <1>1
  <2>. QED BY ONLY <2>1, <2>2, <2>3, <2>4, <2>5, <1>10, LengthensSubs
<1>. QED BY <1>9, <1>11, <1>12

LEMMA BeginSound ==
  ASSUME NEW u, Sound(u), NEW v, Count(v) = Count(u) + 1,
         NEW name, NEW number, NEW start, Begins(u, v, name, number, start),
         \A d \in 1 .. Count(u) : v.subOf[d] = u.subOf[d] /\ v.entries[d] = u.entries[d],
         v.subOf[Count(u) + 1] = v.cur
  PROVE  Linkable(v) /\ SubsChained(v) /\ EntriesChained(v)
<1>. DEFINE N == Count(u)
            S == Len(u.subs)
            b == LastEntryOf(u, name)
            c == S + 1
<1>1. /\ N \in Nat /\ S \in Nat
      /\ \A s \in 1 .. S :
           /\ u.subs[s].first \in Nat /\ u.subs[s].last \in 1 .. N
           /\ u.subs[s].first <= u.subs[s].last /\ 1 <= u.subs[s].first
  BY SubSectionNumbers DEF Sound, Linkable
<1>2. /\ Len(v.subs) = c /\ v.cur = c
      /\ \A s \in 1 .. S : v.subs[s] = u.subs[s]
      /\ v.subs[c].first = N + 1 /\ v.subs[c].last = N + 1 /\ v.subs[c].name = name
      /\ Joins(u, v, b)
  BY DEF Begins
<1>3. \A d \in 1 .. N : v.entries[d] = u.entries[d] /\ NameOf(v, d) = NameOf(u, d)
  <2>1. \A d \in 1 .. N : u.subOf[d] \in 1 .. S
    BY DEF Sound, IsMapped, Count
  <2>. QED BY <1>2, <2>1 DEF NameOf
<1>4. NameOf(v, N + 1) = name
  BY <1>2 DEF NameOf
<1>5. /\ IsEnd(u, b, name)
      /\ b # 0 => NameOf(u, b) = name
  <2>. DEFINE m == LastSubSection(u, name)
              own == {s \in 1 .. S : u.subs[s].name = name}
  <2>1. /\ own = {} => m = 0
        /\ own # {} => m \in own /\ \A t \in own : t <= m
    BY <1>1, LastSubSectionIs
  <2>2. b = IF m = 0 THEN 0 ELSE u.subs[m].last
    BY DEF LastEntryOf
  <2>. HIDE DEF m
  <2>3. CASE own = {}
    <3>1. b = 0
      BY <2>1, <2>2, <2>3
    <3>2. \A s \in 1 .. S : u.subs[s].name # name
      BY <2>3
    <3>. HIDE DEF b
    <3>. QED BY <3>1, <3>2 DEF IsEnd
  <2>4. CASE own # {}
    <3>1. m \in 1 .. S /\ u.subs[m].name = name /\ \A t \in own : t <= m
      BY <2>1, <2>4
    <3>2. IsLastSub(u, m)
      <4>1. \A t \in m + 1 .. S : t \in 1 .. S /\ ~(t <= m)
        BY <1>1, <3>1
      <4>. QED BY <4>1, <3>1 DEF IsLastSub
    <3>3. b = u.subs[m].last /\ b \in 1 .. N
      BY <1>1, <2>2, <3>1
    <3>. HIDE DEF b
    <3>4. NameOf(u, b) = name /\ EndsOpen(u, b)
      BY <3>1, <3>2, <3>3 DEF Sound, SubsChained
    <3>. QED BY <3>3, <3>4, <1>1 DEF IsEnd
  <2>. QED BY <2>3, <2>4
<1>. HIDE DEF b
<1>6. Linkable(v)
  <2>1. LinkTypes(v)
    BY <1>2 DEF Joins, LinkTypes
  <2>2. \A s \in 1 .. c : 1 <= v.subs[s].first /\ v.subs[s].first <= v.subs[s].last
                          /\ v.subs[s].last <= N + 1
    <3>1. \A s \in 1 .. c : s = c \/ s \in 1 .. S
      BY <1>1
    <3>2. 1 <= N + 1
      BY <1>1
    <3>3. ASSUME NEW s \in 1 .. S
          PROVE  1 <= u.subs[s].first /\ u.subs[s].first <= u.subs[s].last
                 /\ u.subs[s].last <= N + 1
      <4>1. u.subs[s].last \in 1 .. N
        BY <1>1
      <4>. QED BY <4>1, <1>1
    <3>. SUFFICES ASSUME NEW s \in 1 .. c
                  PROVE  1 <= v.subs[s].first /\ v.subs[s].first <= v.subs[s].last
                         /\ v.subs[s].last <= N + 1
      OBVIOUS
    <3>4. CASE s = c
      BY ONLY <3>2, <3>4, <1>1, <1>2
    <3>5. CASE s \in 1 .. S
      BY ONLY <3>3, <3>5, <1>1, <1>2
    <3>. QED BY ONLY <3>1, <3>4, <3>5, s \in 1 .. c
  <2>. QED BY <2>1, <2>2, <1>2 DEF Linkable
<1>7. Lengthens(u, v, b, name)
  <2>1. Len(u.subs) <= Len(v.subs)
    BY <1>1, <1>2
  <2>. QED BY <2>1, <1>2, <1>3, <1>4 DEF Lengthens
<1>8. EntriesChained(v)
  <2>1. LinkTypes(u) /\ EntriesChained(u) /\ Len(v.subs) \in Nat
    BY <1>1, <1>2 DEF Sound, Linkable
  <2>. QED BY <2>1, <1>1, <1>2, <1>5, <1>7, LengthensChained
<1>9. SubsChained(v)
  <2>1. SubsChained(u) /\ c \in 1 .. Len(v.subs) /\ Len(v.subs) \in {S, S + 1}
    BY <1>1, <1>2 DEF Sound
  <2>2. \A s \in 1 .. S : u.subs[s].first \in 1 .. N /\ u.subs[s].last \in 1 .. N
    BY <1>1
  <2>3. \A s \in 1 .. S : s # c => v.subs[s].last = u.subs[s].last
    BY <1>2
  <2>. QED BY <2>1, <2>2, <2>3, <1>1, <1>2, <1>5, <1>7, LengthensSubs
<1>. QED BY <1>6, <1>8, <1>9

\* A .subsection that is the first entry opens two subsections of the start
\* section and is linked to itself.
FirstTwo(v) ==
  /\ Len(v.subs) = 2 /\ v.cur = 2
  /\ \A s \in 1 .. 2 : v.subs[s].name = Start /\ v.subs[s].first = 1 /\ v.subs[s].last = 1
  /\ v.next \in Seq(Nat) /\ Len(v.next) = 1 /\ v.next[1] = 1
  /\ v.prev \in Seq(Nat) /\ Len(v.prev) = 1

LEMMA FirstSubSection ==
  ASSUME NEW u, Sound(u), u.cur = 0, NEW op \in Ops, op.kind = "subsection"
  PROVE  FirstTwo(AddEntry(u, op)) /\ Count(u) = 0
<1>. DEFINE a == Allocate(u, op)
            yes == TRUE
            no == FALSE
            s1 == NewSub(Start, 0, 1, yes)
            s2 == NewSub(Start, op.number, 1, no)
            o1 == AddNewSubSection(a, Start, 0, 1, yes)
            o2 == AddNewSubSection(o1, Start, op.number, 1, no)
            l == SetLastEntry(o2, 1)
            v == AddEntry(u, op)
<1>1. /\ IsUnit(u) /\ IsMapped(u) /\ LinkTypes(u)
      /\ Len(u.subs) = 0 /\ u.subs \in Seq(SubSections)
  BY DEF Sound, Linkable, IsUnit
<1>2. Count(u) = 0
  <2>1. Count(u) \in Nat
    BY <1>1, LenProperties DEF IsUnit, Count
  <2>2. \A e \in 1 .. Count(u) : FALSE
    BY <1>1 DEF IsMapped, Count
  <2>. QED BY <2>1, <2>2
<1>3. u.next = <<>> /\ u.prev = <<>> /\ u.subs = <<>>
  BY <1>1, <1>2, EmptySeq DEF LinkTypes
<1>4. /\ IsUnit(a) /\ a.subs = <<>> /\ a.cur = 0 /\ a.next = <<0>> /\ a.prev = <<0>>
  <2>1. IsUnit(a) /\ a.subs = u.subs /\ a.cur = u.cur
    BY <1>1, AllocateUnit
  <2>2. a.next = Append(u.next, 0) /\ a.prev = Append(u.prev, 0)
    BY <1>1, AllocateFields
  <2>. QED BY <2>1, <2>2, <1>3
<1>5. Start \in EntryNames /\ op.number \in Nat /\ yes \in BOOLEAN /\ no \in BOOLEAN
  BY DEF EntryNames, Ops, AllOps
<1>. HIDE DEF yes, no
<1>18. /\ s1.name = Start /\ s1.first = 1 /\ s1.last = 1 /\ s1 \in SubSections
       /\ s2.name = Start /\ s2.first = 1 /\ s2.last = 1 /\ s2 \in SubSections
       /\ [s2 EXCEPT !.last = 1] = s2
  BY <1>5 DEF NewSub, SubSections
<1>. HIDE DEF a
<1>6. IsUnit(o1)
  BY <1>4, <1>5, NewSubSectionUnit DEF Opens
<1>7. /\ o1.subs = Append(<<>>, s1) /\ o1.cur = 1
      /\ o1.next = <<0>> /\ o1.prev = <<0>>
  <2>1. o1.subs = Append(a.subs, s1)
    BY ONLY <1>6, <1>4, NewSubSectionFields
  <2>2. o1.cur = Len(a.subs) + 1
    BY ONLY <1>4, NewSubSectionFields
  <2>3. LastSubSection(a, Start) = 0 => o1.next = a.next /\ o1.prev = a.prev
    BY ONLY <1>4, NewSubSectionFields
  <2>4. LastSubSection(a, Start) = 0
    BY <1>4 DEF LastSubSection
  <2>5. Len(a.subs) = 0
    BY <1>4
  <2>. HIDE DEF o1, s1
  <2>. QED BY ONLY <2>1, <2>2, <2>3, <2>4, <2>5, <1>4
<1>. HIDE DEF o1
<1>8. IsUnit(o2)
  BY <1>5, <1>6, NewSubSectionUnit DEF Opens
<1>. HIDE DEF s1, s2
<1>19. Len(o1.subs) = 1 /\ o1.subs[1] = s1 /\ o1.subs \in Seq(SubSections)
  BY <1>7, <1>18
<1>9. LastEntryOf(o1, Start) = 1 /\ LastSubSection(o1, Start) # 0
  <2>1. LastSubSection(o1, Start) = 1
    <3>1. Len(o1.subs) \in Nat /\ 1 \in {s \in 1 .. Len(o1.subs) : o1.subs[s].name = Start}
      BY <1>18, <1>19
    <3>2. LastSubSection(o1, Start) \in 1 .. Len(o1.subs)
      BY ONLY <3>1, LastSubSectionIs
    <3>. QED BY <3>2, <1>19
  <2>. QED BY <2>1, <1>18, <1>19 DEF LastEntryOf
<1>10. /\ o2.subs = Append(o1.subs, s2)
       /\ o2.cur = 2 /\ o2.next = <<1>> /\ o2.prev = <<1>>
  <2>1. o2.subs = Append(o1.subs, s2)
    BY ONLY <1>6, NewSubSectionFields DEF s2
  <2>2. o2.cur = Len(o1.subs) + 1
    BY ONLY <1>6, NewSubSectionFields
  <2>3. o2.next = Put(o1.next, 1, 1) /\ o2.prev = Put(o1.prev, 1, 1)
    <3>1. LastSubSection(o1, Start) # 0 =>
            /\ o2.next = Put(o1.next, LastEntryOf(o1, Start), 1)
            /\ o2.prev = Put(o1.prev, 1, LastEntryOf(o1, Start))
      BY ONLY <1>6, NewSubSectionFields
    <3>. QED BY <3>1, <1>9
  <2>4. Put(<<0>>, 1, 1) = <<1>>
    BY DEF Put
  <2>. HIDE DEF o2
  <2>. QED BY ONLY <2>1, <2>2, <2>3, <2>4, <1>7, <1>19
<1>. HIDE DEF o2
<1>20. /\ Len(o2.subs) = 2 /\ o2.subs[1] = s1 /\ o2.subs[2] = s2
       /\ o2.subs \in Seq(SubSections)
  BY <1>10, <1>18, <1>19, AppendProperties
<1>11. l.subs = LastMoved(o2.subs, 2, 1) /\ l.next = <<1>> /\ l.prev = <<1>>
  <2>1. o2.subs[o2.cur].first = 1
    BY <1>10, <1>18, <1>20
  <2>2. /\ l.subs = LastMoved(o2.subs, o2.cur, 1)
        /\ 1 = o2.subs[o2.cur].first => l.next = o2.next /\ l.prev = o2.prev
    BY <1>8, SetLastEntryFields
  <2>. QED BY <2>1, <2>2, <1>10
<1>12. IsUnit(l) /\ l.cur = 2
  BY <1>8, <1>10, SetLastEntryUnit
<1>13. Opened(a, op, 1) = o2
  <2>1. ~IsDefault(op) /\ op.kind # "section"
    BY DEF IsDefault
  <2>2. OpenStart(a, op, FALSE, 1) = o1
    BY <2>1, <1>4 DEF OpenStart, o1, yes
  <2>3. OpenDefault(o1, FALSE, 1) = o1
    BY DEF OpenDefault
  <2>4. OpenNamed(o1, op, 1) = AddNewSubSection(o1, o1.subs[o1.cur].name, op.number, 1, no)
    BY DEF OpenNamed, no
  <2>5. o1.subs[o1.cur].name = Start
    BY <1>7, <1>18, <1>19
  <2>6. IsDefault(op) = FALSE
    BY <2>1 DEF IsDefault
  <2>. QED BY <2>2, <2>3, <2>4, <2>5, <2>6 DEF Opened, o2
<1>14. v = [l EXCEPT !.subOf[1] = o2.cur]
  <2>1. Len(u.entries) + 1 = 1
    BY <1>2 DEF Count
  <2>2. v = [SetLastEntry(Opened(a, op, Len(u.entries) + 1), Len(u.entries) + 1)
              EXCEPT !.subOf[Len(u.entries) + 1] = Opened(a, op, Len(u.entries) + 1).cur]
    BY DEF AddEntry, Opened, IsDefault, SubSectionFor, a
  <2>. QED BY <2>1, <2>2, <1>13
<1>. HIDE DEF l
<1>15. v.subs = l.subs /\ v.cur = 2 /\ v.next = <<1>> /\ v.prev = <<1>>
  BY <1>11, <1>12, <1>14 DEF IsUnit, Fields
<1>. HIDE DEF v
<1>16. /\ Len(v.subs) = 2
       /\ \A s \in 1 .. 2 : v.subs[s].name = Start /\ v.subs[s].first = 1 /\ v.subs[s].last = 1
  <2>1. v.subs = LastMoved(o2.subs, 2, 1)
    BY <1>11, <1>15
  <2>2. /\ Len(v.subs) = 2 /\ v.subs[1] = s1
        /\ v.subs[2] = [s2 EXCEPT !.last = 1]
    <3>. DEFINE subs == o2.subs
                m == LastMoved(subs, 2, 1)
    <3>3. subs \in Seq(SubSections)
      BY <1>20
    <3>. HIDE DEF subs
    <3>4. /\ Len(m) = Len(subs)
          /\ \A s \in 1 .. Len(subs) :
               m[s] = IF s = 2 THEN [subs[s] EXCEPT !.last = 1] ELSE subs[s]
      BY ONLY <3>3, LastMovedSubs
    <3>. HIDE DEF m
    <3>1. /\ Len(v.subs) = Len(o2.subs)
          /\ \A s \in 1 .. Len(o2.subs) :
               v.subs[s] = IF s = 2 THEN [o2.subs[s] EXCEPT !.last = 1] ELSE o2.subs[s]
      BY ONLY <2>1, <3>4 DEF m, subs
    <3>2. 1 \in 1 .. Len(o2.subs) /\ 2 \in 1 .. Len(o2.subs)
      BY <1>20
    <3>. QED BY ONLY <3>1, <3>2, <1>20
  <2>. QED BY <2>2, <1>18
<1>17. FirstTwo(v)
  BY <1>15, <1>16 DEF FirstTwo
<1>. QED BY <1>2, <1>17 DEF v

LEMMA FirstSound ==
  ASSUME NEW v, FirstTwo(v), IsMapped(v), Count(v) = 1, v.entries[1].kind = "subsection"
  PROVE  Linkable(v) /\ SubsChained(v) /\ EntriesChained(v)
<1>1. /\ Len(v.subs) = 2 /\ v.cur = 2
      /\ \A s \in 1 .. 2 : v.subs[s].name = Start /\ v.subs[s].first = 1 /\ v.subs[s].last = 1
      /\ v.next[1] = 1
  BY DEF FirstTwo
<1>2. NameOf(v, 1) = Start
  <2>1. v.subOf[1] \in 1 .. 2
    BY <1>1 DEF IsMapped, Count
  <2>. QED BY <2>1, <1>1 DEF NameOf
<1>3. SelfLinked(v, 1)
  BY <1>1, <1>2 DEF SelfLinked
<1>4. Linkable(v)
  BY <1>1 DEF FirstTwo, Linkable, LinkTypes
<1>5. SubsChained(v)
  BY <1>1, <1>2, <1>3 DEF SubsChained, EndsOpen
<1>6. IsHead(v, 1)
  <2>1. IsFirstSub(v, 1)
    BY DEF IsFirstSub
  <2>. QED BY <2>1, <1>1, <1>2 DEF IsHead
<1>7. EntriesChained(v)
  <2>1. \A e \in 1 .. Count(v) : e = 1
    OBVIOUS
  <2>2. Onward(v, 1) /\ Reached(v, 1)
    BY <1>3, <1>6 DEF Onward, Reached
  <2>3. NextOnce(v)
    BY <2>1 DEF NextOnce
  <2>. QED BY <2>1, <2>2, <2>3 DEF EntriesChained
<1>. QED BY <1>4, <1>5, <1>7

\* AddEntry keeps every list.
LEMMA AddEntrySound ==
  ASSUME NEW u, Sound(u), NEW op \in Ops, IsFresh(u, op)
  PROVE  Sound(AddEntry(u, op))
<1>. DEFINE v == AddEntry(u, op)
            N == Count(u)
<1>1. Appends(u, v, op)
  BY AddEntryUnit DEF Sound
<1>. HIDE DEF v
<1>2. /\ IsUnit(v) /\ IsMapped(v) /\ Count(v) = N + 1
      /\ v.entries = Append(u.entries, op)
      /\ \A d \in 1 .. N : v.subOf[d] = u.subOf[d]
      /\ v.subOf[N + 1] = v.cur
  BY <1>1 DEF Appends, Count
<1>3. /\ \A d \in 1 .. N : v.entries[d] = u.entries[d]
      /\ v.entries[N + 1] = op
      /\ N \in Nat
  <2>1. u.entries \in Seq(Ops) /\ Len(u.entries) = N
    BY DEF Sound, IsUnit, Count
  <2>. QED BY <2>1, <1>2, AppendProperties, LenProperties
<1>4. LabelsOnce(v)
  <2>1. LabelsOnce(u)
    BY DEF Sound
  <2>2. \A e \in 1 .. N + 1 : e = N + 1 \/ e \in 1 .. N
    BY <1>3
  <2>3. /\ op.kind = "label" => op = Named("label", op.name)
        /\ op.kind = "label" => \A e \in 1 .. N : u.entries[e] # op
    BY DEF IsFresh
  <2>4. \A e \in 1 .. N + 1 :
          v.entries[e].kind = "label" => v.entries[e] = Named("label", v.entries[e].name)
    BY ONLY <2>1, <2>2, <2>3, <1>3 DEF LabelsOnce
  <2>5. \A d, e \in 1 .. N + 1 :
          v.entries[d].kind = "label" /\ v.entries[d] = v.entries[e] => d = e
    BY ONLY <2>1, <2>2, <2>3, <1>3 DEF LabelsOnce
  <2>. QED BY ONLY <2>4, <2>5, <1>2 DEF LabelsOnce
<1>5. Linkable(v) /\ SubsChained(v) /\ EntriesChained(v)
  <2>1. CASE op.kind = "subsection" /\ u.cur = 0
    <3>1. FirstTwo(v) /\ N = 0
      BY <2>1, FirstSubSection DEF v
    <3>. QED BY <3>1, <2>1, <1>2, <1>3, FirstSound
  <2>2. CASE op.kind = "subsection" => u.cur # 0
    <3>1. Grows(u, v, op)
      BY <2>2, AddEntryGrows DEF Sound, v
    <3>2. CASE StartsOne(u, op)
      <4>1. Begins(u, v, NewName(u, op), NewNumber(op), NewStart(op))
        BY <3>1, <3>2 DEF Grows
      <4>2. Count(v) = Count(u) + 1
        BY <1>2
      <4>3. \A d \in 1 .. Count(u) : v.subOf[d] = u.subOf[d] /\ v.entries[d] = u.entries[d]
        BY <1>2, <1>3
      <4>4. v.subOf[Count(u) + 1] = v.cur
        BY <1>2
      <4>. HIDE DEF N
      <4>. QED BY ONLY <4>1, <4>2, <4>3, <4>4, Sound(u), BeginSound
    <3>3. CASE ~StartsOne(u, op)
      <4>1. Continues(u, v)
        BY <3>1, <3>3 DEF Grows
      <4>2. Count(v) = Count(u) + 1
        BY <1>2
      <4>3. \A d \in 1 .. Count(u) : v.subOf[d] = u.subOf[d] /\ v.entries[d] = u.entries[d]
        BY <1>2, <1>3
      <4>4. v.subOf[Count(u) + 1] = v.cur
        BY <1>2
      <4>. HIDE DEF N
      <4>. QED BY ONLY <4>1, <4>2, <4>3, <4>4, Sound(u), ContinueSound
    <3>. QED BY <3>2, <3>3
  <2>. QED BY <2>1, <2>2
<1>. QED BY <1>2, <1>4, <1>5 DEF Sound, v

\* The callbacks keep every list.
LEMMA SameSound ==
  ASSUME NEW u, Sound(u), NEW v, IsUnit(v), IsMapped(v), SameText(u, v)
  PROVE  Sound(v)
<1>1. /\ Count(v) = Count(u) /\ v.next = u.next /\ v.prev = u.prev
      /\ v.entries = u.entries /\ v.subs = u.subs /\ v.cur = u.cur
  BY DEF SameText, Count
<1>2. \A e : NameOf(v, e) = NameOf(u, e)
  BY DEF SameText, NameOf
<1>3. Linkable(v)
  BY <1>1 DEF Sound, Linkable, LinkTypes
<1>4. \A e : /\ SelfLinked(v, e) = SelfLinked(u, e)
             /\ Onward(v, e) = Onward(u, e)
             /\ EndsOpen(v, e) = EndsOpen(u, e)
  BY <1>1, <1>2 DEF SelfLinked, Onward, EndsOpen
<1>5. \A s : IsFirstSub(v, s) = IsFirstSub(u, s) /\ IsLastSub(v, s) = IsLastSub(u, s)
  BY <1>1 DEF IsFirstSub, IsLastSub
<1>6. SubsChained(v)
  <2>1. SubsChained(u)
    BY DEF Sound
  <2>. QED BY ONLY <2>1, <1>1, <1>2, <1>4, <1>5 DEF SubsChained
<1>7. \A e : Reached(u, e) => Reached(v, e)
  BY ONLY <1>1, <1>2, <1>5 DEF Reached, IsHead
<1>8. EntriesChained(v)
  <2>1. EntriesChained(u)
    BY DEF Sound
  <2>. QED BY ONLY <2>1, <1>1, <1>4, <1>7 DEF EntriesChained, NextOnce
<1>9. LabelsOnce(v)
  <2>1. LabelsOnce(u)
    BY DEF Sound
  <2>. QED BY ONLY <2>1, <1>1 DEF LabelsOnce
<1>. QED BY <1>3, <1>6, <1>8, <1>9 DEF Sound

LEMMA PushSound ==
  ASSUME NEW u, Sound(u), u.cur # 0
  PROVE  Sound(Push(u))
<1>1. IsUnit(Push(u)) /\ IsMapped(Push(u))
  BY PushUnit DEF Sound
<1>2. SameText(u, Push(u))
  BY DEF Sound, IsUnit, Push, Fields, SameText
<1>. QED BY <1>1, <1>2, SameSound

LEMMA PopSound ==
  ASSUME NEW u, Sound(u), u.stack # <<>>
  PROVE  Sound(Popped(u)) /\ Popped(u).subs = u.subs
<1>1. IsUnit(Popped(u)) /\ IsMapped(Popped(u))
  BY PoppedUnit DEF Sound
<1>2. SameText(u, Popped(u))
  BY DEF Sound, IsUnit, Popped, Fields, SameText
<1>. QED BY <1>1, <1>2, SameSound DEF SameText

LEMMA PreviousSound ==
  ASSUME NEW u, Sound(u), NEW s \in 0 .. Len(u.subs)
  PROVE  Sound([u EXCEPT !.prv = s])
<1>. DEFINE v == [u EXCEPT !.prv = s]
<1>1. IsUnit(v) /\ IsMapped(v)
  BY PreviousUnit DEF Sound
<1>2. SameText(u, v)
  BY DEF Sound, IsUnit, Fields, SameText
<1>. HIDE DEF v
<1>3. Sound(v)
  BY <1>1, <1>2, SameSound
<1>. QED BY <1>3 DEF v

LEMMA NamedSound ==
  ASSUME NEW u, Sound(u), NEW name \in EntryNames
  PROVE  Sound(AddEntry(u, Named("section", name)))
<1>. DEFINE op == Named("section", name)
<1>1. op \in Ops /\ op.kind = "section"
  BY Operations
<1>. HIDE DEF op
<1>2. Sound(AddEntry(u, op))
  BY <1>1, AddEntrySound DEF IsFresh
<1>. QED BY <1>2 DEF op

LEMMA NumberedSound ==
  ASSUME NEW u, Sound(u), NEW n \in Nat
  PROVE  Sound(AddEntry(u, Numbered("subsection", n)))
<1>. DEFINE op == Numbered("subsection", n)
<1>1. op \in Ops /\ op.kind = "subsection"
  BY Operations
<1>. HIDE DEF op
<1>2. Sound(AddEntry(u, op))
  BY <1>1, AddEntrySound DEF IsFresh
<1>. QED BY <1>2 DEF op

LEMMA ReopenSound ==
  ASSUME NEW u, Sound(u), NEW s \in SubSections
  PROVE  Sound(Reopen(u, s))
<1>. DEFINE v == AddEntry(u, Named("section", s.name))
<1>1. s.name \in EntryNames /\ s.number \in Nat
  BY DEF SubSections
<1>2. Sound(v)
  BY <1>1, NamedSound
<1>3. Reopen(u, s) = IF s.number = 0 THEN v ELSE AddEntry(v, Numbered("subsection", s.number))
  BY DEF Reopen
<1>. HIDE DEF v
<1>4. Sound(AddEntry(v, Numbered("subsection", s.number)))
  BY <1>1, <1>2, NumberedSound
<1>. QED BY <1>2, <1>3, <1>4

\* A label is defined once.
LEMMA ContentsFresh ==
  ASSUME IsUnit(unit)
  PROVE  (\E kind \in {"insn", "data"} : Contents(Statement(kind)))
           \/ (\E f \in Labels : DefineLabel(f) \/ Contents(Named("size", f)))
         => \E op \in Ops : ContentsKind(op) /\ IsFresh(unit, op) /\ Contents(op)
<1>1. ASSUME NEW kind \in {"insn", "data"}, Contents(Statement(kind))
      PROVE  \E op \in Ops : ContentsKind(op) /\ IsFresh(unit, op) /\ Contents(op)
  <2>1. Statement(kind) \in Ops /\ Statement(kind).kind = kind
    BY Operations DEF Kinds
  <2>2. ContentsKind(Statement(kind)) /\ IsFresh(unit, Statement(kind))
    BY <2>1 DEF ContentsKind, IsFresh
  <2>. QED BY <2>1, <2>2, <1>1
<1>2. ASSUME NEW f \in Labels, Contents(Named("size", f))
      PROVE  \E op \in Ops : ContentsKind(op) /\ IsFresh(unit, op) /\ Contents(op)
  <2>1. Named("size", f) \in Ops /\ Named("size", f).kind = "size"
    BY Operations
  <2>2. ContentsKind(Named("size", f)) /\ IsFresh(unit, Named("size", f))
    BY <2>1 DEF ContentsKind, IsFresh
  <2>. QED BY <2>1, <2>2, <1>2
<1>3. ASSUME NEW f \in Labels, DefineLabel(f)
      PROVE  \E op \in Ops : ContentsKind(op) /\ IsFresh(unit, op) /\ Contents(op)
  <2>. DEFINE op == Named("label", f)
  <2>1. op \in Ops /\ op.kind = "label"
    BY Operations
  <2>2. op.name = f
    BY DEF Named, Statement
  <2>3. Contents(op) /\ LabelsOf(f) = {}
    BY <1>3 DEF DefineLabel
  <2>4. \A e \in 1 .. Count(unit) : unit.entries[e] # op
    <3>1. \A e \in DOMAIN unit.entries : unit.entries[e] # op
      BY <2>3 DEF LabelsOf
    <3>2. unit.entries \in Seq(Ops)
      BY DEF IsUnit
    <3>. HIDE DEF op
    <3>. QED BY <3>1, <3>2, LenProperties DEF Count
  <2>5. ContentsKind(op) /\ IsFresh(unit, op)
    <3>1. op = Named("label", op.name)
      BY ONLY <2>2
    <3>. HIDE DEF op
    <3>. QED BY <3>1, <2>1, <2>4 DEF ContentsKind, IsFresh
  <2>. QED BY <2>1, <2>3, <2>5
<1>. QED BY <1>1, <1>2, <1>3

LEMMA SoundStep ==
  ASSUME TypeInv, Sound(unit), Next
  PROVE  Sound(unit')
<1>. USE DEF Linked
<1>0. /\ IsUnit(unit) /\ IsMapped(unit)
      /\ unit.cur \in 0 .. Len(unit.subs) /\ unit.prv \in 0 .. Len(unit.subs)
      /\ unit.subs \in Seq(SubSections)
  BY DEF TypeInv, IsUnit
<1>1. ASSUME NEW op \in Ops, IsFresh(unit, op), Contents(op)
      PROVE  Sound(unit')
  <2>1. unit' = AddEntry(unit, op)
    BY <1>1 DEF Contents
  <2>2. Sound(AddEntry(unit, op))
    BY <1>1, AddEntrySound
  <2>. QED BY <2>1, <2>2
<1>2. ASSUME NEW name \in Names, NEW n \in Numbers, OpenSection(name, n)
      PROVE  Sound(unit')
  <2>1. unit' = AddEntry(unit, Named("section", name)) /\ name \in EntryNames
    BY <1>2 DEF OpenSection, EntryNames
  <2>. QED BY <2>1, NamedSound
<1>3. ASSUME NEW n \in Numbers, OpenSubSection(n)
      PROVE  Sound(unit')
  <2>1. unit' = AddEntry(unit, Numbered("subsection", n)) /\ n \in Nat
    BY <1>3, NumbersAssumption DEF OpenSubSection
  <2>. QED BY <2>1, NumberedSound
<1>4. ASSUME NEW name \in Names, NEW n \in Numbers, PushSection(name, n)
      PROVE  Sound(unit')
  <2>1. CASE unit.cur = 0
    <3>1. unit' = unit
      BY <1>4, <2>1 DEF PushSection, Abort
    <3>. QED BY <3>1
  <2>2. CASE unit.cur # 0
    <3>. DEFINE p == Push(unit)
                u == AddEntry(p, Named("section", name))
    <3>1. unit' = IF n = 0 THEN u ELSE AddEntry(u, Numbered("subsection", n))
      BY <1>4, <2>2 DEF PushSection
    <3>2. name \in EntryNames /\ n \in Nat
      BY NumbersAssumption DEF EntryNames
    <3>3. Sound(p)
      BY <2>2, PushSound
    <3>. HIDE DEF p
    <3>4. Sound(u)
      BY <3>2, <3>3, NamedSound
    <3>. HIDE DEF u
    <3>5. Sound(AddEntry(u, Numbered("subsection", n)))
      BY <3>2, <3>4, NumberedSound
    <3>. QED BY <3>1, <3>4, <3>5
  <2>. QED BY <2>1, <2>2
<1>5. CASE PopSection
  <2>. DEFINE p == Popped(unit)
              top == Top(unit.stack)
              s == unit.subs[top[1]]
              u == Reopen(p, s)
  <2>1. unit' = [u EXCEPT !.prv = top[2]] /\ gasStack # <<>>
    BY <1>5 DEF PopSection, Pop, Popped
  <2>3. /\ unit.stack # <<>> /\ unit.stack \in Seq(Nat \X Nat)
        /\ Len(unit.stack) \in 1 .. Len(unit.stack) /\ top = unit.stack[Len(unit.stack)]
    <3>1. /\ gasStack \in Seq(Places \X (Places \cup {None}))
          /\ Len(gasStack) <= Len(unit.stack)
          /\ unit.stack \in Seq(Nat \X Nat)
      BY DEF TypeInv, IsUnit
    <3>2. Len(gasStack) \in Nat \ {0} /\ Len(unit.stack) \in Nat
      BY <2>1, <3>1, EmptySeq, LenProperties
    <3>3. unit.stack # <<>>
      BY ONLY <3>1, <3>2, EmptySeq
    <3>. QED BY <3>1, <3>2, <3>3 DEF Top
  <2>4. top[1] \in 1 .. Len(unit.subs) /\ top[2] \in 0 .. Len(unit.subs)
    <3>. HIDE DEF top
    <3>. QED BY ONLY <1>0, <2>3 DEF IsUnit
  <2>. HIDE DEF top
  <2>5. s \in SubSections
    BY <1>0, <2>4, ElementOfSeq
  <2>. HIDE DEF s
  <2>6. Sound(p) /\ p.subs = unit.subs
    BY <2>3, PopSound
  <2>. HIDE DEF p
  <2>7. Sound(u)
    BY <2>5, <2>6, ReopenSound
  <2>8. top[2] \in 0 .. Len(u.subs)
    <3>1. Extends(p, u)
      BY <2>5, <2>6, ReopenReturns DEF Sound, Returns
    <3>2. Len(unit.subs) \in Nat /\ Len(u.subs) \in Nat /\ Len(unit.subs) <= Len(u.subs)
      BY <3>1, <1>0, <2>6, <2>7, LenProperties DEF Sound, IsUnit, Extends
    <3>. QED BY <3>2, <2>4
  <2>. HIDE DEF u
  <2>9. Sound([u EXCEPT !.prv = top[2]])
    BY <2>7, <2>8, PreviousSound
  <2>. QED BY <2>1, <2>9
<1>6. CASE PreviousSection
  <2>1. CASE unit.prv = 0
    <3>1. unit' = unit
      BY <1>6, <2>1 DEF PreviousSection, Abort
    <3>. QED BY <3>1
  <2>2. CASE unit.prv # 0
    <3>. DEFINE name == unit.subs[unit.prv].name
    <3>1. unit' = AddEntry(unit, Named("section", name))
      BY <1>6, <2>2 DEF PreviousSection, SetPrevious
    <3>2. name \in EntryNames
      <4>1. unit.prv \in 1 .. Len(unit.subs)
        BY <2>2, <1>0
      <4>2. unit.subs[unit.prv] \in SubSections
        BY <4>1, <1>0, ElementOfSeq
      <4>. QED BY <4>2 DEF SubSections
    <3>. HIDE DEF name
    <3>. QED BY <3>1, <3>2, NamedSound
  <2>. QED BY <2>1, <2>2
<1>7. CASE OpenStruct
  <2>1. CASE unit.cur = 0
    <3>1. unit' = unit
      BY <1>7, <2>1 DEF OpenStruct, Abort
    <3>. QED BY <3>1
  <2>2. CASE unit.cur # 0
    <3>. DEFINE p == Push(unit)
                op == Statement("struct")
    <3>1. unit' = AddEntry(p, op)
      BY <1>7, <2>2 DEF OpenStruct
    <3>2. op \in Ops /\ op.kind = "struct"
      BY Operations DEF Kinds
    <3>3. Sound(p)
      BY <2>2, PushSound
    <3>. HIDE DEF p, op
    <3>4. Sound(AddEntry(p, op))
      BY <3>2, <3>3, AddEntrySound DEF IsFresh
    <3>. QED BY <3>1, <3>4
  <2>. QED BY <2>1, <2>2
<1>. QED BY <1>0, <1>1, <1>2, <1>3, <1>4, <1>5, <1>6, <1>7, ContentsFresh
         DEF Next, SectionStatement

LEMMA SoundInit == Init => Sound(unit)
<1>. SUFFICES ASSUME Init PROVE Sound(unit)
  OBVIOUS
<1>1. /\ unit.entries = <<>> /\ unit.next = <<>> /\ unit.prev = <<>>
      /\ unit.subs = <<>> /\ unit.cur = 0
  BY DEF Init, NoUnit
<1>2. IsUnit(unit) /\ IsMapped(unit)
  BY InitSections DEF SectionsInv, TypeInv
<1>3. Linkable(unit)
  BY <1>1 DEF Linkable, LinkTypes, Count
<1>4. SubsChained(unit) /\ EntriesChained(unit) /\ LabelsOnce(unit)
  BY <1>1 DEF SubsChained, EntriesChained, NextOnce, LabelsOnce, Count
<1>. QED BY <1>2, <1>3, <1>4 DEF Sound

-----------------------------------------------------------------------------
(* The walks along next_, as equations.                                    *)

\* What a walk along `next' from e makes of what it makes of the rest: at X it
\* stops.  joins = 1 if it collects the entries it visits.
WalkStep(next, X, base, joins, f, e) ==
  IF e \in X THEN base[e]
  ELSE IF joins = 1 THEN {e} \cup f[next[e]] ELSE f[next[e]]
IsWalk(next, X, base, joins, f, m, N) ==
  f = [e \in m .. N |-> WalkStep(next, X, base, joins, f, e)]

LEMMA WalkLonger ==
  ASSUME NEW N \in Nat, NEW next, NEW X, NEW base, NEW joins \in {0, 1},
         NEW m \in 1 .. N, NEW f, IsWalk(next, X, base, joins, f, m + 1, N),
         \A e \in 1 .. N : e \in X \/ next[e] \in e + 1 .. N \/ (e = 1 /\ next[1] = 1)
  PROVE  \E g : IsWalk(next, X, base, joins, g, m, N)
<1>. DEFINE Step(g, e) == WalkStep(next, X, base, joins, g, e)
            loops == m \notin X /\ next[m] = m
            g == [e \in m .. N |-> IF e = m THEN IF loops THEN {m} ELSE Step(f, m) ELSE f[e]]
<1>1. m \in m .. N /\ \A e \in m .. N : e = m \/ e \in m + 1 .. N
  OBVIOUS
<1>2. \A e \in m + 1 .. N : f[e] = Step(f, e)
  BY DEF IsWalk
<1>3. \A e \in m + 1 .. N : e \in m .. N /\ e # m /\ (e \in X \/ next[e] \in m + 1 .. N)
  OBVIOUS
<1>4. m \in X \/ next[m] \in m + 1 .. N \/ next[m] = m
  OBVIOUS
<1>5. g[m] = (IF loops THEN {m} ELSE Step(f, m)) /\ \A e \in m + 1 .. N : g[e] = f[e]
  BY <1>1, <1>3
<1>6. g = [e \in m .. N |-> g[e]]
  OBVIOUS
<1>. HIDE DEF g
<1>7. \A e \in m + 1 .. N : g[e] = Step(g, e)
  <2>. TAKE e \in m + 1 .. N
  <2>1. g[e] = Step(f, e)
    BY <1>2, <1>5
  <2>2. e \in X \/ g[next[e]] = f[next[e]]
    BY <1>3, <1>5
  <2>. QED BY ONLY <2>1, <2>2 DEF WalkStep
<1>8. g[m] = Step(g, m)
  <2>1. CASE m \in X
    BY <2>1, <1>5 DEF WalkStep
  <2>2. CASE m \notin X /\ next[m] \in m + 1 .. N
    <3>1. ~loops /\ g[next[m]] = f[next[m]]
      BY <2>2, <1>5
    <3>. QED BY <3>1, <2>2, <1>5 DEF WalkStep
  <2>3. CASE m \notin X /\ next[m] = m
    <3>1. g[m] = {m}
      BY <2>3, <1>5
    <3>. QED BY <3>1, <2>3 DEF WalkStep
  <2>. QED BY <2>1, <2>2, <2>3, <1>4
<1>9. \A e \in m .. N : g[e] = Step(g, e)
  BY <1>1, <1>7, <1>8
<1>. HIDE DEF Step
<1>10. g = [e \in m .. N |-> Step(g, e)]
  BY ONLY <1>6, <1>9
<1>. QED BY <1>10 DEF IsWalk, Step

LEMMA WalkExists ==
  ASSUME NEW N \in Nat, NEW next, NEW X, NEW base, NEW joins \in {0, 1},
         \A e \in 1 .. N : e \in X \/ next[e] \in e + 1 .. N \/ (e = 1 /\ next[1] = 1)
  PROVE  \E f : IsWalk(next, X, base, joins, f, 1, N)
<1>. DEFINE P(m) == \E f : IsWalk(next, X, base, joins, f, m, N)
            T == {k \in 0 .. N : ~P(N + 1 - k)}
<1>1. P(N + 1)
  <2>. DEFINE f == [e \in N + 1 .. N |-> 0]
  <2>1. \A e \in N + 1 .. N : FALSE
    OBVIOUS
  <2>2. f = [e \in N + 1 .. N |-> WalkStep(next, X, base, joins, f, e)]
    BY <2>1
  <2>. HIDE DEF f
  <2>. QED BY <2>2 DEF IsWalk
<1>2. \A m \in 1 .. N : P(m + 1) => P(m)
  BY WalkLonger
<1>. HIDE DEF P
<1>3. T = {}
  <2>. SUFFICES ASSUME T # {} PROVE FALSE
    OBVIOUS
  <2>1. PICK k \in T : \A j \in T : k <= j
    <3>1. T \in SUBSET Nat
      OBVIOUS
    <3>. QED BY <3>1, LeastNat
  <2>2. k \in 0 .. N /\ ~P(N + 1 - k)
    OBVIOUS
  <2>3. k # 0
    BY <2>2, <1>1
  <2>4. k - 1 \in 0 .. N /\ k - 1 \notin T
    BY <2>1, <2>2, <2>3
  <2>5. P(N + 1 - (k - 1))
    BY <2>4
  <2>6. N + 1 - k \in 1 .. N /\ N + 1 - (k - 1) = (N + 1 - k) + 1
    BY <2>2, <2>3
  <2>. QED BY <2>2, <2>5, <2>6, <1>2
<1>4. P(1)
  <2>1. N \in 0 .. N /\ N \notin T /\ N + 1 - N = 1
    BY <1>3
  <2>. QED BY <2>1
<1>. QED BY <1>4 DEF P

\* Where next_ leads in a sound unit.
LEMMA SoundNext ==
  ASSUME Sound(unit)
  PROVE  /\ Count(unit) \in Nat /\ DOMAIN unit.entries = 1 .. Count(unit)
         /\ \A e \in 1 .. Count(unit) :
              unit.next[e] = 0 \/ unit.next[e] \in e + 1 .. Count(unit) \/ SelfLinked(unit, e)
         /\ \A e : SelfLinked(unit, e) => e = 1 /\ unit.next[1] = 1
<1>1. unit.entries \in Seq(Ops)
  BY DEF Sound, IsUnit
<1>2. Count(unit) \in Nat /\ DOMAIN unit.entries = 1 .. Count(unit)
  BY <1>1, LenProperties DEF Count
<1>3. \A e \in 1 .. Count(unit) : Onward(unit, e)
  BY DEF Sound, EntriesChained
<1>. QED BY ONLY <1>2, <1>3 DEF Onward, SelfLinked

\* A walk of a sound unit that stops, at the latest, at the end.
LEMMA UnitWalk ==
  ASSUME Sound(unit), NEW X, NEW base, NEW joins \in {0, 1},
         \A e \in 1 .. Count(unit) : unit.next[e] = 0 => e \in X
  PROVE  \E f : IsWalk(unit.next, X, base, joins, f, 1, Count(unit))
<1>1. /\ Count(unit) \in Nat
      /\ \A e \in 1 .. Count(unit) : e \in X \/ unit.next[e] \in e + 1 .. Count(unit)
                                     \/ (e = 1 /\ unit.next[1] = 1)
  BY SoundNext
<1>. DEFINE next == unit.next
            N == Count(unit)
<1>. HIDE DEF next, N
<1>2. \E f : IsWalk(next, X, base, joins, f, 1, N)
  BY <1>1, WalkExists DEF next, N
<1>. QED BY <1>2 DEF next, N

\* Between as an equation.
LEMMA BetweenIs ==
  ASSUME Sound(unit), NEW a \in 1 .. Count(unit), NEW b
  PROVE  Between(a, b) =
           IF a = b \/ unit.next[a] = 0 THEN {a} ELSE {a} \cup Between(unit.next[a], b)
<1>. DEFINE D == DOMAIN unit.entries
            IsTo(to) == to = [e \in D |-> IF e = b \/ unit.next[e] = 0 THEN {e}
                                          ELSE {e} \cup to[unit.next[e]]]
            to == CHOOSE f : IsTo(f)
            X == {e \in D : e = b \/ unit.next[e] = 0}
            base == [e \in D |-> {e}]
<1>1. D = 1 .. Count(unit)
  BY SoundNext
<1>2. \E f : IsTo(f)
  <2>1. \A e \in 1 .. Count(unit) : unit.next[e] = 0 => e \in X
    BY <1>1
  <2>. HIDE DEF X, base, D
  <2>2. PICK f : IsWalk(unit.next, X, base, 1, f, 1, Count(unit))
    BY <2>1, UnitWalk
  <2>3. \A e \in D : WalkStep(unit.next, X, base, 1, f, e) =
                       IF e = b \/ unit.next[e] = 0 THEN {e} ELSE {e} \cup f[unit.next[e]]
    BY DEF WalkStep, X, base
  <2>4. f = [e \in D |-> WalkStep(unit.next, X, base, 1, f, e)]
    BY <2>2, <1>1 DEF IsWalk
  <2>5. IsTo(f)
    BY ONLY <2>3, <2>4
  <2>. QED BY <2>5
<1>3. IsTo(to)
  BY <1>2
<1>4. \A e : Between(e, b) = to[e]
  BY DEF Between
<1>5. a \in D
  BY <1>1
<1>. HIDE DEF to, D
<1>6. to[a] = IF a = b \/ unit.next[a] = 0 THEN {a} ELSE {a} \cup to[unit.next[a]]
  BY ONLY <1>3, <1>5
<1>. QED BY <1>4, <1>6

\* The tail that FindFunction looks for, and the head of a section, too.
TailOf(f, e) ==
  LET tail[d \in DOMAIN unit.entries] == IF EndsAt(d, f) THEN d ELSE tail[unit.next[d]]
  IN  tail[e]

LEMMA TailIs ==
  ASSUME Sound(unit), NEW a \in 1 .. Count(unit), NEW f
  PROVE  TailOf(f, a) = IF EndsAt(a, f) THEN a ELSE TailOf(f, unit.next[a])
<1>. DEFINE D == DOMAIN unit.entries
            IsTail(t) == t = [e \in D |-> IF EndsAt(e, f) THEN e ELSE t[unit.next[e]]]
            tail == CHOOSE t : IsTail(t)
            X == {e \in D : EndsAt(e, f)}
            base == [e \in D |-> e]
<1>1. D = 1 .. Count(unit)
  BY SoundNext
<1>2. \E t : IsTail(t)
  <2>1. \A e \in 1 .. Count(unit) : unit.next[e] = 0 => e \in X
    BY <1>1 DEF EndsAt
  <2>. HIDE DEF X, base, D
  <2>2. PICK t : IsWalk(unit.next, X, base, 0, t, 1, Count(unit))
    BY <2>1, UnitWalk
  <2>3. \A e \in D : WalkStep(unit.next, X, base, 0, t, e) =
                       IF EndsAt(e, f) THEN e ELSE t[unit.next[e]]
    BY DEF WalkStep, X, base
  <2>4. t = [e \in D |-> WalkStep(unit.next, X, base, 0, t, e)]
    BY <2>2, <1>1 DEF IsWalk
  <2>5. IsTail(t)
    BY ONLY <2>3, <2>4
  <2>. QED BY <2>5
<1>3. IsTail(tail)
  BY <1>2
<1>4. \A e : TailOf(f, e) = tail[e]
  BY DEF TailOf
<1>5. a \in D
  BY <1>1
<1>. HIDE DEF tail, D
<1>6. tail[a] = IF EndsAt(a, f) THEN a ELSE tail[unit.next[a]]
  BY ONLY <1>3, <1>5
<1>. QED BY <1>4, <1>6

Unowned(e) ==
  LET to[d \in DOMAIN unit.entries] ==
        IF owner[d] # 0 THEN {}
        ELSE {d} \cup IF unit.next[d] = 0 THEN {} ELSE to[unit.next[d]]
  IN  to[e]

LEMMA UnownedIs ==
  ASSUME Sound(unit), NEW a \in 1 .. Count(unit)
  PROVE  Unowned(a) =
           IF owner[a] # 0 THEN {}
           ELSE {a} \cup IF unit.next[a] = 0 THEN {} ELSE Unowned(unit.next[a])
<1>. DEFINE D == DOMAIN unit.entries
            IsTo(to) == to = [e \in D |->
                                IF owner[e] # 0 THEN {}
                                ELSE {e} \cup IF unit.next[e] = 0 THEN {} ELSE to[unit.next[e]]]
            to == CHOOSE f : IsTo(f)
            X == {e \in D : owner[e] # 0 \/ unit.next[e] = 0}
            base == [e \in D |-> IF owner[e] # 0 THEN {} ELSE {e}]
<1>1. D = 1 .. Count(unit)
  BY SoundNext
<1>2. \E f : IsTo(f)
  <2>1. \A e \in 1 .. Count(unit) : unit.next[e] = 0 => e \in X
    BY <1>1
  <2>. HIDE DEF X, base, D
  <2>2. PICK f : IsWalk(unit.next, X, base, 1, f, 1, Count(unit))
    BY <2>1, UnitWalk
  <2>3. \A e \in D : WalkStep(unit.next, X, base, 1, f, e) =
                       IF owner[e] # 0 THEN {}
                       ELSE {e} \cup IF unit.next[e] = 0 THEN {} ELSE f[unit.next[e]]
    BY DEF WalkStep, X, base
  <2>4. f = [e \in D |-> WalkStep(unit.next, X, base, 1, f, e)]
    BY <2>2, <1>1 DEF IsWalk
  <2>5. IsTo(f)
    BY ONLY <2>3, <2>4
  <2>. QED BY <2>5
<1>3. IsTo(to)
  BY <1>2
<1>4. \A e : Unowned(e) = to[e]
  BY DEF Unowned
<1>5. a \in D
  BY <1>1
<1>. HIDE DEF to, D
<1>6. to[a] = IF owner[a] # 0 THEN {}
              ELSE {a} \cup IF unit.next[a] = 0 THEN {} ELSE to[unit.next[a]]
  BY ONLY <1>3, <1>5
<1>. QED BY <1>4, <1>6

\* No entry from a on is linked back.
Ahead(a) ==
  /\ a \in 1 .. Count(unit)
  /\ \A e \in a .. Count(unit) : unit.next[e] = 0 \/ unit.next[e] \in e + 1 .. Count(unit)

LEMMA AheadOf ==
  ASSUME Sound(unit), NEW a \in 1 .. Count(unit), ~SelfLinked(unit, a)
  PROVE  Ahead(a)
<1>1. /\ Count(unit) \in Nat
      /\ \A e \in 1 .. Count(unit) :
           unit.next[e] = 0 \/ unit.next[e] \in e + 1 .. Count(unit) \/ SelfLinked(unit, e)
      /\ \A e : SelfLinked(unit, e) => e = 1
  BY SoundNext
<1>2. \A e \in a .. Count(unit) : e \in 1 .. Count(unit) /\ ~SelfLinked(unit, e)
  BY <1>1
<1>. QED BY <1>1, <1>2 DEF Ahead

\* What FindFunction's walk from e finds: the entries from e to its tail t are
\* those that the walk visits, and t is the first at which it ends.
IsRange(e, t, f) ==
  /\ t \in e .. Count(unit) /\ EndsAt(t, f) /\ e \in Between(e, t) /\ t \in Between(e, t)
  /\ \A d \in Between(e, t) :
       /\ d \in e .. t
       /\ d # t => ~EndsAt(d, f) /\ unit.next[d] \in Between(e, t)
       /\ d # e => \E c \in Between(e, t) : c < d /\ c # t /\ unit.next[c] = d

LEMMA RangeStep ==
  ASSUME Sound(unit), NEW a, Ahead(a), NEW f, ~EndsAt(a, f),
         NEW t, IsRange(unit.next[a], t, f)
  PROVE  IsRange(a, t, f)
<1>. DEFINE N == Count(unit)
            n == unit.next[a]
            R == Between(n, t)
<1>1. N \in Nat /\ a \in 1 .. N /\ n \in a + 1 .. N
  <2>1. N \in Nat /\ a \in a .. N
    BY SoundNext DEF Ahead
  <2>. QED BY <2>1 DEF Ahead, EndsAt
<1>2. /\ t \in n .. N /\ EndsAt(t, f) /\ n \in R /\ t \in R
      /\ \A d \in R : /\ d \in n .. t
                      /\ d # t => ~EndsAt(d, f) /\ unit.next[d] \in R
                      /\ d # n => \E c \in R : c < d /\ c # t /\ unit.next[c] = d
  BY DEF IsRange
<1>3. t \in a .. N /\ a # t /\ n # 0 /\ \A d \in R : d \in a .. t /\ d # a
  BY <1>1, <1>2
<1>4. Between(a, t) = {a} \cup R
  BY <1>1, <1>3, BetweenIs
<1>. HIDE DEF R
<1>5. \A d \in {a} \cup R : d \in a .. t
  BY <1>3, <1>1
<1>6. ASSUME NEW d \in {a} \cup R, d # t
      PROVE  ~EndsAt(d, f) /\ unit.next[d] \in {a} \cup R
  BY <1>2, <1>6
<1>7. ASSUME NEW d \in {a} \cup R, d # a
      PROVE  \E c \in {a} \cup R : c < d /\ c # t /\ unit.next[c] = d
  <2>1. CASE d = n
    <3>1. a < d
      BY <2>1, <1>1
    <3>. QED BY <3>1, <2>1, <1>3
  <2>2. CASE d # n
    BY <2>2, <1>2, <1>7
  <2>. QED BY <2>1, <2>2
<1>. HIDE DEF n, N
<1>. QED BY ONLY <1>2, <1>3, <1>4, <1>5, <1>6, <1>7 DEF IsRange, N

LEMMA RangeLemma ==
  ASSUME Sound(unit), NEW a, Ahead(a), NEW f
  PROVE  IsRange(a, TailOf(f, a), f)
<1>. DEFINE N == Count(unit)
            Good(e) == IsRange(e, TailOf(f, e), f)
            T == {k \in Nat : k <= N - a /\ ~Good(N - k)}
<1>1. N \in Nat /\ a \in 1 .. N
  BY SoundNext DEF Ahead
<1>2. ASSUME NEW e \in a .. N, EndsAt(e, f)
      PROVE  Good(e)
  <2>1. TailOf(f, e) = e
    BY <1>1, <1>2, TailIs
  <2>2. Between(e, e) = {e} /\ e \in e .. N
    BY <1>1, BetweenIs
  <2>3. IsRange(e, e, f)
    <3>1. \A d \in {e} : d = e /\ d \in e .. e
      BY <1>1
    <3>. HIDE DEF N
    <3>. QED BY ONLY <2>2, <3>1, <1>2 DEF IsRange, N
  <2>. QED BY <2>1, <2>3
<1>3. ASSUME NEW e \in a .. N, ~EndsAt(e, f), Good(unit.next[e])
      PROVE  Good(e)
  <2>1. e \in 1 .. N /\ Ahead(e)
    BY <1>1 DEF Ahead
  <2>2. TailOf(f, e) = TailOf(f, unit.next[e])
    BY <1>3, <2>1, TailIs
  <2>. QED BY <2>1, <2>2, <1>3, RangeStep
<1>4. \A e \in a .. N : EndsAt(e, f) \/ unit.next[e] \in e + 1 .. N
  BY DEF Ahead, EndsAt
<1>. HIDE DEF Good
<1>5. T = {}
  <2>. SUFFICES ASSUME T # {} PROVE FALSE
    OBVIOUS
  <2>1. PICK k \in T : \A j \in T : k <= j
    <3>1. T \in SUBSET Nat
      OBVIOUS
    <3>. QED BY <3>1, LeastNat
  <2>. DEFINE e == N - k
              n == unit.next[e]
  <2>2. k \in Nat /\ e \in a .. N /\ ~Good(e)
    BY <1>1
  <2>3. ~EndsAt(e, f) /\ n \in e + 1 .. N
    BY <2>2, <1>2, <1>4
  <2>. HIDE DEF n
  <2>4. N - n \in Nat /\ N - n < k /\ N - (N - n) = n /\ N - n <= N - a
    BY <1>1, <2>2, <2>3
  <2>5. Good(n)
    BY <2>1, <2>4
  <2>. QED BY <2>2, <2>3, <2>5, <1>3 DEF n
<1>6. N - a \in Nat /\ N - (N - a) = a
  BY <1>1
<1>7. Good(a)
  BY <1>5, <1>6
<1>. QED BY <1>7 DEF Good

\* What FindUnnamed's walk from e finds: entries without a function, up to the
\* end or the first that has one.
IsStretch(e, S) ==
  /\ e \in S
  /\ \A d \in S :
       /\ d \in e .. Count(unit) /\ owner[d] = 0
       /\ unit.next[d] = 0 \/ owner[unit.next[d]] # 0 \/ unit.next[d] \in S
  /\ \E l \in S : (\A d \in S : d <= l) /\ S = Between(e, l)

LEMMA StretchStep ==
  ASSUME Sound(unit), NEW a, Ahead(a), owner[a] = 0,
         unit.next[a] # 0 /\ owner[unit.next[a]] = 0 =>
           IsStretch(unit.next[a], Unowned(unit.next[a]))
  PROVE  IsStretch(a, Unowned(a))
<1>. DEFINE N == Count(unit)
            n == unit.next[a]
            S == Unowned(n)
<1>1. N \in Nat /\ a \in 1 .. N /\ (n = 0 \/ n \in a + 1 .. N)
  <2>1. N \in Nat /\ a \in a .. N
    BY SoundNext DEF Ahead
  <2>. QED BY <2>1 DEF Ahead
<1>2. Unowned(a) = {a} \cup IF n = 0 THEN {} ELSE S
  BY <1>1, UnownedIs
<1>3. Between(a, a) = {a} /\ a \in a .. N /\ a <= a
  BY <1>1, BetweenIs
<1>4. CASE n = 0 \/ owner[n] # 0
  <2>1. Unowned(a) = {a}
    <3>1. n # 0 => S = {}
      BY <1>1, <1>4, UnownedIs
    <3>. HIDE DEF S
    <3>. QED BY <3>1, <1>2
  <2>. HIDE DEF N
  <2>. QED BY ONLY <2>1, <1>3, <1>4, owner[a] = 0 DEF IsStretch, N
<1>5. CASE n # 0 /\ owner[n] = 0
  <2>1. Unowned(a) = {a} \cup S
    BY <1>2, <1>5
  <2>2. IsStretch(n, S)
    BY <1>5
  <2>. HIDE DEF S
  <2>3. /\ n \in S
        /\ \A d \in S : /\ d \in n .. N /\ owner[d] = 0
                        /\ unit.next[d] = 0 \/ owner[unit.next[d]] # 0 \/ unit.next[d] \in S
    BY <2>2 DEF IsStretch
  <2>4. PICK l \in S : (\A d \in S : d <= l) /\ S = Between(n, l)
    BY <2>2 DEF IsStretch
  <2>5. \A d \in S : d \in a .. N /\ d # a
    BY <2>3, <1>1, <1>5
  <2>6. Between(a, l) = {a} \cup S
    BY <2>4, <2>5, <1>1, <1>5, BetweenIs
  <2>7. \A d \in {a} \cup S :
          /\ d \in a .. N /\ owner[d] = 0
          /\ unit.next[d] = 0 \/ owner[unit.next[d]] # 0 \/ unit.next[d] \in {a} \cup S
    BY <2>3, <2>5, <1>3
  <2>8. \A d \in {a} \cup S : d <= l
    BY <2>4, <2>5, <1>1
  <2>. HIDE DEF N
  <2>. QED BY ONLY <2>1, <2>4, <2>6, <2>7, <2>8 DEF IsStretch, N
<1>. QED BY <1>4, <1>5

LEMMA StretchLemma ==
  ASSUME Sound(unit), NEW a, Ahead(a), owner[a] = 0
  PROVE  IsStretch(a, Unowned(a))
<1>. DEFINE N == Count(unit)
            Good(e) == owner[e] = 0 => IsStretch(e, Unowned(e))
            T == {k \in Nat : k <= N - a /\ ~Good(N - k)}
<1>1. N \in Nat /\ a \in 1 .. N
  BY SoundNext DEF Ahead
<1>2. ASSUME NEW e \in a .. N, unit.next[e] # 0 => Good(unit.next[e])
      PROVE  Good(e)
  <2>1. Ahead(e)
    BY <1>1 DEF Ahead
  <2>. QED BY <2>1, <1>2, StretchStep
<1>4. \A e \in a .. N : unit.next[e] = 0 \/ unit.next[e] \in e + 1 .. N
  BY DEF Ahead
<1>. HIDE DEF Good
<1>5. T = {}
  <2>. SUFFICES ASSUME T # {} PROVE FALSE
    OBVIOUS
  <2>1. PICK k \in T : \A j \in T : k <= j
    <3>1. T \in SUBSET Nat
      OBVIOUS
    <3>. QED BY <3>1, LeastNat
  <2>. DEFINE e == N - k
              n == unit.next[e]
  <2>2. k \in Nat /\ e \in a .. N /\ ~Good(e)
    BY <1>1
  <2>3. n # 0 /\ ~Good(n) /\ n \in e + 1 .. N
    BY <2>2, <1>2, <1>4
  <2>. HIDE DEF n
  <2>4. N - n \in Nat /\ N - n < k /\ N - (N - n) = n /\ N - n <= N - a
    BY <1>1, <2>2, <2>3
  <2>5. Good(n)
    BY <2>1, <2>4
  <2>. QED BY <2>3, <2>5
<1>6. N - a \in Nat /\ N - (N - a) = a
  BY <1>1
<1>7. Good(a)
  BY <1>5, <1>6
<1>. QED BY <1>7 DEF Good

-----------------------------------------------------------------------------
(* The invariant.                                                          *)

FunctionNames == Labels \cup {""}
Functions == [name : FunctionNames, first : Nat, last : Nat, sub : Nat]
NewFunction(name, first, last) ==
  [name |-> name, first |-> first, last |-> last, sub |-> unit.subOf[first]]

\* The symbols still to take.
Waiting == {symbolsLeft[i] : i \in 1 .. Len(symbolsLeft)}

OwnerTypes(own, fns) ==
  /\ fns \in Seq(Functions)
  /\ own = [e \in 1 .. Count(unit) |-> own[e]]
  /\ \A e \in 1 .. Count(unit) : own[e] \in {Deleted} \cup 0 .. Len(fns)

\* The label of a function is in one as soon as its symbol was taken.
Covers(own, left) ==
  \A e \in 1 .. Count(unit) :
    IsFunctionLabel(e) => own[e] # 0 \/ unit.entries[e].name \in left

\* Entry d is the .size at which a function ends.
EndsSized(fns, d) ==
  \E i \in 1 .. Len(fns) : fns[i].last = d /\ unit.entries[d] = Named("size", fns[i].name)

\* What follows an entry with a function has one, unless the function ended
\* there, at its .size or at the label of the next.
Behind(own, fns) ==
  \A d \in 1 .. Count(unit) :
    own[d] # 0 /\ unit.next[d] # 0 /\ own[unit.next[d]] = 0 =>
      IsFunctionLabel(unit.next[d]) \/ EndsSized(fns, d)

\* No instruction is left with a function that was deleted.
NoCodeDropped(own) ==
  \A d \in 1 .. Count(unit) : own[d] = Deleted => unit.entries[d].kind # "insn"

Assigned(own, fns, left) ==
  OwnerTypes(own, fns) /\ Covers(own, left) /\ Behind(own, fns) /\ NoCodeDropped(own)

Members(own, i) == {e \in 1 .. Count(unit) : own[e] = i}

\* Each function has exactly the entries of its range.
Exact(own, fns) ==
  \A i \in 1 .. Len(fns) :
    /\ fns[i].first \in 1 .. Count(unit)
    /\ fns[i].sub = unit.subOf[fns[i].first]
    /\ Members(own, i) = Between(fns[i].first, fns[i].last)

\* The range of a function begins at the label of a symbol that was taken, has
\* no other label of a function, and is reached from its label.
Apart(own, fns, left) ==
  \A i \in 1 .. Len(fns) :
    /\ IsFunctionLabel(fns[i].first) /\ unit.entries[fns[i].first].name \notin left
    /\ \A d \in Members(own, i) : d # fns[i].first =>
         /\ ~IsFunctionLabel(d)
         /\ \E c \in Members(own, i) : c < d /\ unit.next[c] = d

\* The first entry of a section.
HeadEntry(name) ==
  unit.subs[CHOOSE s \in DOMAIN unit.subs :
              /\ unit.subs[s].name = name
              /\ \A t \in 1 .. s - 1 : unit.subs[t].name # name].first

\* Every code section was looked at: its first entry is in a function.
HeadsTaken(own, left) ==
  \A name \in Sectioned \ Excluded : own[HeadEntry(name)] # 0 \/ name \in left

FinderTypes ==
  /\ typed \in SUBSET Labels
  /\ phase \in {"read", "named", "unnamed", "done"}
  /\ symbolsLeft \in Seq(Labels)
  /\ \A i, j \in 1 .. Len(symbolsLeft) : symbolsLeft[i] = symbolsLeft[j] => i = j
  /\ phase # "named" => symbolsLeft = <<>>
  /\ phase = "read" => functions = <<>>
  /\ phase = "unnamed" => sectionsLeft \subseteq Sectioned \ Excluded

FinderInv ==
  /\ FinderTypes
  /\ phase # "read" => Assigned(owner, functions, Waiting)
  /\ phase # "read" /\ ~Alias => Exact(owner, functions)
  /\ phase = "named" /\ ~Alias => Apart(owner, functions, Waiting)
  /\ phase = "unnamed" /\ Anonymous => HeadsTaken(owner, sectionsLeft)
  /\ phase = "done" /\ Anonymous => HeadsTaken(owner, {})

-----------------------------------------------------------------------------
(* What giving entries to a function does to it.                           *)

\* The entries of R are given to function id.
Takes(own, own2, R, id) ==
  own2 = [e \in 1 .. Count(unit) |-> IF e \in R THEN id ELSE own[e]]

\* fns2 has the functions of fns.
Longer(fns, fns2) ==
  /\ fns \in Seq(Functions) /\ fns2 \in Seq(Functions)
  /\ Len(fns) <= Len(fns2)
  /\ \A i \in 1 .. Len(fns) : fns2[i] = fns[i]

LEMMA TakesAssigned ==
  ASSUME Sound(unit),
         NEW own, NEW fns, NEW left, Assigned(own, fns, left),
         NEW fns2, Longer(fns, fns2), NEW left2,
         NEW R \in SUBSET (1 .. Count(unit)), NEW id \in {Deleted} \cup 1 .. Len(fns2),
         NEW own2, Takes(own, own2, R, id),
         \A e \in 1 .. Count(unit) :
           IsFunctionLabel(e) /\ unit.entries[e].name \in left =>
             e \in R \/ unit.entries[e].name \in left2,
         \A d \in R : \/ unit.next[d] = 0
                      \/ unit.next[d] \in R
                      \/ own[unit.next[d]] # 0
                      \/ IsFunctionLabel(unit.next[d])
                      \/ EndsSized(fns2, d),
         id = Deleted => \A e \in R : unit.entries[e].kind # "insn"
  PROVE  Assigned(own2, fns2, left2)
<1>. DEFINE N == Count(unit)
<1>1. \A e \in 1 .. N : own2[e] = IF e \in R THEN id ELSE own[e]
  BY DEF Takes
<1>2. own2 = [e \in 1 .. N |-> own2[e]]
  BY DEF Takes
<1>3. /\ Len(fns) \in Nat /\ Len(fns2) \in Nat /\ Len(fns) <= Len(fns2)
      /\ \A i \in 1 .. Len(fns) : i \in 1 .. Len(fns2) /\ fns2[i] = fns[i]
  <2>1. Len(fns) \in Nat /\ Len(fns2) \in Nat
    BY LenProperties DEF Longer
  <2>. QED BY <2>1 DEF Longer
<1>4. id # 0
  BY DEF Deleted
<1>5. OwnerTypes(own2, fns2)
  <2>1. \A e \in 1 .. N : own[e] \in {Deleted} \cup 0 .. Len(fns)
    BY DEF Assigned, OwnerTypes
  <2>2. \A e \in 1 .. N : own2[e] \in {Deleted} \cup 0 .. Len(fns2)
    BY <2>1, <1>1, <1>3
  <2>3. fns2 \in Seq(Functions)
    BY DEF Longer
  <2>. QED BY ONLY <1>2, <2>2, <2>3 DEF OwnerTypes
<1>6. Covers(own2, left2)
  <2>1. \A e \in 1 .. N : IsFunctionLabel(e) => own[e] # 0 \/ unit.entries[e].name \in left
    BY DEF Assigned, Covers
  <2>2. \A e \in 1 .. N : own[e] # 0 => own2[e] # 0
    BY <1>1, <1>4
  <2>3. \A e \in 1 .. N : e \in R => own2[e] # 0
    BY <1>1, <1>4
  <2>. QED BY <2>1, <2>2, <2>3 DEF Covers
<1>7. Behind(own2, fns2)
  <2>. SUFFICES ASSUME NEW d \in 1 .. N, own2[d] # 0, unit.next[d] # 0, own2[unit.next[d]] = 0,
                       ~IsFunctionLabel(unit.next[d])
                PROVE  EndsSized(fns2, d)
    BY DEF Behind
  <2>1. unit.next[d] \in 1 .. N
    BY SoundNext
  <2>2. unit.next[d] \notin R /\ own[unit.next[d]] = 0
    BY <2>1, <1>1, <1>4
  <2>3. CASE d \in R
    BY <2>2, <2>3
  <2>4. CASE d \notin R
    <3>1. own[d] # 0
      BY <2>4, <1>1
    <3>2. EndsSized(fns, d)
      BY <3>1, <2>2 DEF Assigned, Behind
    <3>. QED BY ONLY <3>2, <1>3 DEF EndsSized
  <2>. QED BY <2>3, <2>4
<1>8. NoCodeDropped(own2)
  <2>1. \A d \in 1 .. N : own[d] = Deleted => unit.entries[d].kind # "insn"
    BY DEF Assigned, NoCodeDropped
  <2>. QED BY <2>1, <1>1 DEF NoCodeDropped
<1>. QED BY <1>5, <1>6, <1>7, <1>8 DEF Assigned

\* A new function, and one that was deleted again.
LEMMA TakesMembers ==
  ASSUME NEW own, NEW fns, OwnerTypes(own, fns), NEW R \in SUBSET (1 .. Count(unit)),
         \A i \in 1 .. Len(fns) : Members(own, i) \cap R = {},
         NEW own2, Takes(own, own2, R, Len(fns) + 1)
  PROVE  /\ \A i \in 1 .. Len(fns) : Members(own2, i) = Members(own, i)
         /\ Members(own2, Len(fns) + 1) = R
<1>. DEFINE N == Count(unit)
            L == Len(fns)
<1>1. L \in Nat
  BY LenProperties DEF OwnerTypes
<1>2. \A e \in 1 .. N : own2[e] = IF e \in R THEN L + 1 ELSE own[e]
  BY DEF Takes
<1>3. \A e \in 1 .. N : own[e] # L + 1
  BY <1>1 DEF OwnerTypes, Deleted
<1>4. ASSUME NEW i \in 1 .. L
      PROVE  Members(own2, i) = Members(own, i)
  <2>1. \A e \in 1 .. N : own2[e] = i <=> own[e] = i
    <3>. TAKE e \in 1 .. N
    <3>1. own[e] = i => e \notin R
      BY DEF Members
    <3>2. i # L + 1
      BY <1>1
    <3>. QED BY <3>1, <3>2, <1>2
  <2>. QED BY <2>1 DEF Members
<1>5. Members(own2, L + 1) = R
  <2>1. \A e \in 1 .. N : own2[e] = L + 1 <=> e \in R
    BY <1>2, <1>3
  <2>. QED BY <2>1 DEF Members
<1>. QED BY <1>4, <1>5

LEMMA TakesExact ==
  ASSUME NEW own, NEW fns, fns \in Seq(Functions), Exact(own, fns),
         NEW new \in Functions, new.first \in 1 .. Count(unit),
         new.sub = unit.subOf[new.first],
         NEW own2, \A i \in 1 .. Len(fns) : Members(own2, i) = Members(own, i),
         Members(own2, Len(fns) + 1) = Between(new.first, new.last)
  PROVE  Exact(own2, Append(fns, new))
<1>. DEFINE N == Count(unit)
            L == Len(fns)
            fns2 == Append(fns, new)
<1>1. /\ L \in Nat /\ Len(fns2) = L + 1 /\ fns2[L + 1] = new
      /\ \A i \in 1 .. L : fns2[i] = fns[i]
  BY AppendProperties, LenProperties
<1>. HIDE DEF fns2
<1>2. \A i \in 1 .. L : /\ fns[i].first \in 1 .. N
                        /\ fns[i].sub = unit.subOf[fns[i].first]
                        /\ Members(own, i) = Between(fns[i].first, fns[i].last)
  BY DEF Exact
<1>3. \A i \in 1 .. L + 1 : i = L + 1 \/ i \in 1 .. L
  BY <1>1
<1>4. \A i \in 1 .. L + 1 :
        /\ fns2[i].first \in 1 .. N
        /\ fns2[i].sub = unit.subOf[fns2[i].first]
        /\ Members(own2, i) = Between(fns2[i].first, fns2[i].last)
  BY <1>1, <1>2, <1>3
<1>. QED BY <1>1, <1>4 DEF Exact, fns2

LEMMA DropsExact ==
  ASSUME NEW own, NEW fns, OwnerTypes(own, fns), Exact(own, fns),
         NEW R \in SUBSET (1 .. Count(unit)), \A e \in R : own[e] = 0,
         NEW own2, Takes(own, own2, R, Deleted)
  PROVE  Exact(own2, fns)
<1>1. ASSUME NEW i \in 1 .. Len(fns)
      PROVE  Members(own2, i) = Members(own, i)
  <2>1. \A e \in 1 .. Count(unit) : own2[e] = i <=> own[e] = i
    BY DEF Takes, Deleted
  <2>. QED BY <2>1 DEF Members
<1>. QED BY <1>1 DEF Exact

\* The label that FindFunction finds, and the range from it.
LabelOf(f) == CHOOSE e \in LabelsOf(f) : TRUE

LEMMA LabelIs ==
  ASSUME Sound(unit), NEW f \in typed, LabelsOf(f) # {}
  PROVE  /\ LabelOf(f) \in 1 .. Count(unit)
         /\ IsFunctionLabel(LabelOf(f)) /\ unit.entries[LabelOf(f)].name = f
         /\ Ahead(LabelOf(f))
         /\ \A e \in 1 .. Count(unit) :
              IsFunctionLabel(e) /\ unit.entries[e].name = f => e = LabelOf(f)
<1>. DEFINE a == LabelOf(f)
            op == Named("label", f)
<1>1. a \in LabelsOf(f)
  BY DEF LabelOf
<1>2. DOMAIN unit.entries = 1 .. Count(unit)
  BY SoundNext
<1>3. a \in 1 .. Count(unit) /\ unit.entries[a] = op
  BY <1>1, <1>2 DEF LabelsOf
<1>4. op.kind = "label" /\ op.name = f
  BY DEF Named, Statement
<1>5. \A e \in 1 .. Count(unit) :
        unit.entries[e].kind = "label" /\ unit.entries[e].name = f => unit.entries[e] = op
  <2>1. \A e \in 1 .. Count(unit) :
          unit.entries[e].kind = "label" => unit.entries[e] = Named("label", unit.entries[e].name)
    BY DEF Sound, LabelsOnce
  <2>. QED BY <2>1
<1>6. \A d, e \in 1 .. Count(unit) :
        unit.entries[d].kind = "label" /\ unit.entries[d] = unit.entries[e] => d = e
  BY DEF Sound, LabelsOnce
<1>. HIDE DEF a, op
<1>7. \A e \in 1 .. Count(unit) :
        unit.entries[e].kind = "label" /\ unit.entries[e].name = f => e = a
  BY <1>3, <1>4, <1>5, <1>6
<1>8. ~SelfLinked(unit, a)
  <2>1. SelfLinked(unit, a) => unit.entries[a].kind = "subsection"
    BY DEF SelfLinked
  <2>. QED BY <2>1, <1>3, <1>4
<1>9. Ahead(a)
  BY <1>3, <1>8, AheadOf
<1>. QED BY <1>3, <1>4, <1>7, <1>9 DEF IsFunctionLabel, a

\* The entries R of function f, from its label a to its end t.
IsFunction(R, a, t, f) ==
  /\ R \in SUBSET (1 .. Count(unit)) /\ R = Between(a, t)
  /\ a \in R /\ t \in R /\ EndsAt(t, f)
  /\ \A d \in R : d # t => unit.next[d] \in R
  /\ \A d \in R : d # a =>
       /\ \E c \in R : c < d /\ unit.next[c] = d
       /\ ~Alias => ~IsFunctionLabel(d)

LEMMA FunctionIs ==
  ASSUME Sound(unit), NEW f, NEW a, Ahead(a), IsFunctionLabel(a), unit.next[a] # 0
  PROVE  LET t == TailOf(f, unit.next[a])
         IN  IsFunction(Between(a, t), a, t, f)
<1>. DEFINE N == Count(unit)
            n == unit.next[a]
            t == TailOf(f, n)
            S == Between(n, t)
            R == Between(a, t)
<1>1. N \in Nat /\ a \in 1 .. N /\ n \in a + 1 .. N /\ Ahead(n)
      /\ DOMAIN unit.entries = 1 .. N
  <2>1. N \in Nat /\ a \in 1 .. N /\ a \in a .. N /\ DOMAIN unit.entries = 1 .. N
    BY SoundNext DEF Ahead
  <2>2. n \in a + 1 .. N
    BY <2>1 DEF Ahead
  <2>. QED BY <2>1, <2>2 DEF Ahead
<1>2. IsRange(n, t, f)
  BY <1>1, RangeLemma
<1>. HIDE DEF t
<1>3. /\ t \in n .. N /\ EndsAt(t, f) /\ n \in S /\ t \in S
      /\ \A d \in S : /\ d \in n .. t
                      /\ d # t => ~EndsAt(d, f) /\ unit.next[d] \in S
                      /\ d # n => \E c \in S : c < d /\ c # t /\ unit.next[c] = d
  BY <1>2 DEF IsRange
<1>4. R = {a} \cup S
  <2>1. a # t
    BY <1>1, <1>3
  <2>. QED BY <2>1, <1>1, BetweenIs
<1>5. ~Alias => ~IsFunctionLabel(n)
  BY <1>1 DEF Alias
<1>. HIDE DEF S
<1>6. \A d \in S : d \in 1 .. N /\ d # a
  <2>1. \A d \in S : d \in n .. t
    BY <1>3
  <2>. HIDE DEF N, n
  <2>. QED BY ONLY <2>1, <1>1, <1>3
<1>7. ASSUME NEW d \in S
      PROVE  /\ \E c \in R : c < d /\ unit.next[c] = d
             /\ ~Alias => ~IsFunctionLabel(d)
  <2>1. CASE d = n
    <3>1. a < d
      BY <2>1, <1>1
    <3>. QED BY <3>1, <2>1, <1>4, <1>5
  <2>2. CASE d # n
    <3>1. PICK c \in S : c < d /\ c # t /\ unit.next[c] = d
      BY <2>2, <1>3
    <3>2. ~EndsAt(c, f)
      BY <3>1, <1>3
    <3>3. ~IsFunctionLabel(d)
      BY <3>1, <3>2 DEF EndsAt
    <3>. QED BY <3>1, <3>3, <1>4
  <2>. QED BY <2>1, <2>2
<1>8. \A d \in R : d # t => unit.next[d] \in R
  BY <1>3, <1>4
<1>9. R \in SUBSET (1 .. N) /\ a \in R /\ t \in R
  BY <1>1, <1>3, <1>4, <1>6
<1>10. \A d \in R : d # a => d \in S
  BY <1>4
<1>11. IsFunction(R, a, t, f)
  <2>. HIDE DEF N
  <2>1. EndsAt(t, f) /\ R = Between(a, t)
    BY <1>3
  <2>. HIDE DEF R
  <2>. QED BY ONLY <2>1, <1>7, <1>8, <1>9, <1>10 DEF IsFunction, N
<1>. QED BY <1>11 DEF t

\* Without a second name no entry of the range is another function's.
LEMMA ApartDisjoint ==
  ASSUME Sound(unit), ~Alias, NEW own, NEW fns, NEW left, Apart(own, fns, left),
         NEW f \in left, NEW R, NEW a, NEW t, IsFunction(R, a, t, f),
         IsFunctionLabel(a), unit.entries[a].name = f, NEW i \in 1 .. Len(fns)
  PROVE  Members(own, i) \cap R = {}
<1>. DEFINE M == Members(own, i)
            T == M \cap R
            N == Count(unit)
<1>. SUFFICES ASSUME T # {} PROVE FALSE
  OBVIOUS
<1>1. R \in SUBSET (1 .. N) /\ M \in SUBSET (1 .. N) /\ N \in Nat
  BY SoundNext DEF IsFunction, Members
<1>2. /\ IsFunctionLabel(fns[i].first) /\ unit.entries[fns[i].first].name \notin left
      /\ \A d \in M : d # fns[i].first =>
           /\ ~IsFunctionLabel(d)
           /\ \E c \in M : c < d /\ unit.next[c] = d
  BY DEF Apart
<1>3. \A d \in R : d # a =>
        /\ \E c \in R : c < d /\ unit.next[c] = d
        /\ ~IsFunctionLabel(d)
  BY DEF IsFunction
<1>4. \A c, d \in 1 .. N : unit.next[c] = unit.next[d] /\ unit.next[c] # 0 => c = d
  BY DEF Sound, EntriesChained, NextOnce
<1>. HIDE DEF M, N
<1>5. PICK d \in T : \A c \in T : d <= c
  <2>1. T \in SUBSET Nat
    BY <1>1
  <2>. QED BY <2>1, LeastNat
<1>6. d \in M /\ d \in R /\ d \in 1 .. N
  BY <1>1
<1>7. d # a
  <2>1. d = fns[i].first => d # a
    BY <1>2
  <2>2. d # fns[i].first => d # a
    BY <1>2, <1>6
  <2>. QED BY <2>1, <2>2
<1>8. d # fns[i].first
  BY <1>2, <1>3, <1>6, <1>7
<1>9. PICK b \in M : b < d /\ unit.next[b] = d
  BY <1>2, <1>6, <1>8
<1>10. PICK c \in R : c < d /\ unit.next[c] = d
  BY <1>3, <1>6, <1>7
<1>11. b = c
  BY <1>1, <1>4, <1>6, <1>9, <1>10
<1>12. b \in T /\ d \in Nat /\ b \in Nat
  BY <1>1, <1>6, <1>11
<1>. QED BY <1>5, <1>9, <1>12

LEMMA NewIs ==
  ASSUME Sound(unit), NEW name \in FunctionNames,
         NEW a \in 1 .. Count(unit), NEW t \in 1 .. Count(unit)
  PROVE  LET new == NewFunction(name, a, t)
         IN  /\ new \in Functions
             /\ new.name = name /\ new.first = a /\ new.last = t
             /\ new.sub = unit.subOf[new.first]
<1>1. unit.subOf[a] \in Nat /\ a \in Nat /\ t \in Nat
  <2>1. unit.subOf \in Seq(Nat) /\ Len(unit.subOf) = Count(unit) /\ Count(unit) \in Nat
    BY SoundNext DEF Sound, IsUnit, Count
  <2>. QED BY <2>1, ElementOfSeq
<1>. QED BY <1>1 DEF NewFunction, Functions

LEMMA AppendLonger ==
  ASSUME NEW fns \in Seq(Functions), NEW new \in Functions
  PROVE  /\ Longer(fns, Append(fns, new))
         /\ Len(Append(fns, new)) = Len(fns) + 1 /\ Len(fns) \in Nat
         /\ Append(fns, new)[Len(fns) + 1] = new
<1>1. /\ Len(fns) \in Nat /\ Append(fns, new) \in Seq(Functions)
      /\ Len(Append(fns, new)) = Len(fns) + 1
      /\ \A i \in 1 .. Len(fns) : Append(fns, new)[i] = fns[i]
      /\ Append(fns, new)[Len(fns) + 1] = new
  BY AppendProperties, LenProperties
<1>. QED BY <1>1 DEF Longer

\* A function of a symbol.
LEMMA NamedAssigned ==
  ASSUME Sound(unit), NEW own, NEW fns, NEW left, Assigned(own, fns, left),
         NEW f \in typed, typed \subseteq Labels, f \in left,
         LabelsOf(f) # {}, unit.next[LabelOf(f)] # 0,
         NEW t, t = TailOf(f, unit.next[LabelOf(f)]),
         NEW own2, Takes(own, own2, Between(LabelOf(f), t), Len(fns) + 1)
  PROVE  LET fns2 == Append(fns, NewFunction(f, LabelOf(f), t))
         IN  /\ Assigned(own2, fns2, left \ {f})
             /\ ~Alias /\ Exact(own, fns) /\ Apart(own, fns, left) =>
                  Exact(own2, fns2) /\ Apart(own2, fns2, left \ {f})
<1>. DEFINE N == Count(unit)
            a == LabelOf(f)
            R == Between(a, t)
            new == NewFunction(f, a, t)
            L == Len(fns)
            fns2 == Append(fns, new)
<1>1. /\ a \in 1 .. N /\ IsFunctionLabel(a) /\ unit.entries[a].name = f /\ Ahead(a)
      /\ \A e \in 1 .. N : IsFunctionLabel(e) /\ unit.entries[e].name = f => e = a
  BY LabelIs
<1>. HIDE DEF a
<1>2. IsFunction(R, a, t, f)
  <2>1. unit.next[a] # 0 /\ t = TailOf(f, unit.next[a])
    BY DEF a
  <2>. QED BY ONLY <2>1, <1>1, Sound(unit), FunctionIs
<1>. HIDE DEF R
<1>3. /\ R \in SUBSET (1 .. N) /\ R = Between(a, t) /\ a \in R /\ t \in R /\ EndsAt(t, f)
      /\ \A d \in R : d # t => unit.next[d] \in R
  BY <1>2 DEF IsFunction
<1>4. /\ new \in Functions /\ new.name = f /\ new.first = a /\ new.last = t
      /\ new.sub = unit.subOf[new.first]
  <2>1. f \in FunctionNames /\ t \in 1 .. N
    BY <1>3 DEF FunctionNames
  <2>. QED BY ONLY <2>1, <1>1, Sound(unit), NewIs
<1>. HIDE DEF new
<1>5. OwnerTypes(own, fns) /\ fns \in Seq(Functions)
  BY DEF Assigned, OwnerTypes
<1>6. /\ Longer(fns, fns2) /\ Len(fns2) = L + 1 /\ fns2[L + 1] = new /\ L \in Nat
      /\ \A i \in 1 .. L : fns2[i] = fns[i]
  BY <1>4, <1>5, AppendLonger DEF Longer
<1>. HIDE DEF fns2
<1>7. Takes(own, own2, R, L + 1)
  BY DEF R, a
<1>8. Assigned(own2, fns2, left \ {f})
  <2>1. L + 1 \in {Deleted} \cup 1 .. Len(fns2) /\ L + 1 # Deleted
    BY <1>6 DEF Deleted
  <2>2. \A e \in 1 .. N : IsFunctionLabel(e) /\ unit.entries[e].name \in left =>
                            e \in R \/ unit.entries[e].name \in left \ {f}
    BY <1>1, <1>3
  <2>3. EndsAt(t, f) => unit.next[t] = 0 \/ IsFunctionLabel(unit.next[t]) \/ EndsSized(fns2, t)
    <3>1. L + 1 \in 1 .. Len(fns2) /\ fns2[L + 1].last = t /\ fns2[L + 1].name = f
      BY <1>4, <1>6
    <3>. QED BY ONLY <3>1 DEF EndsAt, EndsSized
  <2>4. \A d \in R : \/ unit.next[d] = 0
                     \/ unit.next[d] \in R
                     \/ own[unit.next[d]] # 0
                     \/ IsFunctionLabel(unit.next[d])
                     \/ EndsSized(fns2, d)
    BY <2>3, <1>3
  <2>5. Longer(fns, fns2) /\ R \in SUBSET (1 .. Count(unit))
    BY <1>3, <1>6
  <2>6. L + 1 = Deleted => \A e \in R : unit.entries[e].kind # "insn"
    BY <2>1
  <2>. QED BY ONLY <2>1, <2>2, <2>4, <2>5, <2>6, <1>7, Sound(unit), Assigned(own, fns, left),
                   TakesAssigned
<1>9. ASSUME ~Alias, Exact(own, fns), Apart(own, fns, left)
      PROVE  Exact(own2, fns2) /\ Apart(own2, fns2, left \ {f})
  <2>1. \A i \in 1 .. L : Members(own, i) \cap R = {}
    BY <1>1, <1>2, <1>9, ApartDisjoint
  <2>2. /\ Exact(own2, fns2)
        /\ \A i \in 1 .. L : Members(own2, i) = Members(own, i)
        /\ Members(own2, L + 1) = R
    <3>1. /\ \A i \in 1 .. L : Members(own2, i) = Members(own, i)
          /\ Members(own2, L + 1) = R
      BY <2>1, <1>3, <1>5, <1>7, TakesMembers
    <3>2. Members(own2, L + 1) = Between(new.first, new.last)
      BY <3>1, <1>3, <1>4
    <3>3. /\ new \in Functions /\ new.first \in 1 .. Count(unit)
          /\ new.sub = unit.subOf[new.first]
      BY <1>1, <1>4
    <3>4. Exact(own2, Append(fns, new))
      BY ONLY <3>1, <3>2, <3>3, <1>5, Exact(own, fns), TakesExact
    <3>. QED BY <3>1, <3>4 DEF fns2
  <2>3. Apart(own2, fns2, left \ {f})
    <3>. DEFINE Good(first, M) ==
                  /\ IsFunctionLabel(first) /\ unit.entries[first].name \notin left \ {f}
                  /\ \A d \in M : d # first =>
                       /\ ~IsFunctionLabel(d)
                       /\ \E c \in M : c < d /\ unit.next[c] = d
    <3>1. \A i \in 1 .. L : Good(fns[i].first, Members(own, i))
      BY <1>9 DEF Apart
    <3>2. Good(a, R)
      BY <1>1, <1>2, <1>9 DEF IsFunction
    <3>3. \A i \in 1 .. L + 1 : i = L + 1 \/ i \in 1 .. L
      BY <1>6
    <3>. HIDE DEF Good
    <3>4. \A i \in 1 .. L + 1 : Good(fns2[i].first, Members(own2, i))
      BY <3>1, <3>2, <3>3, <2>2, <1>4, <1>6
    <3>. QED BY <3>4, <1>6 DEF Apart, Good
  <2>. QED BY <2>2, <2>3
<1>. QED BY <1>8, <1>9 DEF fns2, new, a

-----------------------------------------------------------------------------
(* The heads of the sections.                                              *)

IsFirstOf(s, name) ==
  /\ unit.subs[s].name = name
  /\ \A t \in 1 .. s - 1 : unit.subs[t].name # name

LEMMA FirstIs ==
  ASSUME Sound(unit), NEW name, NEW s \in 1 .. Len(unit.subs), IsFirstOf(s, name)
  PROVE  HeadEntry(name) = unit.subs[s].first
<1>1. DOMAIN unit.subs = 1 .. Len(unit.subs) /\ Len(unit.subs) \in Nat
  BY LenProperties DEF Sound, IsUnit
<1>2. \A r, t \in 1 .. Len(unit.subs) : IsFirstOf(r, name) /\ IsFirstOf(t, name) => r = t
  <2>1. \A r, t \in 1 .. Len(unit.subs) : r < t => r \in 1 .. t - 1
    BY <1>1
  <2>2. \A r, t \in 1 .. Len(unit.subs) : r < t \/ t < r \/ r = t
    BY <1>1
  <2>. QED BY ONLY <2>1, <2>2 DEF IsFirstOf
<1>3. HeadEntry(name) = unit.subs[CHOOSE r \in 1 .. Len(unit.subs) : IsFirstOf(r, name)].first
  BY <1>1 DEF HeadEntry, IsFirstOf
<1>4. (CHOOSE r \in 1 .. Len(unit.subs) : IsFirstOf(r, name)) = s
  BY ONLY <1>2, s \in 1 .. Len(unit.subs), IsFirstOf(s, name)
<1>. QED BY <1>3, <1>4

LEMMA HeadIs ==
  ASSUME Sound(unit), NEW name \in Sectioned \ Excluded
  PROVE  HeadEntry(name) \in 1 .. Count(unit) /\ Ahead(HeadEntry(name))
<1>1. DOMAIN unit.subs = 1 .. Len(unit.subs) /\ Len(unit.subs) \in Nat
  BY LenProperties DEF Sound, IsUnit
<1>. DEFINE own == {s \in 1 .. Len(unit.subs) : unit.subs[s].name = name}
<1>2. own # {} /\ own \in SUBSET Nat
  BY <1>1 DEF Sectioned
<1>3. PICK s \in own : \A t \in own : s <= t
  BY <1>2, LeastNat
<1>4. s \in 1 .. Len(unit.subs) /\ IsFirstOf(s, name)
  <2>1. \A t \in 1 .. s - 1 : t \in 1 .. Len(unit.subs) /\ ~(s <= t)
    BY <1>1
  <2>. QED BY <2>1, <1>3 DEF IsFirstOf
<1>. DEFINE h == unit.subs[s].first
<1>5. h \in 1 .. Count(unit) /\ NameOf(unit, h) = name
  <2>1. NameOf(unit, h) = name
    BY <1>4 DEF Sound, SubsChained, IsFirstOf
  <2>2. /\ unit.subs[s].first \in Nat /\ unit.subs[s].last \in 1 .. Count(unit)
        /\ unit.subs[s].first <= unit.subs[s].last /\ 1 <= unit.subs[s].first
        /\ Count(unit) \in Nat
    BY <1>4, SubSectionNumbers DEF Sound, Linkable
  <2>. QED BY <2>1, <2>2
<1>6. ~SelfLinked(unit, h)
  <2>1. name # Start
    BY DEF Excluded
  <2>2. SelfLinked(unit, h) => h = 1 /\ NameOf(unit, 1) = Start
    BY DEF SelfLinked
  <2>. QED BY <2>1, <2>2, <1>5
<1>7. HeadEntry(name) = h
  BY <1>4, FirstIs
<1>. HIDE DEF h
<1>. QED BY <1>5, <1>6, <1>7, AheadOf

\* The head of a section is empty, or the stretch from its first entry.
LEMMA HeadOfIs ==
  ASSUME Sound(unit), NEW name \in Sectioned \ Excluded
  PROVE  LET h == HeadEntry(name)
             S == HeadOf(name)
         IN  /\ owner[h] # 0 => S = {}
             /\ owner[h] = 0 => IsStretch(h, S)
<1>. DEFINE h == HeadEntry(name)
<1>1. HeadOf(name) = Unowned(h)
  BY DEF HeadOf, Unowned, HeadEntry
<1>2. h \in 1 .. Count(unit) /\ Ahead(h)
  BY HeadIs
<1>. HIDE DEF h
<1>3. owner[h] # 0 => Unowned(h) = {}
  BY <1>2, UnownedIs
<1>4. owner[h] = 0 => IsStretch(h, Unowned(h))
  BY <1>2, StretchLemma
<1>. QED BY <1>1, <1>3, <1>4 DEF h

FirstIn(S) == CHOOSE e \in S : \A d \in S : e <= d
LastIn(S) == CHOOSE e \in S : \A d \in S : e >= d

LEMMA StretchEnds ==
  ASSUME Sound(unit), NEW h \in 1 .. Count(unit), NEW S, IsStretch(h, S)
  PROVE  /\ S \in SUBSET (1 .. Count(unit))
         /\ FirstIn(S) = h /\ LastIn(S) \in S
         /\ S = Between(h, LastIn(S))
<1>1. Count(unit) \in Nat
  BY SoundNext
<1>2. h \in S /\ \A d \in S : d \in h .. Count(unit)
  BY DEF IsStretch
<1>3. S \in SUBSET (1 .. Count(unit))
  BY <1>1, <1>2
<1>4. PICK l \in S : (\A d \in S : d <= l) /\ S = Between(h, l)
  BY DEF IsStretch
<1>5. \A d, e \in S : d <= e /\ e <= d => d = e
  BY <1>1, <1>3
<1>6. \A d \in S : h <= d
  BY <1>1, <1>2
<1>7. FirstIn(S) = h
  <2>1. FirstIn(S) \in S /\ \A d \in S : FirstIn(S) <= d
    BY <1>2, <1>6 DEF FirstIn
  <2>. QED BY <2>1, <1>2, <1>5, <1>6
<1>8. LastIn(S) = l
  <2>1. \A d \in S : l >= d
    BY <1>1, <1>3, <1>4
  <2>2. \E e \in S : \A d \in S : e >= d
    BY ONLY <2>1, l \in S, Zenon
  <2>3. LastIn(S) \in S /\ \A d \in S : LastIn(S) >= d
    BY ONLY <2>2, Zenon DEF LastIn
  <2>. DEFINE last == LastIn(S)
  <2>. HIDE DEF last
  <2>4. last \in S /\ last >= l /\ l >= last
    BY <2>1, <2>3 DEF last
  <2>5. last \in Nat /\ l \in Nat
    BY <2>4, <1>1, <1>3
  <2>6. last = l
    BY ONLY <2>4, <2>5
  <2>. QED BY <2>6 DEF last
<1>. QED BY <1>3, <1>4, <1>7, <1>8

\* An unnamed function of a section, kept or deleted.
LEMMA UnnamedAssigned ==
  ASSUME Sound(unit), NEW left, Assigned(owner, functions, left),
         NEW name \in Sectioned \ Excluded, NEW noname \in FunctionNames,
         NEW S, S = HeadOf(name), NEW new, new = NewFunction(noname, FirstIn(S), LastIn(S)),
         NEW fns2, fns2 = IF HasCode(S) THEN Append(functions, new) ELSE functions,
         NEW own2, Takes(owner, own2, S, UnnamedId(HasCode(S)))
  PROVE  /\ Assigned(own2, fns2, left)
         /\ Exact(owner, functions) => Exact(own2, fns2)
         /\ own2[HeadEntry(name)] # 0
         /\ \A e \in 1 .. Count(unit) : owner[e] # 0 => own2[e] # 0
<1>. DEFINE N == Count(unit)
            h == HeadEntry(name)
            id == UnnamedId(HasCode(S))
            L == Len(functions)
<1>1. h \in 1 .. N
  BY HeadIs
<1>2. /\ owner[h] # 0 => S = {}
      /\ owner[h] = 0 => IsStretch(h, S)
  BY HeadOfIs
<1>. HIDE DEF h
<1>3. /\ S \in SUBSET (1 .. N)
      /\ \A d \in S : /\ owner[d] = 0
                      /\ unit.next[d] = 0 \/ owner[unit.next[d]] # 0 \/ unit.next[d] \in S
  BY <1>1, <1>2, StretchEnds DEF IsStretch
<1>4. OwnerTypes(owner, functions) /\ functions \in Seq(Functions) /\ L \in Nat
  BY LenProperties DEF Assigned, OwnerTypes
<1>5. HasCode(S) => /\ IsStretch(h, S) /\ FirstIn(S) = h /\ LastIn(S) \in 1 .. N
                    /\ S = Between(h, LastIn(S))
  <2>1. HasCode(S) => S # {}
    BY DEF HasCode
  <2>. QED BY <2>1, <1>1, <1>2, <1>3, StretchEnds
<1>6. HasCode(S) => /\ new \in Functions /\ new.first = h /\ S = Between(new.first, new.last)
                    /\ new.sub = unit.subOf[new.first]
  <2>. SUFFICES ASSUME HasCode(S)
                PROVE  /\ new \in Functions /\ new.first = h /\ S = Between(new.first, new.last)
                       /\ new.sub = unit.subOf[new.first]
    OBVIOUS
  <2>1. new = NewFunction(noname, h, LastIn(S)) /\ LastIn(S) \in 1 .. N
    BY <1>5
  <2>2. /\ new \in Functions /\ new.first = h /\ new.last = LastIn(S)
        /\ new.sub = unit.subOf[new.first]
    BY ONLY <2>1, <1>1, Sound(unit), noname \in FunctionNames, NewIs
  <2>. QED BY <2>2, <1>5
<1>7. /\ Longer(functions, fns2)
      /\ HasCode(S) => fns2 = Append(functions, new) /\ Len(fns2) = L + 1 /\ id = L + 1
      /\ ~HasCode(S) => fns2 = functions /\ id = Deleted
  <2>1. HasCode(S) => /\ fns2 = Append(functions, new) /\ Len(fns2) = L + 1
                      /\ Longer(functions, fns2)
    BY <1>4, <1>6, AppendLonger
  <2>2. ~HasCode(S) => fns2 = functions /\ Longer(functions, fns2)
    BY <1>4 DEF Longer
  <2>. QED BY <2>1, <2>2 DEF UnnamedId
<1>8. id \in {Deleted} \cup 1 .. Len(fns2) /\ id # 0
  BY <1>4, <1>7 DEF Deleted
<1>9. \A e \in 1 .. N : own2[e] = IF e \in S THEN id ELSE owner[e]
  BY DEF Takes
<1>10. Takes(owner, own2, S, id)
  OBVIOUS
<1>. HIDE DEF id
<1>11. Assigned(own2, fns2, left)
  <2>1. id = Deleted => \A e \in S : unit.entries[e].kind # "insn"
    BY <1>4, <1>7 DEF HasCode, Deleted
  <2>2. \A d \in S : \/ unit.next[d] = 0
                     \/ unit.next[d] \in S
                     \/ owner[unit.next[d]] # 0
                     \/ IsFunctionLabel(unit.next[d])
                     \/ EndsSized(fns2, d)
    BY <1>3
  <2>3. S \in SUBSET (1 .. Count(unit)) /\ Longer(functions, fns2)
    BY <1>3, <1>7
  <2>4. \A e \in 1 .. Count(unit) :
          IsFunctionLabel(e) /\ unit.entries[e].name \in left =>
            e \in S \/ unit.entries[e].name \in left
    OBVIOUS
  <2>. QED BY ONLY <2>1, <2>2, <2>3, <2>4, <1>8, <1>10, Sound(unit),
                   Assigned(owner, functions, left), TakesAssigned
<1>12. Exact(owner, functions) => Exact(own2, fns2)
  <2>. SUFFICES ASSUME Exact(owner, functions) PROVE Exact(own2, fns2)
    OBVIOUS
  <2>1. CASE HasCode(S)
    <3>1. \A i \in 1 .. L : Members(owner, i) \cap S = {}
      BY <1>3, <1>4 DEF Members
    <3>2. Takes(owner, own2, S, L + 1)
      BY <2>1, <1>7, <1>10
    <3>3. /\ \A i \in 1 .. L : Members(own2, i) = Members(owner, i)
          /\ Members(own2, L + 1) = S
      BY <3>1, <3>2, <1>3, <1>4, TakesMembers
    <3>4. /\ Members(own2, L + 1) = Between(new.first, new.last)
          /\ new \in Functions /\ new.first \in 1 .. Count(unit)
          /\ new.sub = unit.subOf[new.first]
      BY <2>1, <3>3, <1>1, <1>6
    <3>5. Exact(own2, Append(functions, new))
      BY ONLY <3>3, <3>4, <1>4, Exact(owner, functions), TakesExact
    <3>. QED BY <3>5, <2>1, <1>7
  <2>2. CASE ~HasCode(S)
    <3>1. Takes(owner, own2, S, Deleted) /\ fns2 = functions
      BY <2>2, <1>7, <1>10
    <3>2. \A e \in S : owner[e] = 0
      BY <1>3
    <3>. QED BY ONLY <3>1, <3>2, <1>3, <1>4, Exact(owner, functions), DropsExact
  <2>. QED BY <2>1, <2>2
<1>13. own2[h] # 0
  <2>1. owner[h] = 0 => h \in S
    BY <1>2 DEF IsStretch
  <2>. QED BY <2>1, <1>1, <1>8, <1>9
<1>14. \A e \in 1 .. N : owner[e] # 0 => own2[e] # 0
  BY <1>8, <1>9
<1>. QED BY <1>11, <1>12, <1>13, <1>14 DEF h

-----------------------------------------------------------------------------
(* The reading leaves the unit sound, and the rest leaves it alone.        *)

UnitInv == SectionsInv /\ Sound(unit)

LEMMA UnitStep ==
  ASSUME UnitInv, [FinderNext]_allVars
  PROVE  UnitInv'
<1>1. CASE Read
  <2>1. SectionsInv'
    BY <1>1, SectionsStep DEF UnitInv, Read
  <2>2. Sound(unit')
    BY <1>1, SoundStep DEF UnitInv, SectionsInv, Read
  <2>. QED BY <2>1, <2>2 DEF UnitInv
<1>2. CASE UNCHANGED <<gas, unit, place, lost>>
  <2>1. SectionsInv'
    BY <1>2, StuckSections DEF UnitInv
  <2>2. Sound(unit')
    BY <1>2 DEF UnitInv
  <2>. QED BY <2>1, <2>2 DEF UnitInv
<1>3. Read \/ UNCHANGED <<gas, unit, place, lost>>
  BY DEF FinderNext, EndOfFile, SkipSymbol, FindFunction, Abort, NamedDone, FindUnnamed,
         UnnamedDone, allVars, vars
<1>. QED BY <1>1, <1>2, <1>3

LEMMA UnitInvariant == FinderSpec => []UnitInv
<1>1. FinderInit => UnitInv
  BY InitSections, SoundInit DEF FinderInit, UnitInv
<1>2. UnitInv /\ [FinderNext]_allVars => UnitInv'
  BY UnitStep
<1>. QED BY <1>1, <1>2, PTL DEF FinderSpec

-----------------------------------------------------------------------------
(* Every step keeps the invariant.                                         *)

\* Between and HeadEntry, of any unit.
BetweenIn(u, a, b) ==
  LET to[e \in DOMAIN u.entries] ==
        IF e = b \/ u.next[e] = 0 THEN {e} ELSE {e} \cup to[u.next[e]]
  IN  to[a]
HeadIn(u, name) ==
  u.subs[CHOOSE s \in DOMAIN u.subs :
           /\ u.subs[s].name = name
           /\ \A t \in 1 .. s - 1 : u.subs[t].name # name].first

LEMMA SameLists ==
  ASSUME unit' = unit
  PROVE  /\ \A a, b : Between(a, b)' = Between(a, b)
         /\ \A name : HeadEntry(name)' = HeadEntry(name)
<1>1. ASSUME NEW a, NEW b
      PROVE  Between(a, b)' = Between(a, b)
  <2>1. Between(a, b) = BetweenIn(unit, a, b) /\ Between(a, b)' = BetweenIn(unit', a, b)
    BY DEF Between, BetweenIn
  <2>. QED BY <2>1
<1>2. ASSUME NEW name
      PROVE  HeadEntry(name)' = HeadEntry(name)
  <2>1. HeadEntry(name) = HeadIn(unit, name) /\ HeadEntry(name)' = HeadIn(unit', name)
    BY DEF HeadEntry, HeadIn
  <2>. QED BY <2>1
<1>. QED BY <1>1, <1>2

LEMMA SameUnit ==
  ASSUME unit' = unit, typed' = typed
  PROVE  /\ Assigned(owner', functions', Waiting') => Assigned(owner, functions, Waiting)'
         /\ Exact(owner', functions') => Exact(owner, functions)'
         /\ Apart(owner', functions', Waiting') => Apart(owner, functions, Waiting)'
         /\ Alias' <=> Alias
         /\ (Sectioned \ Excluded)' = Sectioned \ Excluded
         /\ \A left : HeadsTaken(owner', left) => HeadsTaken(owner, left)'
<1>. USE DEF Count
<1>1. \A e : IsFunctionLabel(e)' <=> IsFunctionLabel(e)
  BY DEF IsFunctionLabel
<1>2. /\ \A a, b : Between(a, b)' = Between(a, b)
      /\ \A name : HeadEntry(name)' = HeadEntry(name)
  BY SameLists
<1>3. Assigned(owner', functions', Waiting') => Assigned(owner, functions, Waiting)'
  BY <1>1 DEF Assigned, OwnerTypes, Covers, Behind, EndsSized, NoCodeDropped, Named, Statement
<1>4. Exact(owner', functions') => Exact(owner, functions)'
  BY <1>2 DEF Exact, Members
<1>5. Apart(owner', functions', Waiting') => Apart(owner, functions, Waiting)'
  BY <1>1 DEF Apart, Members
<1>6. Alias' <=> Alias
  BY <1>1 DEF Alias
<1>7. (Sectioned \ Excluded)' = Sectioned \ Excluded
  BY DEF Sectioned, Excluded
<1>8. \A left : HeadsTaken(owner', left) => HeadsTaken(owner, left)'
  BY <1>2, <1>7 DEF HeadsTaken
<1>. QED BY <1>3, <1>4, <1>5, <1>6, <1>7, <1>8

LEMMA WaitingNext ==
  ASSUME FinderTypes, symbolsLeft # <<>>, symbolsLeft' = Tail(symbolsLeft)
  PROVE  /\ symbolsLeft' \in Seq(Labels)
         /\ \A i, j \in 1 .. Len(symbolsLeft)' : symbolsLeft'[i] = symbolsLeft'[j] => i = j
         /\ Head(symbolsLeft) \in Waiting
         /\ Waiting' = Waiting \ {Head(symbolsLeft)}
<1>. DEFINE s == symbolsLeft
            t == symbolsLeft'
<1>1. /\ s \in Seq(Labels) /\ s # <<>>
      /\ \A i, j \in 1 .. Len(s) : s[i] = s[j] => i = j
  BY DEF FinderTypes
<1>2. /\ t \in Seq(Labels) /\ Len(s) \in Nat /\ Len(t) = Len(s) - 1 /\ 1 <= Len(s)
      /\ \A i \in 1 .. Len(t) : t[i] = s[i + 1]
      /\ Head(s) = s[1]
  BY <1>1, HeadTailProperties, LenProperties, EmptySeq
<1>3. \A i \in 1 .. Len(t) : i + 1 \in 1 .. Len(s)
  BY <1>2
<1>4. \A i, j \in 1 .. Len(t) : t[i] = t[j] => i = j
  BY <1>1, <1>2, <1>3
<1>5. Waiting = {s[i] : i \in 1 .. Len(s)} /\ Waiting' = {t[i] : i \in 1 .. Len(t)}
  BY DEF Waiting
<1>. HIDE DEF s, t
<1>6. Head(s) \in Waiting
  BY <1>2, <1>5
<1>7. \A x : x \in Waiting' <=> x \in Waiting \ {Head(s)}
  <2>1. ASSUME NEW i \in 1 .. Len(t)
        PROVE  t[i] \in Waiting \ {Head(s)}
    <3>1. i + 1 # 1 /\ 1 \in 1 .. Len(s)
      BY <1>2
    <3>2. s[i + 1] # s[1]
      BY <3>1, <1>1, <1>3
    <3>. QED BY <3>2, <1>2, <1>3, <1>5
  <2>2. ASSUME NEW i \in 1 .. Len(s), s[i] # Head(s)
        PROVE  s[i] \in Waiting'
    <3>1. i # 1
      BY <2>2, <1>2
    <3>2. i - 1 \in 1 .. Len(t) /\ (i - 1) + 1 = i
      BY <3>1, <1>2
    <3>3. t[i - 1] = s[i]
      BY <3>2, <1>2
    <3>. QED BY <3>2, <3>3, <1>5
  <2>. QED BY <2>1, <2>2, <1>5
<1>8. Waiting' = Waiting \ {Head(s)}
  BY <1>7
<1>. QED BY <1>2, <1>4, <1>6, <1>8 DEF s, t

LEMMA EndOfFileStep ==
  ASSUME UnitInv, FinderInv, EndOfFile
  PROVE  FinderInv'
<1>. DEFINE N == Count(unit)
<1>1. /\ phase = "read" /\ phase' = "named" /\ symbolsLeft' = SymbolOrder
      /\ owner' = [e \in DOMAIN unit.entries |-> 0]
      /\ unit' = unit /\ typed' = typed /\ functions' = functions
  BY DEF EndOfFile, vars
<1>2. typed \in SUBSET Labels /\ functions' = <<>> /\ Len(functions') = 0
  BY <1>1 DEF FinderInv, FinderTypes
<1>3. N \in Nat /\ DOMAIN unit.entries = 1 .. N
  BY SoundNext DEF UnitInv
<1>4. /\ SymbolOrder \in Seq(Labels)
      /\ \A i, j \in 1 .. Len(SymbolOrder) : SymbolOrder[i] = SymbolOrder[j] => i = j
      /\ \A f \in Labels : f \in Waiting'
  <2>1. DOMAIN SymbolOrder = 1 .. Len(SymbolOrder)
    BY SymbolAssumption, LenProperties
  <2>2. Waiting' = {SymbolOrder[i] : i \in 1 .. Len(SymbolOrder)}
    BY <1>1 DEF Waiting
  <2>. QED BY <2>1, <2>2, SymbolAssumption
<1>5. FinderTypes'
  BY <1>1, <1>2, <1>4 DEF FinderTypes
<1>6. \A e \in 1 .. N : owner'[e] = 0
  BY <1>1, <1>3
<1>7. Assigned(owner', functions', Waiting')
  <2>1. OwnerTypes(owner', functions')
    <3>1. owner' = [e \in 1 .. N |-> owner'[e]]
      BY <1>1, <1>3
    <3>2. \A e \in 1 .. N : owner'[e] \in {Deleted} \cup 0 .. Len(functions')
      BY <1>2, <1>6
    <3>3. functions' \in Seq(Functions)
      BY <1>2, EmptySeq
    <3>. QED BY ONLY <3>1, <3>2, <3>3 DEF OwnerTypes
  <2>2. Covers(owner', Waiting')
    BY <1>2, <1>4 DEF Covers, IsFunctionLabel
  <2>3. Behind(owner', functions')
    BY <1>6 DEF Behind
  <2>4. NoCodeDropped(owner')
    BY <1>6 DEF NoCodeDropped, Deleted
  <2>. QED BY <2>1, <2>2, <2>3, <2>4 DEF Assigned
<1>8. Exact(owner', functions') /\ Apart(owner', functions', Waiting')
  BY <1>2 DEF Exact, Apart
<1>9. Assigned(owner, functions, Waiting)' /\ Exact(owner, functions)'
      /\ Apart(owner, functions, Waiting)'
  BY <1>1, <1>7, <1>8, SameUnit
<1>. QED BY <1>1, <1>5, <1>9 DEF FinderInv

LEMMA SkipSymbolStep ==
  ASSUME UnitInv, FinderInv, SkipSymbol
  PROVE  FinderInv'
<1>1. /\ phase = "named" /\ phase' = "named" /\ symbolsLeft # <<>>
      /\ symbolsLeft' = Tail(symbolsLeft) /\ Head(symbolsLeft) \notin typed
      /\ owner' = owner /\ unit' = unit /\ typed' = typed /\ functions' = functions
  BY DEF SkipSymbol, vars
<1>2. FinderTypes /\ Assigned(owner, functions, Waiting)
      /\ (~Alias => Exact(owner, functions) /\ Apart(owner, functions, Waiting))
  BY <1>1 DEF FinderInv
<1>3. /\ symbolsLeft' \in Seq(Labels)
      /\ \A i, j \in 1 .. Len(symbolsLeft)' : symbolsLeft'[i] = symbolsLeft'[j] => i = j
      /\ Waiting' = Waiting \ {Head(symbolsLeft)}
  BY <1>1, <1>2, WaitingNext
<1>4. FinderTypes'
  BY <1>1, <1>2, <1>3 DEF FinderTypes
<1>5. Assigned(owner', functions', Waiting')
  <2>1. Covers(owner', Waiting')
    BY <1>1, <1>2, <1>3 DEF Assigned, Covers, IsFunctionLabel
  <2>. QED BY <2>1, <1>1, <1>2 DEF Assigned
<1>6. ~Alias => Exact(owner', functions') /\ Apart(owner', functions', Waiting')
  <2>1. Apart(owner, functions, Waiting) => Apart(owner', functions', Waiting')
    BY <1>1, <1>3 DEF Apart
  <2>. QED BY <2>1, <1>1, <1>2
<1>7. /\ Assigned(owner, functions, Waiting)'
      /\ ~Alias' => Exact(owner, functions)' /\ Apart(owner, functions, Waiting)'
  BY <1>1, <1>5, <1>6, SameUnit
<1>. QED BY <1>1, <1>4, <1>7 DEF FinderInv

LEMMA FindFunctionStep ==
  ASSUME UnitInv, FinderInv, FindFunction
  PROVE  FinderInv'
<1>. DEFINE f == Head(symbolsLeft)
            a == LabelOf(f)
            t == TailOf(f, unit.next[a])
            R == Between(a, t)
            new == NewFunction(f, a, t)
<1>1. /\ phase = "named" /\ symbolsLeft # <<>> /\ f \in typed
      /\ unit' = unit /\ typed' = typed /\ phase' = phase
      /\ ~(LabelsOf(f) = {} \/ unit.next[a] = 0) =>
           /\ functions' = Append(functions, new)
           /\ owner' = [e \in DOMAIN owner |-> IF e \in R THEN Len(functions) + 1 ELSE owner[e]]
           /\ symbolsLeft' = Tail(symbolsLeft)
      /\ LabelsOf(f) = {} \/ unit.next[a] = 0 => UNCHANGED finder
  BY DEF FindFunction, LabelOf, TailOf, NewFunction, Abort, vars, finder
<1>2. FinderTypes /\ Assigned(owner, functions, Waiting)
      /\ (~Alias => Exact(owner, functions) /\ Apart(owner, functions, Waiting))
  BY <1>1 DEF FinderInv
<1>. HIDE DEF f, a, t, R, new
<1>3. CASE LabelsOf(f) = {} \/ unit.next[a] = 0
  <2>1. UNCHANGED <<typed, phase, symbolsLeft, sectionsLeft, functions, owner>>
    BY <1>1, <1>3 DEF finder
  <2>2. Waiting' = Waiting /\ FinderTypes'
    BY <2>1, <1>1, <1>2 DEF Waiting, FinderTypes
  <2>3. /\ Assigned(owner', functions', Waiting')
        /\ ~Alias => Exact(owner', functions') /\ Apart(owner', functions', Waiting')
    BY <2>1, <2>2, <1>2
  <2>4. /\ Assigned(owner, functions, Waiting)'
        /\ ~Alias' => Exact(owner, functions)' /\ Apart(owner, functions, Waiting)'
    BY <2>3, <1>1, SameUnit
  <2>. QED BY <2>2, <2>4, <1>1 DEF FinderInv
<1>4. CASE ~(LabelsOf(f) = {} \/ unit.next[a] = 0)
  <2>1. /\ symbolsLeft' \in Seq(Labels)
        /\ \A i, j \in 1 .. Len(symbolsLeft)' : symbolsLeft'[i] = symbolsLeft'[j] => i = j
        /\ f \in Waiting /\ Waiting' = Waiting \ {f}
    BY <1>1, <1>2, <1>4, WaitingNext DEF f
  <2>2. FinderTypes'
    BY <2>1, <1>1, <1>2 DEF FinderTypes
  <2>3. typed \subseteq Labels /\ DOMAIN owner = 1 .. Count(unit)
    BY <1>2 DEF FinderTypes, Assigned, OwnerTypes
  <2>4. /\ functions' = Append(functions, NewFunction(f, LabelOf(f), t))
        /\ Takes(owner, owner', Between(LabelOf(f), t), Len(functions) + 1)
        /\ t = TailOf(f, unit.next[LabelOf(f)])
        /\ LabelsOf(f) # {} /\ unit.next[LabelOf(f)] # 0
    BY <2>3, <1>1, <1>4 DEF Takes, a, t, R, new
  <2>5. Sound(unit)
    BY DEF UnitInv
  <2>6. /\ Assigned(owner', functions', Waiting')
        /\ ~Alias => Exact(owner', functions') /\ Apart(owner', functions', Waiting')
    <3>1. /\ Assigned(owner', Append(functions, NewFunction(f, LabelOf(f), t)), Waiting \ {f})
          /\ ~Alias /\ Exact(owner, functions) /\ Apart(owner, functions, Waiting) =>
               /\ Exact(owner', Append(functions, NewFunction(f, LabelOf(f), t)))
               /\ Apart(owner', Append(functions, NewFunction(f, LabelOf(f), t)), Waiting \ {f})
      BY ONLY <2>1, <2>3, <2>4, <2>5, <1>1, <1>2, NamedAssigned
    <3>. QED BY ONLY <3>1, <2>1, <2>4, <1>2
  <2>7. /\ Assigned(owner, functions, Waiting)'
        /\ ~Alias' => Exact(owner, functions)' /\ Apart(owner, functions, Waiting)'
    BY <2>6, <1>1, SameUnit
  <2>. QED BY <2>2, <2>7, <1>1 DEF FinderInv
<1>. QED BY <1>3, <1>4

LEMMA NamedDoneStep ==
  ASSUME UnitInv, FinderInv, NamedDone
  PROVE  FinderInv'
<1>1. /\ phase = "named" /\ symbolsLeft = <<>>
      /\ phase' = IF Anonymous THEN "unnamed" ELSE "done"
      /\ sectionsLeft' = Sectioned \ Excluded
      /\ owner' = owner /\ unit' = unit /\ typed' = typed /\ functions' = functions
      /\ symbolsLeft' = symbolsLeft
  BY DEF NamedDone, vars
<1>2. FinderTypes /\ Assigned(owner, functions, Waiting) /\ (~Alias => Exact(owner, functions))
  BY <1>1 DEF FinderInv
<1>3. phase' \in {"unnamed", "done"} /\ (phase' = "done" => ~Anonymous)
  BY <1>1
<1>4. Waiting' = Waiting /\ (Sectioned \ Excluded)' = Sectioned \ Excluded
  BY <1>1, SameUnit DEF Waiting
<1>5. FinderTypes'
  <2>1. sectionsLeft' = Sectioned' \ Excluded'
    BY <1>1, <1>4
  <2>. QED BY <2>1, <1>1, <1>2, <1>3 DEF FinderTypes
<1>6. /\ Assigned(owner', functions', Waiting')
      /\ ~Alias => Exact(owner', functions')
      /\ HeadsTaken(owner', sectionsLeft')
  BY <1>1, <1>2, <1>4 DEF HeadsTaken
<1>7. /\ Assigned(owner, functions, Waiting)'
      /\ ~Alias' => Exact(owner, functions)'
      /\ HeadsTaken(owner, sectionsLeft)'
  BY <1>1, <1>6, SameUnit
<1>. QED BY <1>3, <1>5, <1>7 DEF FinderInv

LEMMA UnnamedDoneStep ==
  ASSUME UnitInv, FinderInv, UnnamedDone
  PROVE  FinderInv'
<1>1. /\ phase = "unnamed" /\ phase' = "done" /\ sectionsLeft = {} /\ sectionsLeft' = {}
      /\ owner' = owner /\ unit' = unit /\ typed' = typed /\ functions' = functions
      /\ symbolsLeft' = symbolsLeft
  BY DEF UnnamedDone, vars
<1>2. FinderTypes /\ Assigned(owner, functions, Waiting) /\ (~Alias => Exact(owner, functions))
      /\ (Anonymous => HeadsTaken(owner, {}))
  BY <1>1 DEF FinderInv
<1>3. Waiting' = Waiting
  BY <1>1 DEF Waiting
<1>4. FinderTypes'
  BY <1>1, <1>2 DEF FinderTypes
<1>5. /\ Assigned(owner', functions', Waiting')
      /\ ~Alias => Exact(owner', functions')
      /\ Anonymous => HeadsTaken(owner', {})
  BY <1>1, <1>2, <1>3
<1>6. /\ Assigned(owner, functions, Waiting)'
      /\ ~Alias' => Exact(owner, functions)'
      /\ Anonymous => HeadsTaken(owner, {})'
  BY <1>1, <1>5, SameUnit
<1>. QED BY <1>1, <1>4, <1>6 DEF FinderInv

LEMMA FindUnnamedStep ==
  ASSUME UnitInv, FinderInv, NEW name \in Names, FindUnnamed(name)
  PROVE  FinderInv'
<1>. DEFINE S == HeadOf(name)
            noname == ""
            new == NewFunction(noname, FirstIn(S), LastIn(S))
            fns2 == IF HasCode(S) THEN Append(functions, new) ELSE functions
            id == UnnamedId(HasCode(S))
<1>1. /\ phase = "unnamed" /\ phase' = "unnamed" /\ name \in sectionsLeft
      /\ sectionsLeft' = sectionsLeft \ {name} /\ symbolsLeft' = symbolsLeft
      /\ owner' = [e \in DOMAIN owner |-> IF e \in S THEN id ELSE owner[e]]
      /\ unit' = unit /\ typed' = typed
  BY DEF FindUnnamed, vars
<1>2. functions' = fns2
  BY Zenon DEF FindUnnamed, NewFunction, FirstIn, LastIn
<1>3. noname \in FunctionNames
  BY Zenon DEF FunctionNames
<1>. HIDE DEF S, noname, id
<1>4. FinderTypes /\ Assigned(owner, functions, Waiting) /\ (~Alias => Exact(owner, functions))
      /\ (Anonymous => HeadsTaken(owner, sectionsLeft))
  BY <1>1 DEF FinderInv
<1>5. name \in Sectioned \ Excluded /\ DOMAIN owner = 1 .. Count(unit) /\ Sound(unit)
  BY <1>1, <1>4 DEF FinderTypes, Assigned, OwnerTypes, UnitInv
<1>6. Takes(owner, owner', S, UnnamedId(HasCode(S))) /\ S = HeadOf(name)
  BY <1>1, <1>5 DEF Takes, S, id
<1>. HIDE DEF new, fns2
<1>7. /\ Assigned(owner', fns2, Waiting)
      /\ Exact(owner, functions) => Exact(owner', fns2)
      /\ owner'[HeadEntry(name)] # 0
      /\ \A e \in 1 .. Count(unit) : owner[e] # 0 => owner'[e] # 0
  <2>1. new = NewFunction(noname, FirstIn(S), LastIn(S))
    BY DEF new
  <2>2. fns2 = IF HasCode(S) THEN Append(functions, new) ELSE functions
    BY DEF fns2
  <2>. QED BY ONLY <2>1, <2>2, <1>3, <1>4, <1>5, <1>6, UnnamedAssigned
<1>8. Waiting' = Waiting /\ (Sectioned \ Excluded)' = Sectioned \ Excluded
  BY <1>1, SameUnit DEF Waiting
<1>9. FinderTypes'
  <2>1. sectionsLeft' \subseteq Sectioned' \ Excluded'
    BY <1>1, <1>4, <1>8 DEF FinderTypes
  <2>. QED BY <2>1, <1>1, <1>4 DEF FinderTypes
<1>10. Anonymous => HeadsTaken(owner', sectionsLeft')
  <2>. SUFFICES ASSUME Anonymous, NEW other \in Sectioned \ Excluded, other \notin sectionsLeft'
                PROVE  owner'[HeadEntry(other)] # 0
    BY DEF HeadsTaken
  <2>1. HeadEntry(other) \in 1 .. Count(unit)
    BY <1>5, HeadIs
  <2>2. other # name => owner[HeadEntry(other)] # 0
    BY <1>1, <1>4 DEF HeadsTaken
  <2>. QED BY <2>1, <2>2, <1>7
<1>11. /\ Assigned(owner', functions', Waiting')
       /\ ~Alias => Exact(owner', functions')
  BY <1>2, <1>4, <1>7, <1>8
<1>12. /\ Assigned(owner, functions, Waiting)'
       /\ ~Alias' => Exact(owner, functions)'
       /\ Anonymous => HeadsTaken(owner, sectionsLeft)'
  BY <1>1, <1>10, <1>11, SameUnit
<1>. QED BY <1>1, <1>9, <1>12 DEF FinderInv

LEMMA FinderStep ==
  ASSUME UnitInv, FinderInv, [FinderNext]_allVars
  PROVE  FinderInv'
<1>1. CASE Read
  <2>1. phase = "read" /\ phase' = "read" /\ typed' = typed /\ symbolsLeft' = symbolsLeft
        /\ sectionsLeft' = sectionsLeft /\ functions' = functions
    BY <1>1 DEF Read, finder
  <2>2. FinderTypes'
    BY <2>1 DEF FinderInv, FinderTypes
  <2>. QED BY <2>1, <2>2 DEF FinderInv
<1>2. CASE UNCHANGED allVars
  <2>1. /\ unit' = unit /\ typed' = typed /\ phase' = phase /\ symbolsLeft' = symbolsLeft
        /\ sectionsLeft' = sectionsLeft /\ functions' = functions /\ owner' = owner
    BY <1>2 DEF allVars, vars, finder
  <2>2. Waiting' = Waiting /\ (Sectioned \ Excluded)' = Sectioned \ Excluded
    BY <2>1, SameUnit DEF Waiting
  <2>3. FinderTypes'
    <3>1. phase = "unnamed" => sectionsLeft' \subseteq Sectioned' \ Excluded'
      BY <2>1, <2>2 DEF FinderInv, FinderTypes
    <3>. QED BY <3>1, <2>1 DEF FinderInv, FinderTypes
  <2>4. /\ phase # "read" => Assigned(owner', functions', Waiting')
        /\ phase # "read" /\ ~Alias => Exact(owner', functions')
        /\ phase = "named" /\ ~Alias => Apart(owner', functions', Waiting')
        /\ phase = "unnamed" /\ Anonymous => HeadsTaken(owner', sectionsLeft')
        /\ phase = "done" /\ Anonymous => HeadsTaken(owner', {})
    BY <2>1, <2>2 DEF FinderInv
  <2>5. /\ phase # "read" => Assigned(owner, functions, Waiting)'
        /\ phase # "read" /\ ~Alias' => Exact(owner, functions)'
        /\ phase = "named" /\ ~Alias' => Apart(owner, functions, Waiting)'
        /\ phase = "unnamed" /\ Anonymous => HeadsTaken(owner, sectionsLeft)'
        /\ phase = "done" /\ Anonymous => HeadsTaken(owner, {})'
    BY <2>1, <2>4, SameUnit
  <2>. QED BY <2>1, <2>3, <2>5 DEF FinderInv
<1>. QED BY <1>1, <1>2, EndOfFileStep, SkipSymbolStep, FindFunctionStep, NamedDoneStep,
            FindUnnamedStep, UnnamedDoneStep DEF FinderNext

\* For every file and symbol table: what FindFunctions has done so far, see
\* FinderInv.
LEMMA FinderInvariant == FinderSpec => [](UnitInv /\ FinderInv)
<1>1. FinderInit => FinderInv
  BY EmptySeq DEF FinderInit, FinderInv, FinderTypes
<1>2. UnitInv /\ FinderInv /\ [FinderNext]_allVars => FinderInv'
  BY FinderStep
<1>. QED BY <1>1, <1>2, UnitInvariant, PTL DEF FinderSpec

\* For every file, every symbol table and every set of section names: unless a
\* function has a second name, the range of entries from first_entry_ to
\* last_entry_ of each function is exactly what GetFunction answers for it
\* (MaoUnit::FindFunctions, MaoUnit.cc).
THEOREM RangesTheorem == FinderSpec => []RangesAreOwned
<1>1. ASSUME UnitInv, FinderInv
      PROVE  RangesAreOwned
  <2>. SUFFICES ASSUME phase = "done", ~Alias, NEW i \in DOMAIN functions
                PROVE  /\ Owned(i) = Between(functions[i].first, functions[i].last)
                       /\ functions[i].sub = unit.subOf[functions[i].first]
    BY DEF RangesAreOwned
  <2>1. Assigned(owner, functions, Waiting) /\ Exact(owner, functions)
    BY <1>1 DEF FinderInv
  <2>2. DOMAIN owner = 1 .. Count(unit) /\ DOMAIN functions = 1 .. Len(functions)
    BY <2>1, LenProperties DEF Assigned, OwnerTypes
  <2>3. Owned(i) = Members(owner, i)
    BY <2>2 DEF Owned, Members
  <2>. QED BY <2>1, <2>2, <2>3 DEF Exact
<1>. QED BY <1>1, FinderInvariant, PTL

\* Entry z has no function, and neither has what the list goes through from z
\* to e a function's label.
Leads(z, e) ==
  /\ owner[z] = 0 /\ NameOf(unit, z) = NameOf(unit, e)
  /\ e \in Between(z, Count(unit))
  /\ \A d \in Between(z, e) : ~IsFunctionLabel(d)

LEMMA LeadsBack ==
  ASSUME Sound(unit), Assigned(owner, functions, {}), HeadsTaken(owner, {}),
         NEW e \in 1 .. Count(unit), NameOf(unit, e) \notin Excluded,
         NEW z \in 1 .. e, Leads(z, e)
  PROVE  \/ \E a \in 1 .. z - 1 : Leads(a, e)
         \/ \E i \in 1 .. Len(functions) :
              /\ unit.entries[functions[i].last] = Named("size", functions[i].name)
              /\ e \in Between(functions[i].last, Count(unit))
              /\ \A d \in Between(functions[i].last, e) : ~IsFunctionLabel(d)
<1>. DEFINE N == Count(unit)
<1>1. N \in Nat /\ z \in 1 .. N /\ Reached(unit, z)
  BY SoundNext DEF Sound, EntriesChained
<1>2. CASE IsHead(unit, z)
  <2>1. PICK s \in 1 .. Len(unit.subs) :
          IsFirstSub(unit, s) /\ unit.subs[s].first = z /\ unit.subs[s].name = NameOf(unit, z)
    BY <1>2 DEF IsHead
  <2>2. unit.subs[s].name = NameOf(unit, e) /\ IsFirstOf(s, NameOf(unit, e))
    BY <2>1 DEF Leads, IsFirstSub, IsFirstOf
  <2>3. NameOf(unit, e) \in Sectioned \ Excluded
    <3>1. DOMAIN unit.subs = 1 .. Len(unit.subs)
      BY LenProperties DEF Sound, IsUnit
    <3>. QED BY <3>1, <2>2 DEF Sectioned
  <2>4. HeadEntry(NameOf(unit, e)) = z
    BY <2>1, <2>2, FirstIs
  <2>. QED BY <2>3, <2>4 DEF HeadsTaken, Leads
<1>3. CASE \E a \in 1 .. z - 1 : unit.next[a] = z /\ NameOf(unit, a) = NameOf(unit, z)
  <2>1. PICK a \in 1 .. z - 1 : unit.next[a] = z /\ NameOf(unit, a) = NameOf(unit, z)
    BY <1>3
  <2>2. a \in 1 .. N /\ a # N /\ a # e /\ z # 0
    BY <1>1, <2>1
  <2>3. Between(a, N) = {a} \cup Between(z, N) /\ Between(a, e) = {a} \cup Between(z, e)
    BY <2>1, <2>2, BetweenIs
  <2>4. e \in Between(a, N) /\ NameOf(unit, a) = NameOf(unit, e)
    BY <2>1, <2>3 DEF Leads
  <2>5. z \in Between(z, e)
    BY <1>1, BetweenIs
  <2>6. CASE owner[a] = 0
    <3>1. ~IsFunctionLabel(a)
      BY <2>2, <2>6 DEF Assigned, Covers
    <3>2. Leads(a, e)
      BY <3>1, <2>3, <2>4, <2>6 DEF Leads
    <3>. QED BY <3>2
  <2>7. CASE owner[a] # 0
    <3>1. EndsSized(functions, a)
      <4>1. ~IsFunctionLabel(z) /\ owner[z] = 0
        BY <2>5 DEF Leads
      <4>. QED BY <4>1, <2>1, <2>2, <2>7 DEF Assigned, Behind
    <3>2. PICK i \in 1 .. Len(functions) :
            functions[i].last = a /\ unit.entries[a] = Named("size", functions[i].name)
      BY <3>1 DEF EndsSized
    <3>3. ~IsFunctionLabel(a)
      <4>1. unit.entries[a].kind = "size"
        BY <3>2, Zenon DEF Named, Statement
      <4>. QED BY <4>1 DEF IsFunctionLabel
    <3>4. \A d \in Between(a, e) : ~IsFunctionLabel(d)
      BY <3>3, <2>3 DEF Leads
    <3>. QED BY <3>2, <3>4, <2>4
  <2>. QED BY <2>6, <2>7
<1>. QED BY <1>1, <1>2, <1>3 DEF Reached

\* For every file, every symbol table and every set of section names: with
\* unnamed functions, an instruction of a code section is left without a
\* function only behind the .size of one and before the label of the next
\* (MaoUnit::FindFunctions, MaoUnit.cc).
THEOREM CodeTheorem == FinderSpec => []CodeHasFunction
<1>1. ASSUME UnitInv, FinderInv
      PROVE  CodeHasFunction
  <2>1. Sound(unit)
    BY <1>1 DEF UnitInv
  <2>2. DOMAIN unit.entries = 1 .. Count(unit) /\ Count(unit) \in Nat
    BY <2>1, SoundNext
  <2>. SUFFICES ASSUME phase = "done", Anonymous, NEW e \in 1 .. Count(unit),
                       unit.entries[e].kind = "insn",
                       unit.subs[unit.subOf[e]].name \notin Excluded,
                       owner[e] \in {0, Deleted}
                PROVE  \E i \in DOMAIN functions :
                         /\ unit.entries[functions[i].last] = Named("size", functions[i].name)
                         /\ e \in Between(functions[i].last, Len(unit.entries))
                         /\ \A d \in Between(functions[i].last, e) : ~IsFunctionLabel(d)
    BY <2>2 DEF CodeHasFunction
  <2>3. Assigned(owner, functions, {}) /\ HeadsTaken(owner, {})
    <3>1. symbolsLeft = <<>>
      BY <1>1 DEF FinderInv, FinderTypes
    <3>2. Waiting = {}
      BY <3>1 DEF Waiting
    <3>. QED BY <3>2, <1>1 DEF FinderInv
  <2>4. DOMAIN functions = 1 .. Len(functions)
    BY <2>3, LenProperties DEF Assigned, OwnerTypes
  <2>. DEFINE Z == {z \in 1 .. e : Leads(z, e)}
  <2>5. e \in Z
    <3>1. owner[e] = 0
      BY <2>3 DEF Assigned, NoCodeDropped
    <3>2. e \in Between(e, Count(unit)) /\ Between(e, e) = {e} /\ e \in 1 .. e
      BY <2>1, <2>2, BetweenIs
    <3>3. ~IsFunctionLabel(e)
      BY DEF IsFunctionLabel
    <3>. QED BY <3>1, <3>2, <3>3 DEF Leads
  <2>6. PICK z \in Z : \A x \in Z : z <= x
    <3>1. Z \in SUBSET Nat /\ Z # {}
      BY <2>5
    <3>. QED BY <3>1, LeastNat
  <2>7. z \in 1 .. e /\ Leads(z, e) /\ NameOf(unit, e) \notin Excluded
    BY DEF NameOf
  <2>8. ~\E a \in 1 .. z - 1 : Leads(a, e)
    <3>1. ASSUME NEW a \in 1 .. z - 1, Leads(a, e)
          PROVE  FALSE
      <4>1. a \in 1 .. e /\ ~(z <= a)
        BY <2>2, <2>7
      <4>. QED BY <4>1, <3>1, <2>6
    <3>. QED BY <3>1
  <2>. HIDE DEF Z
  <2>9. \E i \in 1 .. Len(functions) :
          /\ unit.entries[functions[i].last] = Named("size", functions[i].name)
          /\ e \in Between(functions[i].last, Count(unit))
          /\ \A d \in Between(functions[i].last, e) : ~IsFunctionLabel(d)
    BY ONLY <2>1, <2>3, <2>7, <2>8, e \in 1 .. Count(unit), LeadsBack
  <2>. QED BY <2>4, <2>9, Zenon DEF Count
<1>. QED BY <1>1, FinderInvariant, PTL
=============================================================================
