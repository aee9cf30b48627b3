-------------------------- MODULE EntryListProofs --------------------------
(***************************************************************************)
(* The links of the entry list are mutual, and the entry list of a section *)
(* is a sequence, for any section, functions and passes: every function's  *)
(* and every subsection's range is right, the assertions of DeleteEntry    *)
(* fail only on an owner's last entry, and the pointers implement EntrySeq.*)
(*                                                                         *)
(* The argument.  The entries of the section form one path along next and  *)
(* prev, and so does each chain a pass holds.  LinkBefore and LinkAfter    *)
(* splice one held path into the section's, Unlink cuts a piece out,       *)
(* DeleteEntry cuts one entry out.  An owner's entries are a run of the    *)
(* path, from its first to its last pointer; the run stays one because     *)
(* what is linked in is the anchor's owner's, and what leaves lies in one  *)
(* owner.  That is so of functions always, and of subsections until an     *)
(* entry has strayed.                                                      *)
(*                                                                         *)
(* SubSection::set_last_entry spoils links.  What is left of the claims is *)
(* proved as well: a step that tears the list still leaves all links but   *)
(* those of `torn' mutual, and the walk along next_ and the held chains as *)
(* EntrySeq says, because every wrong link is a prev_, or one of an entry  *)
(* that is in no walk; the paths are then those of a mended prev_.         *)
(***************************************************************************)
EXTENDS EntryList, FiniteSetTheorems, SequenceTheorems, WellFoundedInduction, TLAPS

\* The entries a pass holds are live, and the entry vector has the entries
\* that a subsection has.
LiveInv ==
  /\ \A e \in held : entrySs[e] # NULL
  /\ entryVector = {e \in Entries : entrySs[e] # NULL}

Core == TypeOK /\ PtrInv /\ HeldApart /\ LiveInv

\* While nothing is torn, all links are mutual.
Mutual ==
  \A e \in Entries : Known(e) =>
    /\ next[e] # NULL => Known(next[e]) /\ prev[next[e]] = e
    /\ prev[e] # NULL => Known(prev[e]) /\ next[prev[e]] = e

IInv == TypeOK /\ Mutual /\ HeldApart /\ LiveInv

LEMMA MutualLemma ==
  ASSUME Core, torn = {}
  PROVE  IInv
PROOF
<1>1. Mutual
  BY DEF Core, PtrInv, Mutual
<1> QED
  BY <1>1 DEF Core, IInv

-----------------------------------------------------------------------------
(* The parsed section.                                                     *)

\* An entry's place in the list, which is unique.
LEMMA PlaceLemma ==
  ASSUME NEW l \in Layouts, NEW i \in 1 .. Len(l.list)
  PROVE  /\ l.list[i] \in Entries
         /\ l.ss[l.list[i]] # NULL
         /\ (CHOOSE j \in 1 .. Len(l.list) : l.list[j] = l.list[i]) = i
PROOF
<1>1. IsLayout(l)
  BY LayoutsAssumption
<1>2. l.list[i] \in Entries
  BY <1>1 DEF IsLayout
<1>3. l.ss[l.list[i]] # NULL
  BY <1>1, <1>2 DEF IsLayout
<1>4. \A j \in 1 .. Len(l.list) : l.list[j] = l.list[i] => j = i
  BY <1>1 DEF IsLayout
<1> QED
  BY <1>2, <1>3, <1>4

\* What Neighbour gives for an entry of the list.
LEMMA NeighbourLemma ==
  ASSUME NEW l \in Layouts, NEW d \in {-1, 1}, NEW i \in 1 .. Len(l.list)
  PROVE  Neighbour(l, d)[l.list[i]] = At(l, d + i)
PROOF
  BY PlaceLemma DEF Neighbour

\* The neighbours of the parsed section are mutual and are entries of it.
LEMMA ParsedLemma ==
  ASSUME NEW l \in Layouts, NEW d \in {-1, 1}, NEW b \in {-1, 1}, b + d = 0,
         NEW e \in Entries, Neighbour(l, d)[e] # NULL
  PROVE  /\ Neighbour(l, d)[e] \in Entries
         /\ l.ss[Neighbour(l, d)[e]] # NULL
         /\ Neighbour(l, b)[Neighbour(l, d)[e]] = e
PROOF
<1>1. PICK i \in 1 .. Len(l.list) : l.list[i] = e
  BY DEF Neighbour
<1>2. Neighbour(l, d)[e] = At(l, d + i)
  BY <1>1, NeighbourLemma
<1>len. Len(l.list) \in Nat
  BY LayoutsAssumption DEF IsLayout
<1>3. d + i \in 1 .. Len(l.list) /\ Neighbour(l, d)[e] = l.list[d + i]
  BY <1>2 DEF At
<1>4. b + (d + i) = i
  BY <1>len
<1>5. Neighbour(l, b)[l.list[d + i]] = At(l, b + (d + i))
  BY <1>3, <1>4, NeighbourLemma
<1>6. At(l, i) = e
  BY <1>1 DEF At
<1> QED
  BY <1>3, <1>4, <1>5, <1>6, PlaceLemma

\* A parsed neighbour is an entry or NULL.
LEMMA NeighbourType ==
  ASSUME NEW l \in Layouts, NEW d \in {-1, 1}
  PROVE  Neighbour(l, d) \in [Entries -> Ref(Entries)]
PROOF
<1>0. \E b \in {-1, 1} : b + d = 0
  OBVIOUS
<1>1. \A e \in Entries : Neighbour(l, d)[e] \in Ref(Entries)
  BY <1>0, ParsedLemma DEF Ref
<1> QED
  BY <1>1 DEF Neighbour

\* Every nonempty set of natural numbers has a least element.
LEMMA LeastLemma ==
  ASSUME NEW T \in SUBSET Nat, T # {}
  PROVE  \E m \in T : \A k \in T : m <= k
PROOF
<1>1. \E m \in T : \A k \in T : ~ (<<k, m>> \in OpToRel(<, Nat))
  BY NatLessThanWellFounded, WFMin, Zenon
<1>2. \A k, m \in T : <<k, m>> \notin OpToRel(<, Nat) => m <= k
  BY DEF OpToRel
<1> QED
  BY <1>1, <1>2

\* The first and the last entry of an owner that has entries: none of its
\* entries is before the one or after the other.
LEMMA OwnedLemma ==
  ASSUME NEW l \in Layouts, NEW owner \in {l.fn, l.ss}, NEW o, o # NULL,
         NEW e \in Entries, owner[e] = o
  PROVE  \E a, b \in 1 .. Len(l.list) :
           /\ FirstOf(l, owner, o) = l.list[a] /\ owner[l.list[a]] = o
           /\ LastOf(l, owner, o) = l.list[b] /\ owner[l.list[b]] = o
           /\ \A i \in 1 .. Len(l.list) : owner[l.list[i]] = o => a <= i /\ i <= b
PROOF
<1> DEFINE n == Len(l.list)
           P == {i \in 1 .. n : owner[l.list[i]] = o}
           Q == {n - i : i \in P}
           IsFirst(j) == owner[l.list[j]] = o /\ \A m \in 1 .. j - 1 : owner[l.list[m]] # o
           IsLast(j) == owner[l.list[j]] = o /\ \A m \in j + 1 .. n : owner[l.list[m]] # o
<1>1. n \in Nat
  BY LayoutsAssumption DEF IsLayout
<1>2. l.ss[e] # NULL
  BY LayoutsAssumption DEF IsLayout
<1>3. PICK i \in 1 .. n : l.list[i] = e
  BY <1>2, LayoutsAssumption DEF IsLayout
<1>4. i \in P
  BY <1>3
<1>5. \E a \in 1 .. n : IsFirst(a)
  <2>1. PICK a \in P : \A k \in P : a <= k
    <3>1. P \in SUBSET Nat /\ P # {}
      BY <1>1, <1>4
    <3> QED
      BY <3>1, LeastLemma
  <2>2. \A j \in 1 .. a - 1 : j \in 1 .. n /\ ~ (a <= j)
    BY <1>1
  <2> QED
    BY <2>1, <2>2
<1>6. \E b \in 1 .. n : IsLast(b)
  <2>1. Q \in SUBSET Nat /\ Q # {}
    BY <1>1, <1>4
  <2>2. PICK q \in Q : \A r \in Q : q <= r
    BY <2>1, LeastLemma
  <2>3. PICK b \in P : q = n - b
    BY <2>2
  <2>4. \A k \in P : n - b <= n - k
    BY <2>2, <2>3
  <2>5. \A k \in P : k <= b
    BY <2>4, <1>1
  <2>6. \A j \in b + 1 .. n : j \in 1 .. n /\ ~ (j <= b)
    BY <1>1
  <2> QED
    BY <2>5, <2>6
<1>7. PICK a \in 1 .. n : IsFirst(a) /\ FirstOf(l, owner, o) = l.list[a]
  <2> DEFINE c == CHOOSE j \in 1 .. n : IsFirst(j)
  <2>1. c \in 1 .. n /\ IsFirst(c)
    BY <1>5
  <2>2. FirstOf(l, owner, o) = l.list[c]
    BY DEF FirstOf
  <2> QED
    BY <2>1, <2>2
<1>8. PICK b \in 1 .. n : IsLast(b) /\ LastOf(l, owner, o) = l.list[b]
  <2> DEFINE c == CHOOSE j \in 1 .. n : IsLast(j)
  <2>1. c \in 1 .. n /\ IsLast(c)
    BY <1>6
  <2>2. LastOf(l, owner, o) = l.list[c]
    BY DEF LastOf
  <2> QED
    BY <2>1, <2>2
<1>9. \A k \in 1 .. n : owner[l.list[k]] = o => a <= k /\ k <= b
  BY <1>1, <1>7, <1>8
<1> QED
  BY <1>7, <1>8, <1>9

\* They are entries, or NULL where the owner has none.
LEMMA BoundsLemma ==
  ASSUME NEW l \in Layouts, NEW owner, NEW o, o # NULL,
         owner \in {l.fn, l.ss}
  PROVE  /\ FirstOf(l, owner, o) \in Ref(Entries)
         /\ LastOf(l, owner, o) \in Ref(Entries)
PROOF
<1>1. CASE ~ \E e \in Entries : owner[e] = o
  BY <1>1 DEF FirstOf, LastOf, Ref
<1>2. CASE \E e \in Entries : owner[e] = o
  <2>1. PICK e \in Entries : owner[e] = o
    BY <1>2
  <2>2. PICK a, b \in 1 .. Len(l.list) :
          FirstOf(l, owner, o) = l.list[a] /\ LastOf(l, owner, o) = l.list[b]
    BY <2>1, OwnedLemma
  <2>3. l.list[a] \in Entries /\ l.list[b] \in Entries
    BY PlaceLemma
  <2> QED
    BY <2>2, <2>3 DEF Ref
<1> QED
  BY <1>1, <1>2

-----------------------------------------------------------------------------
(* The invariant.                                                          *)

\* The parsed section satisfies the invariant.
LEMMA InitLemma == Init => Core /\ torn = {}
PROOF
<1> SUFFICES ASSUME Init PROVE Core /\ torn = {}
  OBVIOUS
<1>1. PICK l \in Layouts :
        /\ next = Neighbour(l, 1)
        /\ prev = Neighbour(l, -1)
        /\ fnFirst = [f \in Functions |-> FirstOf(l, l.fn, f)]
        /\ fnLast = [f \in Functions |-> LastOf(l, l.fn, f)]
        /\ fnEnd = [f \in Functions |->
                     IF fnLast[f] = NULL THEN NULL ELSE EndOf(fnLast[f], next[fnLast[f]])]
        /\ ssFirst = [s \in SubSections |-> FirstOf(l, l.ss, s)]
        /\ ssLast = [s \in SubSections |-> LastOf(l, l.ss, s)]
        /\ entryFn = l.fn
        /\ entrySs = l.ss
        /\ entryVector = {e \in Entries : l.ss[e] # NULL}
        /\ allocated = {e \in Entries : l.ss[e] # NULL}
        /\ held = {}
        /\ aborted = FALSE
        /\ torn = {}
        /\ strayed = FALSE
  BY DEF Init
<1>2. \A o \in Functions \cup SubSections : o # NULL
  BY NullAssumption
<1>3. TypeOK
  <2>1. next \in [Entries -> Ref(Entries)] /\ prev \in [Entries -> Ref(Entries)]
    BY <1>1, NeighbourType
  <2>2. /\ fnFirst \in [Functions -> Ref(Entries)]
        /\ fnLast \in [Functions -> Ref(Entries)]
        /\ ssFirst \in [SubSections -> Ref(Entries)]
        /\ ssLast \in [SubSections -> Ref(Entries)]
    BY <1>1, <1>2, BoundsLemma
  <2>3. entryFn \in [Entries -> Ref(Functions)] /\ entrySs \in [Entries -> Ref(SubSections)]
    BY <1>1, LayoutsAssumption DEF IsLayout, Ref
  <2>4. fnEnd \in [Functions -> Ref(Entries)]
    BY <1>1, <2>1, <2>2 DEF EndOf, Ref
  <2> QED
    BY <2>1, <2>2, <2>3, <2>4, <1>1 DEF TypeOK
<1>4. PtrInv
  <2>1. -1 \in {-1, 1} /\ 1 \in {-1, 1} /\ -1 + 1 = 0 /\ 1 + -1 = 0
    OBVIOUS
  <2>2. \A e \in Entries : next[e] # NULL =>
          /\ next[e] \in Entries /\ entrySs[next[e]] # NULL /\ prev[next[e]] = e
    BY <1>1, <2>1, ParsedLemma
  <2>3. \A e \in Entries : prev[e] # NULL =>
          /\ prev[e] \in Entries /\ entrySs[prev[e]] # NULL /\ next[prev[e]] = e
    BY <1>1, <2>1, ParsedLemma
  <2> QED
    BY <2>2, <2>3 DEF PtrInv, Known
<1>5. HeldApart /\ LiveInv
  BY <1>1 DEF HeldApart, LiveInv
<1> QED
  BY <1>1, <1>3, <1>4, <1>5 DEF Core

\* Every action of the passes preserves the invariant.
LEMMA CreateLemma ==
  ASSUME IInv, torn = {}, NEW e \in Entries, NEW f \in Functions, Create(e, f)
  PROVE  Core'
PROOF
<1>1. entrySs[e] = NULL /\ e \notin held
  BY DEF IInv, TypeOK, LiveInv, Create
<1>2. FunctionSS[f] \in SubSections /\ FunctionSS[f] # NULL
  BY FunctionSSAssumption, NullAssumption
<1>3. TypeOK'
  BY <1>2 DEF IInv, TypeOK, Create, Ref, bounds, past
<1>4. PtrInv'
  <2>1. torn' = {}
    BY DEF Create, past
  <2>2. Mutual'
    BY <1>1 DEF IInv, TypeOK, Mutual, Known, Create, Ref
  <2> QED
    BY <2>1, <2>2 DEF Mutual, PtrInv
<1>5. HeldApart'
  BY <1>1 DEF IInv, TypeOK, Mutual, Known, HeldApart, Create, Ref
<1>6. LiveInv'
  BY <1>1, <1>2 DEF IInv, TypeOK, LiveInv, Create
<1> QED
  BY <1>3, <1>4, <1>5, <1>6 DEF Core

\* Moving a bound keeps its type.
LEMMA MoveLemma ==
  ASSUME NEW D, NULL \notin D, NEW x \in [D -> Ref(Entries)],
         NEW owner \in Ref(D), NEW old, NEW new \in Ref(Entries)
  PROVE  Move(x, owner, old, new) \in [D -> Ref(Entries)]
PROOF
  BY DEF Move, Ref

\* Noting the entry after the new last one keeps the type of fnEnd.
LEMMA MoveEndLemma ==
  ASSUME TypeOK, NEW f \in Ref(Functions), NEW old,
         NEW new \in Ref(Entries), NEW after \in Ref(Entries)
  PROVE  MoveEnd(f, old, new, after) \in [Functions -> Ref(Entries)]
PROOF
  BY NullAssumption DEF MoveEnd, EndOf, TypeOK, Ref

\* Linking a chain before an entry of the section preserves the invariant.
LEMMA LinkBeforeLemma ==
  ASSUME IInv, torn = {}, NEW S \in SUBSET held, NEW first \in S, NEW last \in S,
         NEW anchor \in InList, Chain(S, first, last), LinkBefore(anchor, S, first, last)
  PROVE  Core'
PROOF
<1> DEFINE before == prev[anchor]
<1>1. /\ first \in Entries /\ last \in Entries /\ anchor \in Entries
      /\ first \in held /\ last \in held /\ anchor \notin held
      /\ entrySs[first] # NULL /\ entrySs[last] # NULL /\ entrySs[anchor] # NULL
      /\ NULL \notin Entries
  BY NullAssumption DEF IInv, TypeOK, LiveInv, InList
<1>2. before # NULL => /\ before \in Entries /\ before \notin held
                       /\ entrySs[before] # NULL /\ next[before] = anchor
  BY <1>1 DEF IInv, TypeOK, Mutual, Known, HeldApart, Ref
<1>3. TypeOK'
  BY <1>1, <1>2 DEF IInv, TypeOK, LinkBefore, Put, Move, Ref, maps
<1>4. PtrInv'
  <2>1. torn' = {}
    BY DEF LinkBefore
  <2>2. Mutual'
    BY <1>1, <1>2 DEF IInv, TypeOK, Mutual, Known, LinkBefore, Chain, Put, Ref, maps
  <2> QED
    BY <2>1, <2>2 DEF Mutual, PtrInv
<1>5. HeldApart'
  <2>1. \A e \in Entries : entrySs[e] # NULL /\ next[e] # NULL /\ e # before /\ e # last
          => (e \in S <=> next[e] \in S)
    BY <1>1 DEF IInv, TypeOK, Mutual, Known, Chain, Run, Ref
  <2>2. entrySs' = entrySs /\ held' = held \ S
    BY DEF LinkBefore, maps
  <2> QED
    BY <1>1, <1>2, <2>1, <2>2 DEF IInv, TypeOK, HeldApart, Known, LinkBefore, Put, Ref
<1>6. LiveInv'
  BY DEF IInv, LiveInv, LinkBefore, maps
<1> QED
  BY <1>3, <1>4, <1>5, <1>6 DEF Core

\* What LinkAfter writes: the anchor is followed by the chain, or only by its
\* last entry where set_last_entry relinks it.
LEMMA LinkAfterWrites ==
  ASSUME IInv, NEW S \in SUBSET held, NEW first \in S, NEW last \in S,
         NEW anchor \in InList, LinkAfter(anchor, S, first, last)
  PROVE  LET R == Relinks(entrySs[anchor], anchor, last, ssFirst) IN
         /\ next' \in [Entries -> Ref(Entries)] /\ prev' \in [Entries -> Ref(Entries)]
         /\ \A e \in Entries :
              /\ next'[e] = IF e = anchor THEN (IF R THEN last ELSE first)
                            ELSE IF e = last THEN next[anchor] ELSE next[e]
              /\ prev'[e] = IF R /\ e = last THEN anchor
                            ELSE IF e = next[anchor] THEN last
                            ELSE IF e = first THEN anchor ELSE prev[e]
         /\ torn' = IF R THEN S \ {last} ELSE {}
PROOF
<1> DEFINE R == Relinks(entrySs[anchor], anchor, last, ssFirst)
           linked == [next EXCEPT ![last] = next[anchor], ![anchor] = first]
           one == [prev EXCEPT ![first] = anchor]
           back == Put(one, next[anchor], last)
<1>1. /\ first \in Entries /\ last \in Entries /\ anchor \in Entries /\ anchor # last
      /\ next[anchor] \in Ref(Entries)
      /\ next \in [Entries -> Ref(Entries)] /\ prev \in [Entries -> Ref(Entries)]
  BY DEF IInv, TypeOK, InList
<1>2. linked \in [Entries -> Ref(Entries)] /\ one \in [Entries -> Ref(Entries)]
  BY <1>1 DEF Ref
<1>3. \A e \in Entries :
        /\ linked[e] = IF e = anchor THEN first ELSE IF e = last THEN next[anchor] ELSE next[e]
        /\ one[e] = IF e = first THEN anchor ELSE prev[e]
  BY <1>1
<1>4. /\ next' = LastLinkNext(linked, entrySs[anchor], anchor, last, ssFirst)
      /\ prev' = LastLinkPrev(back, entrySs[anchor], anchor, last, ssFirst)
      /\ torn' = Spoils(S \ {last}, entrySs[anchor], anchor, last, ssFirst)
  BY DEF LinkAfter
<1>5. anchor \in Ref(Entries) /\ last \in Ref(Entries)
  BY <1>1 DEF Ref
<1> HIDE DEF linked, one
<1>6. /\ back \in [Entries -> Ref(Entries)]
      /\ \A e \in Entries : back[e] = IF e = next[anchor] THEN last ELSE one[e]
  BY ONLY <1>1, <1>2, <1>5, NullAssumption DEF Put, Ref
<1> HIDE DEF back
<1>7. /\ next' \in [Entries -> Ref(Entries)] /\ prev' \in [Entries -> Ref(Entries)]
      /\ \A e \in Entries : next'[e] = IF R /\ e = anchor THEN last ELSE linked[e]
      /\ \A e \in Entries : prev'[e] = IF R /\ e = last THEN anchor ELSE back[e]
  BY ONLY <1>1, <1>2, <1>4, <1>5, <1>6 DEF LastLinkNext, LastLinkPrev, Ref
<1>8. torn' = IF R THEN S \ {last} ELSE {}
  BY <1>4 DEF Spoils
<1> HIDE DEF R
<1>9. \A e \in Entries :
        /\ next'[e] = IF e = anchor THEN (IF R THEN last ELSE first)
                      ELSE IF e = last THEN next[anchor] ELSE next[e]
        /\ prev'[e] = IF R /\ e = last THEN anchor
                      ELSE IF e = next[anchor] THEN last
                      ELSE IF e = first THEN anchor ELSE prev[e]
  BY ONLY <1>3, <1>6, <1>7
<1> QED
  BY <1>7, <1>8, <1>9 DEF R

\* So does linking it after one.
LEMMA LinkAfterLemma ==
  ASSUME IInv, NEW S \in SUBSET held, NEW first \in S, NEW last \in S,
         NEW anchor \in InList, Chain(S, first, last), LinkAfter(anchor, S, first, last)
  PROVE  Core'
PROOF
<1> DEFINE after == next[anchor]
           R == Relinks(entrySs[anchor], anchor, last, ssFirst)
<1>1. /\ first \in Entries /\ last \in Entries /\ anchor \in Entries
      /\ first \in held /\ last \in held /\ anchor \notin held
      /\ entrySs[first] # NULL /\ entrySs[last] # NULL /\ entrySs[anchor] # NULL
      /\ NULL \notin Entries /\ held \subseteq Entries
      /\ next \in [Entries -> Ref(Entries)] /\ prev \in [Entries -> Ref(Entries)]
  BY NullAssumption DEF IInv, TypeOK, LiveInv, InList
<1>2. after # NULL => /\ after \in Entries /\ after \notin held
                      /\ entrySs[after] # NULL /\ prev[after] = anchor
  BY <1>1 DEF IInv, TypeOK, Mutual, Known, HeldApart, Ref
<1>3. /\ next' \in [Entries -> Ref(Entries)] /\ prev' \in [Entries -> Ref(Entries)]
      /\ \A e \in Entries :
           /\ next'[e] = IF e = anchor THEN (IF R THEN last ELSE first)
                         ELSE IF e = last THEN after ELSE next[e]
           /\ prev'[e] = IF R /\ e = last THEN anchor
                         ELSE IF e = after THEN last
                         ELSE IF e = first THEN anchor ELSE prev[e]
      /\ torn' = IF R THEN S \ {last} ELSE {}
  BY LinkAfterWrites
<1>4. entrySs' = entrySs /\ held' = held \ S
  BY DEF LinkAfter, maps
<1>5. TypeOK'
  <2>1. fnLast' \in [Functions -> Ref(Entries)] /\ ssLast' \in [SubSections -> Ref(Entries)]
    BY <1>1, MoveLemma, NullAssumption DEF IInv, TypeOK, LinkAfter, Ref
  <2>3. fnEnd' \in [Functions -> Ref(Entries)]
    <3>1. TypeOK /\ entryFn[anchor] \in Ref(Functions)
             /\ last \in Ref(Entries) /\ after \in Ref(Entries)
      BY <1>1 DEF IInv, TypeOK, Ref
    <3> QED
      BY <3>1, MoveEndLemma DEF LinkAfter
  <2>4. torn' \subseteq Entries /\ strayed' \in BOOLEAN /\ held' \subseteq entryVector
    BY <1>3, <1>4 DEF IInv, TypeOK, LinkAfter
  <2> QED
    BY <1>3, <2>1, <2>3, <2>4 DEF IInv, TypeOK, LinkAfter, maps
<1> HIDE DEF R
<1>6. \A e \in Entries : entrySs[e] # NULL =>
        /\ next[e] # NULL => entrySs[next[e]] # NULL /\ prev[next[e]] = e
        /\ prev[e] # NULL => entrySs[prev[e]] # NULL /\ next[prev[e]] = e
  BY DEF IInv, Mutual, Known
<1>7. /\ next[last] = NULL /\ prev[first] = NULL
      /\ \A e \in S \ {last} : next[e] \in S
      /\ \A e \in S \ {first} : prev[e] \in S
  BY DEF Chain, Run
<1>8. PtrInv'
  <2>1. CASE R
    <3>1. \A e \in Entries \ torn' : entrySs[e] # NULL /\ next'[e] \notin torn' \cup {NULL}
            => entrySs[next'[e]] # NULL /\ prev'[next'[e]] = e
      BY ONLY <2>1, <1>1, <1>2, <1>3, <1>6, <1>7, S \in SUBSET held DEF Ref
    <3>2. \A e \in Entries \ torn' : entrySs[e] # NULL /\ prev'[e] # NULL
            => entrySs[prev'[e]] # NULL /\ next'[prev'[e]] = e
      BY ONLY <2>1, <1>1, <1>2, <1>3, <1>6, <1>7, S \in SUBSET held DEF Ref
    <3> QED
      BY ONLY <3>1, <3>2, <1>4 DEF PtrInv, Known
  <2>2. CASE ~R
    <3>1. \A e \in Entries : entrySs[e] # NULL /\ next'[e] # NULL
            => entrySs[next'[e]] # NULL /\ prev'[next'[e]] = e
      BY ONLY <2>2, <1>1, <1>2, <1>3, <1>6, <1>7, S \in SUBSET held DEF Ref
    <3>2. \A e \in Entries : entrySs[e] # NULL /\ prev'[e] # NULL
            => entrySs[prev'[e]] # NULL /\ next'[prev'[e]] = e
      BY ONLY <2>2, <1>1, <1>2, <1>3, <1>6, <1>7, S \in SUBSET held DEF Ref
    <3> QED
      BY ONLY <3>1, <3>2, <1>4 DEF PtrInv, Known
  <2> QED
    BY <2>1, <2>2
<1>9. HeldApart'
  <2>1. \A e \in Entries : entrySs[e] # NULL /\ next[e] # NULL
          => (e \in held <=> next[e] \in held)
    BY DEF IInv, HeldApart, Known
  <2>2. \A e \in Entries : entrySs[e] # NULL /\ next[e] # NULL => (e \in S <=> next[e] \in S)
    BY ONLY <1>1, <1>6, <1>7, S \in SUBSET held DEF Ref
  <2>3. \A e \in Entries : entrySs[e] # NULL /\ next'[e] # NULL
          => (e \in held \ S <=> next'[e] \in held \ S)
    BY ONLY <2>1, <2>2, <1>1, <1>2, <1>3, S \in SUBSET held, first \in S, last \in S
  <2> QED
    BY ONLY <2>3, <1>4 DEF HeldApart, Known
<1>10. LiveInv'
  BY DEF IInv, LiveInv, LinkAfter, maps
<1> QED
  BY <1>5, <1>8, <1>9, <1>10 DEF Core

\* What Unlink writes: where set_last_entry relinks, only the prev_ of the new
\* last entry is wrong; its write to next_ is undone.
LEMMA UnlinkWrites ==
  ASSUME IInv, NEW S \in SUBSET InList, NEW first \in S, NEW last \in S,
         Run(S, first, last), prev[first] # NULL, Unlink(S, first, last)
  PROVE  LET R == Relinks(entrySs[first], last, prev[first], ssFirst') IN
         /\ next' \in [Entries -> Ref(Entries)] /\ prev' \in [Entries -> Ref(Entries)]
         /\ \A e \in Entries :
              /\ next'[e] = IF e = last THEN NULL
                            ELSE IF e = prev[first] THEN next[last] ELSE next[e]
              /\ prev'[e] = IF e = first THEN NULL
                            ELSE IF R /\ e = prev[first] THEN last
                            ELSE IF e = next[last] THEN prev[first] ELSE prev[e]
         /\ torn' = IF R THEN {prev[first]} ELSE {}
PROOF
<1> DEFINE ss == entrySs[first]
           before == prev[first]
           after == next[last]
           R == Relinks(ss, last, before, ssFirst')
           forth == Put(next, before, after)
           back == Put(prev, after, before)
           forth2 == LastLinkNext(forth, ss, last, before, ssFirst')
           back2 == LastLinkPrev(back, ss, last, before, ssFirst')
<1>1. /\ first \in Entries /\ last \in Entries /\ before \in Entries /\ after \in Ref(Entries)
      /\ before # last
      /\ next \in [Entries -> Ref(Entries)] /\ prev \in [Entries -> Ref(Entries)]
  BY DEF IInv, TypeOK, InList, Run, Ref
<1>2. /\ next' = [forth2 EXCEPT ![last] = NULL]
      /\ prev' = [back2 EXCEPT ![first] = NULL]
      /\ torn' = Spoils({before}, ss, last, before, ssFirst')
  BY DEF Unlink
<1> HIDE DEF ss, before, after
<1>3. /\ forth \in [Entries -> Ref(Entries)] /\ back \in [Entries -> Ref(Entries)]
      /\ \A e \in Entries :
           /\ forth[e] = IF e = before THEN after ELSE next[e]
           /\ back[e] = IF e = after THEN before ELSE prev[e]
  BY ONLY <1>1, NullAssumption DEF Put, Ref
<1> HIDE DEF forth, back
<1>4. /\ forth2 \in [Entries -> Ref(Entries)] /\ back2 \in [Entries -> Ref(Entries)]
      /\ \A e \in Entries :
           /\ forth2[e] = IF R /\ e = last THEN before ELSE forth[e]
           /\ back2[e] = IF R /\ e = before THEN last ELSE back[e]
  BY ONLY <1>1, <1>3 DEF LastLinkNext, LastLinkPrev, Ref
<1>5. torn' = IF R THEN {before} ELSE {}
  BY <1>2 DEF Spoils
<1> HIDE DEF forth2, back2, R
<1>6. /\ next' \in [Entries -> Ref(Entries)] /\ prev' \in [Entries -> Ref(Entries)]
      /\ \A e \in Entries :
           /\ next'[e] = IF e = last THEN NULL ELSE forth2[e]
           /\ prev'[e] = IF e = first THEN NULL ELSE back2[e]
  BY ONLY <1>1, <1>2, <1>4 DEF Ref
<1>7. \A e \in Entries :
        /\ next'[e] = IF e = last THEN NULL ELSE IF e = before THEN after ELSE next[e]
        /\ prev'[e] = IF e = first THEN NULL
                      ELSE IF R /\ e = before THEN last
                      ELSE IF e = after THEN before ELSE prev[e]
  BY ONLY <1>1, <1>3, <1>4, <1>6
<1> QED
  BY ONLY <1>5, <1>6, <1>7 DEF R, ss, before, after

\* So does unlinking a run of entries.
LEMMA UnlinkLemma ==
  ASSUME IInv, NEW S \in SUBSET InList, NEW first \in S, NEW last \in S,
         Run(S, first, last), prev[first] # NULL, Unlink(S, first, last)
  PROVE  Core'
PROOF
<1> DEFINE before == prev[first]
           after  == next[last]
           R == Relinks(entrySs[first], last, before, ssFirst')
<1>1. /\ S \subseteq Entries /\ S \cap held = {} /\ NULL \notin Entries
      /\ \A e \in S : entrySs[e] # NULL
      /\ first \in Entries /\ last \in Entries
      /\ next \in [Entries -> Ref(Entries)] /\ prev \in [Entries -> Ref(Entries)]
  BY NullAssumption DEF InList, IInv, TypeOK
<1>2. /\ before \in Entries \ S /\ before \notin held
      /\ entrySs[before] # NULL /\ next[before] = first
      /\ after # NULL => /\ after \in Entries \ S /\ after \notin held
                         /\ entrySs[after] # NULL /\ prev[after] = last
  BY <1>1 DEF IInv, TypeOK, Mutual, Known, HeldApart, Run, Ref
<1>3. /\ next' \in [Entries -> Ref(Entries)] /\ prev' \in [Entries -> Ref(Entries)]
      /\ \A e \in Entries :
           /\ next'[e] = IF e = last THEN NULL ELSE IF e = before THEN after ELSE next[e]
           /\ prev'[e] = IF e = first THEN NULL
                         ELSE IF R /\ e = before THEN last
                         ELSE IF e = after THEN before ELSE prev[e]
      /\ torn' = IF R THEN {before} ELSE {}
  BY UnlinkWrites
<1>4. entrySs' = entrySs /\ held' = held \cup S
  BY DEF Unlink, maps
<1>5. TypeOK'
  <2>2. held' \subseteq entryVector'
    BY <1>4 DEF IInv, TypeOK, LiveInv, Unlink, maps, InList
  <2>3. /\ before \in Ref(Entries) /\ after \in Ref(Entries)
        /\ entryFn[first] \in Ref(Functions) /\ entrySs[first] \in Ref(SubSections)
    BY <1>1 DEF IInv, TypeOK
  <2>4. /\ fnFirst' \in [Functions -> Ref(Entries)]
        /\ fnLast' \in [Functions -> Ref(Entries)]
        /\ ssFirst' \in [SubSections -> Ref(Entries)]
        /\ ssLast' \in [SubSections -> Ref(Entries)]
    BY <2>3, MoveLemma, NullAssumption DEF IInv, TypeOK, Unlink
  <2>5. fnEnd' \in [Functions -> Ref(Entries)]
    <3>1. TypeOK
      BY DEF IInv
    <3> QED
      BY <3>1, <2>3, MoveEndLemma, <1>1 DEF Unlink, IInv, TypeOK, Ref
  <2>6. torn' \subseteq Entries /\ strayed' \in BOOLEAN
    BY <1>2, <1>3 DEF IInv, TypeOK, Unlink
  <2> QED
    BY <1>3, <2>2, <2>4, <2>5, <2>6 DEF IInv, TypeOK, Unlink, maps
<1> HIDE DEF R
<1>6. \A e \in Entries : entrySs[e] # NULL =>
        /\ next[e] # NULL => entrySs[next[e]] # NULL /\ prev[next[e]] = e
        /\ prev[e] # NULL => entrySs[prev[e]] # NULL /\ next[prev[e]] = e
  BY DEF IInv, Mutual, Known
<1>7. PtrInv'
  <2>1. CASE R
    <3>1. \A e \in Entries \ torn' : entrySs[e] # NULL /\ next'[e] \notin torn' \cup {NULL}
            => entrySs[next'[e]] # NULL /\ prev'[next'[e]] = e
      BY ONLY <2>1, <1>1, <1>2, <1>3, <1>6 DEF Ref
    <3>2. \A e \in Entries \ torn' : entrySs[e] # NULL /\ prev'[e] # NULL
            => entrySs[prev'[e]] # NULL /\ next'[prev'[e]] = e
      BY ONLY <2>1, <1>1, <1>2, <1>3, <1>6 DEF Ref
    <3> QED
      BY ONLY <3>1, <3>2, <1>4 DEF PtrInv, Known
  <2>2. CASE ~R
    <3>1. \A e \in Entries : entrySs[e] # NULL /\ next'[e] # NULL
            => entrySs[next'[e]] # NULL /\ prev'[next'[e]] = e
      BY ONLY <2>2, <1>1, <1>2, <1>3, <1>6 DEF Ref
    <3>2. \A e \in Entries : entrySs[e] # NULL /\ prev'[e] # NULL
            => entrySs[prev'[e]] # NULL /\ next'[prev'[e]] = e
      BY ONLY <2>2, <1>1, <1>2, <1>3, <1>6 DEF Ref
    <3> QED
      BY ONLY <3>1, <3>2, <1>4 DEF PtrInv, Known
  <2> QED
    BY <2>1, <2>2
<1>8. HeldApart'
  <2>1. \A e \in Entries : entrySs[e] # NULL /\ next[e] # NULL
          => (e \in held <=> next[e] \in held)
    BY DEF IInv, HeldApart, Known
  <2>2. \A e \in Entries : entrySs[e] # NULL /\ next[e] # NULL /\ e # before /\ e # last
          => (e \in S <=> next[e] \in S)
    BY <1>1, <1>6 DEF Run, Ref
  <2>3. \A e \in Entries : entrySs[e] # NULL /\ next'[e] # NULL
          => (e \in held \cup S <=> next'[e] \in held \cup S)
    BY ONLY <2>1, <2>2, <1>1, <1>2, <1>3
  <2> QED
    BY ONLY <2>3, <1>4 DEF HeldApart, Known
<1>9. LiveInv'
  BY <1>1, <1>4 DEF IInv, LiveInv, Unlink, maps
<1> QED
  BY <1>5, <1>7, <1>8, <1>9 DEF Core

\* What DeleteEntry writes: it may also make the deleted entry point back into
\* the list, and the new last entry to the deleted one.
LEMMA DeleteWrites ==
  ASSUME IInv, NEW e \in InList, DeleteEntry(e)
  PROVE  LET R == Relinks(entrySs[e], e, prev[e], ssFirst') IN
         /\ next' \in [Entries -> Ref(Entries)] /\ prev' \in [Entries -> Ref(Entries)]
         /\ \A h \in Entries : h # e =>
              /\ next'[h] = IF h = prev[e] THEN next[e] ELSE next[h]
              /\ prev'[h] = IF R /\ h = prev[e] THEN e
                            ELSE IF h = next[e] THEN prev[e] ELSE prev[h]
         /\ torn' = IF R THEN {prev[e]} ELSE {}
         /\ R => prev[e] # NULL
PROOF
<1> DEFINE ss == entrySs[e]
           before == prev[e]
           after == next[e]
           R == Relinks(ss, e, before, ssFirst')
           forth == Put(next, before, after)
           back == Put(prev, after, before)
<1>1. /\ e \in Entries /\ before \in Ref(Entries) /\ after \in Ref(Entries)
      /\ next \in [Entries -> Ref(Entries)] /\ prev \in [Entries -> Ref(Entries)]
  BY DEF IInv, TypeOK, InList
<1>2. /\ next' = LastLinkNext(forth, ss, e, before, ssFirst')
      /\ prev' = LastLinkPrev(back, ss, e, before, ssFirst')
      /\ torn' = Spoils({before}, ss, e, before, ssFirst')
  BY DEF DeleteEntry
<1>3. R => before # NULL
  BY DEF DeleteEntry, CanDrop, Relinks
<1> HIDE DEF ss, before, after
<1>4. /\ forth \in [Entries -> Ref(Entries)] /\ back \in [Entries -> Ref(Entries)]
      /\ \A h \in Entries :
           /\ forth[h] = IF h = before THEN after ELSE next[h]
           /\ back[h] = IF h = after THEN before ELSE prev[h]
  BY ONLY <1>1, NullAssumption DEF Put, Ref
<1> HIDE DEF forth, back
<1>5. /\ next' \in [Entries -> Ref(Entries)] /\ prev' \in [Entries -> Ref(Entries)]
      /\ \A h \in Entries :
           /\ next'[h] = IF R /\ h = e THEN before ELSE forth[h]
           /\ prev'[h] = IF R /\ h = before THEN e ELSE back[h]
  BY ONLY <1>1, <1>2, <1>4 DEF LastLinkNext, LastLinkPrev, Ref
<1>6. torn' = IF R THEN {before} ELSE {}
  BY <1>2 DEF Spoils
<1> HIDE DEF R
<1>7. \A h \in Entries : h # e =>
        /\ next'[h] = IF h = before THEN after ELSE next[h]
        /\ prev'[h] = IF R /\ h = before THEN e
                      ELSE IF h = after THEN before ELSE prev[h]
  BY ONLY <1>4, <1>5
<1> QED
  BY ONLY <1>3, <1>5, <1>6, <1>7 DEF R, ss, before, after

\* So does deleting an entry.
LEMMA DeleteLemma ==
  ASSUME IInv, NEW e \in InList, DeleteEntry(e)
  PROVE  Core'
PROOF
<1> DEFINE before == prev[e]
           after  == next[e]
           R == Relinks(entrySs[e], e, before, ssFirst')
<1>1. /\ e \in Entries /\ e \notin held /\ entrySs[e] # NULL
      /\ NULL \notin Entries /\ held \subseteq Entries
      /\ next \in [Entries -> Ref(Entries)] /\ prev \in [Entries -> Ref(Entries)]
      /\ entrySs \in [Entries -> Ref(SubSections)]
  BY NullAssumption DEF InList, IInv, TypeOK
<1>2. /\ before # NULL => /\ before \in Entries /\ before \notin held
                          /\ entrySs[before] # NULL /\ next[before] = e
      /\ after # NULL => /\ after \in Entries /\ after \notin held
                         /\ entrySs[after] # NULL /\ prev[after] = e
  BY <1>1 DEF IInv, TypeOK, Mutual, Known, HeldApart, Ref
<1>3. /\ next' \in [Entries -> Ref(Entries)] /\ prev' \in [Entries -> Ref(Entries)]
      /\ \A h \in Entries : h # e =>
           /\ next'[h] = IF h = before THEN after ELSE next[h]
           /\ prev'[h] = IF R /\ h = before THEN e
                         ELSE IF h = after THEN before ELSE prev[h]
      /\ torn' = IF R THEN {before} ELSE {}
      /\ R => before # NULL
  BY DeleteWrites
<1>4. held' = held /\ entrySs' = [entrySs EXCEPT ![e] = NULL]
  BY DEF DeleteEntry
<1>5. TypeOK'
  <2>1. held' \subseteq entryVector'
    BY <1>1, <1>4 DEF IInv, TypeOK, DeleteEntry
  <2>2. /\ before \in Ref(Entries) /\ after \in Ref(Entries)
        /\ entryFn[e] \in Ref(Functions) /\ entrySs[e] \in Ref(SubSections)
    BY <1>1 DEF IInv, TypeOK
  <2>3. /\ fnFirst' \in [Functions -> Ref(Entries)]
        /\ fnLast' \in [Functions -> Ref(Entries)]
        /\ ssFirst' \in [SubSections -> Ref(Entries)]
        /\ ssLast' \in [SubSections -> Ref(Entries)]
    BY <2>2, MoveLemma, NullAssumption DEF IInv, TypeOK, DeleteEntry
  <2>4. fnEnd' \in [Functions -> Ref(Entries)]
    <3>1. TypeOK
      BY DEF IInv
    <3> QED
      BY <3>1, <2>2, MoveEndLemma, <1>1 DEF DeleteEntry, IInv, TypeOK, Ref
  <2>5. entrySs' \in [Entries -> Ref(SubSections)] /\ entryFn' \in [Entries -> Ref(Functions)]
    BY <1>1, <1>4 DEF IInv, TypeOK, DeleteEntry, Ref
  <2>6. torn' \subseteq Entries /\ strayed' \in BOOLEAN
    BY <1>2, <1>3 DEF IInv, TypeOK, DeleteEntry
  <2> QED
    BY <1>3, <1>4, <2>1, <2>3, <2>4, <2>5, <2>6 DEF IInv, TypeOK, DeleteEntry
<1> HIDE DEF R
<1>6. \A h \in Entries : entrySs[h] # NULL =>
        /\ next[h] # NULL => entrySs[next[h]] # NULL /\ prev[next[h]] = h
        /\ prev[h] # NULL => entrySs[prev[h]] # NULL /\ next[prev[h]] = h
  BY DEF IInv, Mutual, Known
<1>7. \A h \in Entries : entrySs'[h] = IF h = e THEN NULL ELSE entrySs[h]
  BY <1>1, <1>4
<1>8. PtrInv'
  <2>1. \A h \in Entries \ torn' : h # e /\ entrySs[h] # NULL /\ next'[h] \notin torn' \cup {NULL}
          => entrySs'[next'[h]] # NULL /\ prev'[next'[h]] = h
    <3>1. CASE R
      BY ONLY <3>1, <1>1, <1>2, <1>3, <1>6, <1>7 DEF Ref
    <3>2. CASE ~R
      BY ONLY <3>2, <1>1, <1>2, <1>3, <1>6, <1>7 DEF Ref
    <3> QED
      BY <3>1, <3>2
  <2>2. \A h \in Entries \ torn' : h # e /\ entrySs[h] # NULL /\ prev'[h] # NULL
          => entrySs'[prev'[h]] # NULL /\ next'[prev'[h]] = h
    <3>1. CASE R
      BY ONLY <3>1, <1>1, <1>2, <1>3, <1>6, <1>7 DEF Ref
    <3>2. CASE ~R
      BY ONLY <3>2, <1>1, <1>2, <1>3, <1>6, <1>7 DEF Ref
    <3> QED
      BY <3>1, <3>2
  <2> QED
    BY ONLY <2>1, <2>2, <1>7 DEF PtrInv, Known
<1>9. HeldApart'
  <2>1. \A h \in Entries : entrySs[h] # NULL /\ next[h] # NULL
          => (h \in held <=> next[h] \in held)
    BY DEF IInv, HeldApart, Known
  <2>2. \A h \in Entries : h # e /\ entrySs[h] # NULL /\ next'[h] # NULL
          => (h \in held <=> next'[h] \in held)
    BY ONLY <2>1, <1>1, <1>2, <1>3
  <2> QED
    BY ONLY <2>2, <1>4, <1>7 DEF HeldApart, Known
<1>10. LiveInv'
  BY <1>1, <1>4 DEF IInv, TypeOK, LiveInv, DeleteEntry
<1> QED
  BY <1>5, <1>8, <1>9, <1>10 DEF Core

\* Every step preserves the invariant.
LEMMA NextLemma == Core /\ [Next]_vars => Core'
PROOF
<1> SUFFICES ASSUME Core, [Next]_vars PROVE Core'
  OBVIOUS
<1>1. CASE Next
  <2>0. torn = {} /\ IInv
    BY <1>1, MutualLemma DEF Next
  <2>1. CASE PassCreate
    BY <2>0, <2>1, CreateLemma, FreshAssumption DEF PassCreate
  <2>2. CASE PassLinkBefore
    BY <2>0, <2>2, LinkBeforeLemma DEF PassLinkBefore
  <2>3. CASE PassLinkAfter
    BY <2>0, <2>3, LinkAfterLemma DEF PassLinkAfter
  <2>4. CASE PassUnlink
    BY <2>0, <2>4, UnlinkLemma DEF PassUnlink
  <2>5. CASE PassDelete
    BY <2>0, <2>5, DeleteLemma DEF PassDelete
  <2>6. CASE PassDeleteAborts
    <3>1. UNCHANGED <<links, bounds, maps, held, past>> /\ aborted' = TRUE
      BY <2>6 DEF PassDeleteAborts, DeleteEntryAborts
    <3> QED
      BY <3>1 DEF Core, TypeOK, PtrInv, Known, HeldApart, LiveInv, links, bounds, maps, past
  <2> QED
    BY <1>1, <2>1, <2>2, <2>3, <2>4, <2>5, <2>6 DEF Next
<1>2. CASE UNCHANGED vars
  BY <1>2 DEF Core, TypeOK, PtrInv, Known, HeldApart, LiveInv, vars, links, bounds, maps, past
<1> QED
  BY <1>1, <1>2

\* The strengthened invariant: for every section, whatever the passes do, until
\* the list is torn and in the state that tears it.
THEOREM InvariantTheorem == Spec => []Core
PROOF
<1>1. Init => Core
  BY InitLemma
<1>2. Core /\ [Next]_vars => Core'
  BY NextLemma
<1> QED
  BY <1>1, <1>2, PTL DEF Spec

\* Every pointer and map of the entry list keeps its type.
THEOREM TypeTheorem == Spec => []TypeOK
PROOF
<1>1. Core => TypeOK
  BY DEF Core
<1> QED
  BY <1>1, InvariantTheorem, PTL

\* next_ and prev_ are mutual over LinkBefore, LinkAfter, Unlink and DeleteEntry,
\* but for the links of the entries that set_last_entry tears.
THEOREM LinksTheorem == Spec => []PtrInv
PROOF
<1>1. Core => PtrInv
  BY DEF Core
<1> QED
  BY <1>1, InvariantTheorem, PTL

\* The chains a pass holds never hang on the section, nor the section on them,
\* not even where the list is torn.
THEOREM HeldTheorem == Spec => []HeldApart
PROOF
<1>1. Core => HeldApart
  BY DEF Core
<1> QED
  BY <1>1, InvariantTheorem, PTL

-----------------------------------------------------------------------------
(***************************************************************************)
(* Paths along next and prev: what splicing a chain into a doubly linked   *)
(* list, or cutting a run out of it, does to the list, and to the runs of  *)
(* entries inside it.  Nothing from here on is about one state of the      *)
(* entry list: nxt and prv are any two links.                              *)
(*                                                                         *)
(* Statements about every entry of a path are proved from a least or a     *)
(* first counterexample (LeastLemma), since the provers have no induction. *)
(***************************************************************************)

\* s runs along the links nxt and prv, from an entry nothing leads to to one
\* that leads nowhere.
IsPath(nxt, prv, s) ==
  /\ s \in Seq(Entries)
  /\ s # <<>> => prv[s[1]] = NULL /\ nxt[s[Len(s)]] = NULL
  /\ \A i \in 1 .. Len(s) - 1 : nxt[s[i]] = s[i + 1] /\ prv[s[i + 1]] = s[i]

\* Run, for any links.
IsRun(nxt, prv, S, first, last) ==
  /\ {first, last} \subseteq S
  /\ \A e \in S \ {last} : nxt[e] \in S
  /\ \A e \in S \ {first} : prv[e] \in S
  /\ nxt[last] \notin S
  /\ prv[first] \notin S

\* The entries from i to j, in a sequence.
Piece(s, i, j) == {s[k] : k \in i .. j}

\* The two links of the entry at place i of a path.
LEMMA PathLinks ==
  ASSUME NEW nxt, NEW prv, NEW s, IsPath(nxt, prv, s), NEW i \in 1 .. Len(s)
  PROVE  /\ Len(s) \in Nat
         /\ s[i] \in Entries /\ s[i] # NULL
         /\ nxt[s[i]] = IF i < Len(s) THEN s[i + 1] ELSE NULL
         /\ prv[s[i]] = IF i > 1 THEN s[i - 1] ELSE NULL
PROOF
<1>1. s \in Seq(Entries) /\ Len(s) \in Nat /\ i \in Nat /\ s # <<>> /\ s[i] \in Entries
  BY DEF IsPath
<1>2. s[i] # NULL
  BY <1>1, NullAssumption
<1>3. nxt[s[i]] = IF i < Len(s) THEN s[i + 1] ELSE NULL
  <2>1. CASE i < Len(s)
    <3>1. i \in 1 .. Len(s) - 1
      BY <2>1, <1>1
    <3> QED
      BY <3>1, <2>1 DEF IsPath
  <2>2. CASE i = Len(s)
    BY <2>2, <1>1 DEF IsPath
  <2> QED
    BY <2>1, <2>2, <1>1
<1>4. prv[s[i]] = IF i > 1 THEN s[i - 1] ELSE NULL
  <2>1. CASE i > 1
    <3>1. i - 1 \in 1 .. Len(s) - 1 /\ (i - 1) + 1 = i
      BY <2>1, <1>1
    <3>2. prv[s[(i - 1) + 1]] = s[i - 1]
      BY <3>1 DEF IsPath
    <3> QED
      BY <3>1, <3>2, <2>1
  <2>2. CASE i = 1
    BY <2>2, <1>1 DEF IsPath
  <2> QED
    BY <2>1, <2>2, <1>1
<1> QED
  BY <1>1, <1>2, <1>3, <1>4

\* Two paths that share an entry share it at the same place, and are one path:
\* the links lead both ways from it alike.
LEMMA PathInjective ==
  ASSUME NEW nxt, NEW prv, NEW s, IsPath(nxt, prv, s),
         NEW t, IsPath(nxt, prv, t),
         NEW i \in 1 .. Len(s), NEW j \in 1 .. Len(t), s[i] = t[j]
  PROVE  i = j /\ s = t
PROOF
<1> DEFINE n == Len(s)
           m == Len(t)
           T == {k \in 1 .. n : \E l \in 1 .. m : s[k] = t[l] /\ k # l}
           U == {k \in 1 .. n : k \notin 1 .. m \/ s[k] # t[k]}
<1>0. n \in Nat /\ m \in Nat /\ s \in Seq(Entries) /\ t \in Seq(Entries)
  BY DEF IsPath
<1>1. T = {}
  <2> SUFFICES ASSUME T # {} PROVE FALSE
    OBVIOUS
  <2>1. T \in SUBSET Nat
    OBVIOUS
  <2>2. PICK k \in T : \A q \in T : k <= q
    BY <2>1, LeastLemma
  <2>3. PICK l \in 1 .. m : s[k] = t[l] /\ k # l
    OBVIOUS
  <2>4. k \in 1 .. n
    OBVIOUS
  <2>5. /\ prv[s[k]] = IF k > 1 THEN s[k - 1] ELSE NULL
        /\ prv[t[l]] = IF l > 1 THEN t[l - 1] ELSE NULL
    BY <2>3, <2>4, PathLinks, SMTT(60)
  <2>6. k > 1 => s[k - 1] # NULL
    <3>1. k > 1 => k - 1 \in 1 .. n
      BY <2>4, <1>0
    <3> QED
      BY <3>1, PathLinks
  <2>7. l > 1 => t[l - 1] # NULL
    <3>1. l > 1 => l - 1 \in 1 .. m
      BY <2>3, <1>0
    <3> QED
      BY <3>1, PathLinks
  <2>8. k > 1 /\ l > 1
    BY <2>3, <2>4, <2>5, <2>6, <2>7, <1>0
  <2>9. k - 1 \in 1 .. n /\ l - 1 \in 1 .. m /\ k - 1 # l - 1 /\ s[k - 1] = t[l - 1]
    BY <2>3, <2>4, <2>5, <2>8, <1>0
  <2>10. k - 1 \in T
    BY <2>9
  <2>11. k <= k - 1
    BY <2>2, <2>10
  <2> QED
    BY <2>11, <2>4, <1>0
<1>2. i = j
  BY <1>1
<1>3. s[1] = t[1] /\ n >= 1 /\ m >= 1
  <2> DEFINE V == {k \in 1 .. n : k \in 1 .. m /\ s[k] = t[k]}
  <2>1. V \in SUBSET Nat /\ i \in V
    BY <1>2
  <2>2. PICK k \in V : \A q \in V : k <= q
    BY <2>1, LeastLemma
  <2>3. k \in 1 .. n /\ k \in 1 .. m /\ s[k] = t[k]
    OBVIOUS
  <2>4. k > 1 => s[k - 1] = t[k - 1] /\ k - 1 \in V
    BY <2>3, PathLinks, <1>0, SMTT(60)
  <2>5. k = 1
    BY <2>2, <2>3, <2>4, <1>0
  <2> QED
    BY <2>3, <2>5, <1>0
<1>4. \A k \in 1 .. n : k \in 1 .. m /\ s[k] = t[k]
  <2> SUFFICES ASSUME U # {} PROVE FALSE
    OBVIOUS
  <2>1. U \in SUBSET Nat
    OBVIOUS
  <2>2. PICK k \in U : \A q \in U : k <= q
    BY <2>1, LeastLemma
  <2>3. k \in 1 .. n /\ (k \notin 1 .. m \/ s[k] # t[k])
    OBVIOUS
  <2>4. k # 1
    BY <2>3, <1>3, <1>0
  <2>5. k - 1 \in 1 .. n /\ k - 1 \notin U
    BY <2>2, <2>3, <2>4, <1>0
  <2>6. k - 1 \in 1 .. m /\ s[k - 1] = t[k - 1]
    BY <2>5
  <2>7. nxt[s[k - 1]] = s[k] /\ s[k] # NULL
    <3>1. nxt[s[k - 1]] = IF k - 1 < n THEN s[(k - 1) + 1] ELSE NULL
      BY <2>5, PathLinks
    <3>2. (k - 1) + 1 = k /\ k - 1 < n
      BY <2>3, <1>0
    <3>3. s[k] # NULL
      BY <2>3, PathLinks
    <3> QED
      BY <3>1, <3>2, <3>3
  <2>8. nxt[t[k - 1]] = IF k - 1 < m THEN t[(k - 1) + 1] ELSE NULL
    BY <2>6, PathLinks, SMTT(60)
  <2>9. k - 1 < m /\ t[(k - 1) + 1] = s[k]
    BY <2>6, <2>7, <2>8
  <2> QED
    BY <2>9, <2>3, <1>0
<1>5. n = m
  <2> SUFFICES ASSUME n # m PROVE FALSE
    OBVIOUS
  <2>1. n < m /\ n \in 1 .. n /\ n \in 1 .. m
    BY <1>0, <1>3, <1>4
  <2>2. nxt[s[n]] = NULL /\ nxt[t[n]] = t[n + 1]
    BY <2>1, PathLinks, SMTT(60)
  <2>3. t[n + 1] # NULL
    BY <2>1, PathLinks, <1>0
  <2> QED
    BY <2>1, <2>2, <2>3, <1>4
<1>6. s = t
  BY <1>0, <1>4, <1>5
<1> QED
  BY <1>2, <1>6

\* An entry that a path never repeats: its place is unique.
LEMMA PathOnce ==
  ASSUME NEW nxt, NEW prv, NEW s, IsPath(nxt, prv, s),
         NEW i \in 1 .. Len(s), NEW j \in 1 .. Len(s), s[i] = s[j]
  PROVE  i = j
PROOF
  BY PathInjective

\* Range, place by place.
LEMMA RangeLemma ==
  ASSUME NEW s \in Seq(Entries)
  PROVE  /\ \A e \in Range(s) : \E i \in 1 .. Len(s) : s[i] = e
         /\ \A i \in 1 .. Len(s) : s[i] \in Range(s)
         /\ Range(s) \subseteq Entries
PROOF
  BY DEF Range

\* A set that the links lead out of only to NULL contains a path or misses it.
LEMMA ClosedLemma ==
  ASSUME NEW nxt, NEW prv, NEW s, IsPath(nxt, prv, s), NEW C,
         \A e \in C : {nxt[e], prv[e]} \subseteq C \cup {NULL},
         NEW i \in 1 .. Len(s), s[i] \in C
  PROVE  Range(s) \subseteq C
PROOF
<1> DEFINE n == Len(s)
           T == {k \in 1 .. n : s[k] \in C}
           U == {k \in 1 .. n : s[k] \notin C}
<1>0. n \in Nat /\ s \in Seq(Entries)
  BY DEF IsPath
<1>1. s[1] \in C /\ n >= 1
  <2>1. T \in SUBSET Nat /\ i \in T
    OBVIOUS
  <2>2. PICK k \in T : \A q \in T : k <= q
    BY <2>1, LeastLemma
  <2>3. k \in 1 .. n /\ s[k] \in C
    OBVIOUS
  <2>4. k > 1 => k - 1 \in 1 .. n /\ s[k - 1] # NULL /\ prv[s[k]] = s[k - 1]
    <3>1. k > 1 => k - 1 \in 1 .. n
      BY <2>3, <1>0
    <3> QED
      BY <3>1, <2>3, PathLinks
  <2>5. k > 1 => k - 1 \in T
    BY <2>3, <2>4
  <2>6. k = 1
    BY <2>2, <2>3, <2>5, <1>0
  <2> QED
    BY <2>3, <2>6, <1>0
<1>2. U = {}
  <2> SUFFICES ASSUME U # {} PROVE FALSE
    OBVIOUS
  <2>1. U \in SUBSET Nat
    OBVIOUS
  <2>2. PICK k \in U : \A q \in U : k <= q
    BY <2>1, LeastLemma
  <2>3. k \in 1 .. n /\ s[k] \notin C /\ k # 1
    BY <1>1
  <2>4. k - 1 \in 1 .. n /\ k - 1 < n /\ (k - 1) + 1 = k
    BY <2>3, <1>0
  <2>5. s[k - 1] \in C
    BY <2>2, <2>4, <1>0
  <2>6. nxt[s[k - 1]] = s[k] /\ s[k] # NULL
    <3>1. nxt[s[k - 1]] = s[(k - 1) + 1]
      BY <2>4, PathLinks
    <3>2. s[k] # NULL
      BY <2>3, PathLinks
    <3> QED
      BY <3>1, <3>2, <2>4
  <2>7. nxt[s[k - 1]] = NULL \/ nxt[s[k - 1]] \in C
    BY <2>5
  <2> QED
    BY <2>3, <2>6, <2>7
<1> QED
  BY <1>0, <1>2, RangeLemma

\* A run of a path's entries is one piece of the path.
LEMMA RunLemma ==
  ASSUME NEW nxt, NEW prv, NEW s, IsPath(nxt, prv, s),
         NEW S, S \subseteq Range(s), NEW first, NEW last,
         IsRun(nxt, prv, S, first, last), NULL \notin S
  PROVE  \E i \in 1 .. Len(s) : \E j \in i .. Len(s) :
           /\ s[i] = first
           /\ s[j] = last
           /\ S = Piece(s, i, j)
PROOF
<1> DEFINE n == Len(s)
<1>0. n \in Nat /\ s \in Seq(Entries)
  BY DEF IsPath
<1>1. PICK i \in 1 .. n : s[i] = first
  BY <1>0, RangeLemma DEF IsRun
<1>2. PICK j \in 1 .. n : s[j] = last
  BY <1>0, RangeLemma DEF IsRun
<1>3. \A k \in 1 .. n : s[k] \in S /\ k # j => k + 1 \in 1 .. n /\ s[k + 1] \in S
  <2> SUFFICES ASSUME NEW k \in 1 .. n, s[k] \in S, k # j
               PROVE  k + 1 \in 1 .. n /\ s[k + 1] \in S
    OBVIOUS
  <2>1. s[k] # last
    BY <1>2, PathOnce
  <2>2. nxt[s[k]] \in S
    BY <2>1 DEF IsRun
  <2>3. nxt[s[k]] = IF k < n THEN s[k + 1] ELSE NULL
    BY PathLinks
  <2> QED
    BY <2>2, <2>3, <1>0
<1>4. \A k \in 1 .. n : s[k] \in S /\ k # i => k - 1 \in 1 .. n /\ s[k - 1] \in S
  <2> SUFFICES ASSUME NEW k \in 1 .. n, s[k] \in S, k # i
               PROVE  k - 1 \in 1 .. n /\ s[k - 1] \in S
    OBVIOUS
  <2>1. s[k] # first
    BY <1>1, PathOnce
  <2>2. prv[s[k]] \in S
    BY <2>1 DEF IsRun
  <2>3. prv[s[k]] = IF k > 1 THEN s[k - 1] ELSE NULL
    BY PathLinks
  <2> QED
    BY <2>2, <2>3, <1>0
<1>5. \A k \in 1 .. n : s[k] \in S => k >= i
  <2> DEFINE T == {k \in 1 .. n : s[k] \in S /\ k < i}
  <2> SUFFICES ASSUME T # {} PROVE FALSE
    BY <1>0
  <2>1. PICK k \in T : \A q \in T : k <= q
    <3>1. T \in SUBSET Nat
      OBVIOUS
    <3> QED
      BY <3>1, LeastLemma
  <2>2. k \in 1 .. n /\ s[k] \in S /\ k < i
    OBVIOUS
  <2>3. k - 1 \in 1 .. n /\ s[k - 1] \in S
    BY <2>2, <1>4, <1>0
  <2>4. k - 1 \in T
    BY <2>2, <2>3, <1>0
  <2> QED
    BY <2>1, <2>2, <2>4, <1>0
<1>6. \A k \in 1 .. n : s[k] \in S => k <= j
  <2> DEFINE T == {n - k : k \in {q \in 1 .. n : s[q] \in S /\ q > j}}
  <2> SUFFICES ASSUME NEW k0 \in 1 .. n, s[k0] \in S, k0 > j PROVE FALSE
    BY <1>0
  <2>1. PICK m \in T : \A q \in T : m <= q
    <3>1. T \in SUBSET Nat /\ n - k0 \in T
      BY <1>0
    <3> QED
      BY <3>1, LeastLemma
  <2>2. PICK k \in 1 .. n : s[k] \in S /\ k > j /\ m = n - k
    OBVIOUS
  <2>3. k + 1 \in 1 .. n /\ s[k + 1] \in S /\ k + 1 > j
    <3>1. k # j
      BY <2>2, <1>0
    <3>2. k + 1 \in 1 .. n /\ s[k + 1] \in S
      BY <2>2, <3>1, <1>3
    <3> QED
      BY <2>2, <3>2, <1>0
  <2>4. n - (k + 1) \in T
    BY <2>3
  <2>5. n - k <= n - (k + 1)
    BY <2>1, <2>2, <2>4
  <2> QED
    BY <2>2, <2>5, <1>0
<1>7. i <= j
  BY <1>1, <1>5, <1>2 DEF IsRun
<1>8. \A k \in i .. j : s[k] \in S
  <2> DEFINE T == {k \in i .. j : s[k] \notin S}
  <2> SUFFICES ASSUME T # {} PROVE FALSE
    OBVIOUS
  <2>1. PICK k \in T : \A q \in T : k <= q
    <3>1. T \in SUBSET Nat
      BY <1>0
    <3> QED
      BY <3>1, LeastLemma
  <2>2. k \in i .. j /\ s[k] \notin S /\ k # i
    BY <1>1 DEF IsRun
  <2>3. k - 1 \in i .. j /\ k - 1 \in 1 .. n /\ k - 1 # j /\ (k - 1) + 1 = k
    BY <2>2, <1>0
  <2>4. s[k - 1] \in S
    BY <2>1, <2>3, <1>0
  <2> QED
    BY <2>2, <2>3, <2>4, <1>3
<1>9. S = Piece(s, i, j)
  <2>1. \A e \in S : \E k \in i .. j : e = s[k]
    BY <1>0, <1>5, <1>6, RangeLemma
  <2> QED
    BY <2>1, <1>8 DEF Piece
<1> QED
  BY <1>1, <1>2, <1>7, <1>9, <1>0

\* A path has no more entries than there are.
LEMMA PathLength ==
  ASSUME NEW nxt, NEW prv, NEW s, IsPath(nxt, prv, s)
  PROVE  /\ Cardinality(Entries) \in Nat
         /\ Len(s) <= Cardinality(Entries)
PROOF
<1>0. s \in Seq(Entries) /\ Len(s) \in Nat /\ s \in [1 .. Len(s) -> Entries]
  BY LenProperties DEF IsPath
<1>1. Cardinality(Entries) \in Nat
  BY EntriesAssumption, FS_CardinalityType
<1>2. IsFiniteSet(1 .. Len(s)) /\ Cardinality(1 .. Len(s)) = Len(s)
  BY <1>0, FS_Interval
<1>3. ASSUME Cardinality(Entries) < Len(s) PROVE FALSE
  <2>1. \E i, j \in 1 .. Len(s) : i # j /\ s[i] = s[j]
    BY ONLY <1>0, <1>2, <1>3, EntriesAssumption, FS_PigeonHole
  <2> QED
    BY <2>1, PathOnce
<1> QED
  BY <1>0, <1>1, <1>3

\* One step of Walk's function, and the function itself up to n.
WalkStep(nxt, walk, n) ==
  [x \in Ref(Entries) |->
    IF n = 0 \/ x = NULL THEN <<>> ELSE <<x>> \o walk[n - 1][nxt[x]]]
IsWalk(nxt, walk, N) == walk = [n \in 0 .. N |-> WalkStep(nxt, walk, n)]

\* The recursive function that Walk chooses exists.
LEMMA WalkExists ==
  ASSUME NEW nxt, NEW N \in Nat
  PROVE  \E walk : IsWalk(nxt, walk, N)
PROOF
<1> DEFINE T == {n \in Nat : ~ \E walk : IsWalk(nxt, walk, n)}
<1> SUFFICES ASSUME T # {} PROVE FALSE
  OBVIOUS
<1>1. PICK n \in T : \A m \in T : n <= m
  <2>1. T \in SUBSET Nat
    OBVIOUS
  <2> QED
    BY <2>1, LeastLemma
<1>2. n \in Nat /\ ~ \E walk : IsWalk(nxt, walk, n)
  OBVIOUS
<1>3. \E g : n > 0 => IsWalk(nxt, g, n - 1)
  <2>1. CASE n > 0
    <3>1. n - 1 \in Nat /\ n - 1 \notin T
      BY <1>1, <1>2, <2>1
    <3> QED
      BY <3>1
  <2> QED
    BY <2>1
<1>4. PICK g : n > 0 => IsWalk(nxt, g, n - 1)
  BY <1>3
<1> DEFINE walk == [m \in 0 .. n |-> IF m = n THEN WalkStep(nxt, g, n) ELSE g[m]]
<1>5. \A m \in 0 .. n : m # n => g[m] = WalkStep(nxt, g, m)
  BY <1>2, <1>4 DEF IsWalk
<1>6. \A m \in 0 .. n : WalkStep(nxt, walk, m) = WalkStep(nxt, g, m)
  <2> SUFFICES ASSUME NEW m \in 0 .. n
               PROVE  WalkStep(nxt, walk, m) = WalkStep(nxt, g, m)
    OBVIOUS
  <2>1. m = 0 \/ walk[m - 1] = g[m - 1]
    BY <1>2
  <2> HIDE DEF walk
  <2> QED
    BY <2>1 DEF WalkStep
<1>7. \A m \in 0 .. n : walk[m] = WalkStep(nxt, walk, m)
  <2>1. \A m \in 0 .. n : walk[m] = WalkStep(nxt, g, m)
    BY <1>5
  <2> HIDE DEF walk
  <2> QED
    BY <2>1, <1>6
<1>8. IsWalk(nxt, walk, n)
  <2>1. walk = [m \in 0 .. n |-> walk[m]]
    OBVIOUS
  <2> HIDE DEF walk
  <2> QED
    BY <2>1, <1>7 DEF IsWalk
<1> QED
  BY <1>2, <1>8

\* Walking a path from its first entry gives the path.
LEMMA WalkLemma ==
  ASSUME NEW nxt, NEW prv, NEW s, IsPath(nxt, prv, s), NEW e,
         e = IF s = <<>> THEN NULL ELSE s[1]
  PROVE  Walk(nxt, e) = s
PROOF
<1> DEFINE N == Cardinality(Entries)
           L == Len(s)
           Rest(k, n) == SubSeq(s, k, IF k + n - 1 <= L THEN k + n - 1 ELSE L)
           at(k) == IF k <= L THEN s[k] ELSE NULL
<1>0. N \in Nat /\ L \in Nat /\ L <= N /\ s \in Seq(Entries)
  <2>1. s \in Seq(Entries)
    BY DEF IsPath
  <2>2. N \in Nat /\ L <= N
    BY PathLength
  <2> QED
    BY <2>1, <2>2
<1>1. PICK walk : IsWalk(nxt, walk, N) /\ Walk(nxt, e) = walk[N][e]
  <2> DEFINE W == CHOOSE w : IsWalk(nxt, w, N)
  <2>1. Walk(nxt, e) = W[N][e]
    BY DEF Walk, IsWalk, WalkStep
  <2>2. IsWalk(nxt, W, N)
    BY <1>0, WalkExists
  <2> QED
    BY <2>1, <2>2
<1>2. \A n \in 0 .. N : walk[n] = WalkStep(nxt, walk, n)
  BY <1>1 DEF IsWalk
<1>3. \A k \in 1 .. L + 1 : at(k) \in Ref(Entries)
  BY <1>0 DEF Ref
<1> DEFINE T == {n \in 0 .. N : \E k \in 1 .. L + 1 : walk[n][at(k)] # Rest(k, n)}
<1>4. T = {}
  <2> SUFFICES ASSUME T # {} PROVE FALSE
    OBVIOUS
  <2>1. PICK n \in T : \A m \in T : n <= m
    <3>1. T \in SUBSET Nat
      BY <1>0
    <3> QED
      BY <3>1, LeastLemma
  <2>2. PICK k \in 1 .. L + 1 : walk[n][at(k)] # Rest(k, n)
    OBVIOUS
  <2>3. n \in 0 .. N /\ n \in Nat
    OBVIOUS
  <2>4. walk[n][at(k)] = IF n = 0 \/ at(k) = NULL THEN <<>>
                         ELSE <<at(k)>> \o walk[n - 1][nxt[at(k)]]
    <3>1. at(k) \in Ref(Entries) /\ walk[n] = WalkStep(nxt, walk, n)
      BY <2>2, <2>3, <1>2, <1>3
    <3> HIDE DEF at
    <3> QED
      BY <3>1 DEF WalkStep
  <2>5. CASE n = 0 \/ k = L + 1
    <3>1. Rest(k, n) = <<>>
      BY <2>5, <2>2, <1>0, SubSeqEmpty
    <3>2. n = 0 \/ at(k) = NULL
      BY <2>5, <2>2, <1>0
    <3> QED
      BY <2>2, <2>4, <3>1, <3>2
  <2>6. CASE n > 0 /\ k # L + 1
    <3>1. k \in 1 .. L /\ k + 1 \in 1 .. L + 1
      BY <2>6, <2>2, <1>0
    <3>2. at(k) = s[k] /\ s[k] # NULL /\ s[k] \in Entries
      BY <3>1, PathLinks
    <3>3. nxt[s[k]] = at(k + 1)
      BY <3>1, PathLinks, <1>0
    <3>4. n - 1 \in 0 .. N /\ n - 1 \notin T
      <4>1. n - 1 \in 0 .. N /\ ~ (n <= n - 1)
        BY <2>3, <2>6, <1>0
      <4> HIDE DEF T
      <4> QED
        BY <4>1, <2>1
    <3>5. walk[n - 1][at(k + 1)] = Rest(k + 1, n - 1)
      BY <3>1, <3>4
    <3>6. <<s[k]>> \o Rest(k + 1, n - 1) = Rest(k, n)
      <4> DEFINE m == IF k + n - 1 <= L THEN k + n - 1 ELSE L
      <4>1. m \in k .. L /\ Rest(k, n) = SubSeq(s, k, m)
            /\ Rest(k + 1, n - 1) = SubSeq(s, k + 1, m)
        <5>1. m \in k .. L
          BY <3>1, <2>3, <2>6, <1>0
        <5>2. (k + 1) + (n - 1) - 1 = k + n - 1
          BY <2>3, <3>1
        <5> QED
          BY <5>1, <5>2
      <4> HIDE DEF m
      <4>2. <<s[k]>> \o SubSeq(s, k + 1, m) = SubSeq(s, k, m)
        BY <1>0, <3>1, <4>1, SubSeqRecursiveFirst
      <4> QED
        BY <4>1, <4>2
    <3>7. walk[n][at(k)] = <<s[k]>> \o walk[n - 1][at(k + 1)]
      <4>1. ~ (n = 0 \/ at(k) = NULL)
        BY <2>3, <2>6, <3>2
      <4>2. walk[n][at(k)] = <<at(k)>> \o walk[n - 1][nxt[at(k)]]
        <5> HIDE DEF at
        <5> QED
          BY <2>4, <4>1
      <4> QED
        BY <4>2, <3>2, <3>3
    <3> HIDE DEF at, Rest
    <3> QED
      BY <2>2, <3>5, <3>6, <3>7
  <2> QED
    BY <2>2, <2>3, <2>5, <2>6
<1>5. 1 \in 1 .. L + 1 /\ N \in 0 .. N /\ at(1) = e
  BY <1>0
<1>6. walk[N][e] = Rest(1, N)
  BY <1>4, <1>5, ZenonT(60)
<1>7. Rest(1, N) = s
  <2>1. Rest(1, N) = SubSeq(s, 1, L)
    BY <1>0
  <2> QED
    BY <2>1, <1>0, SubSeqFull
<1> QED
  BY <1>1, <1>6, <1>7

-----------------------------------------------------------------------------
(* Editing a path.                                                         *)

Place(s, k) == IF k \in 1 .. Len(s) THEN s[k] ELSE NULL
Spliced(s, i, p) == SubSeq(s, 1, i) \o p \o SubSeq(s, i + 1, Len(s))
Cut(s, i, j) == SubSeq(s, 1, i - 1) \o SubSeq(s, j + 1, Len(s))

\* IsPath, place by place.
LEMMA PathPlaces ==
  ASSUME NEW nxt, NEW prv, NEW s \in Seq(Entries)
  PROVE  IsPath(nxt, prv, s) <=>
           \A k \in 1 .. Len(s) :
             nxt[s[k]] = Place(s, k + 1) /\ prv[s[k]] = Place(s, k - 1)
PROOF
<1>0. Len(s) \in Nat
  OBVIOUS
<1>1. ASSUME IsPath(nxt, prv, s), NEW k \in 1 .. Len(s)
      PROVE  nxt[s[k]] = Place(s, k + 1) /\ prv[s[k]] = Place(s, k - 1)
  <2>1. /\ nxt[s[k]] = IF k < Len(s) THEN s[k + 1] ELSE NULL
        /\ prv[s[k]] = IF k > 1 THEN s[k - 1] ELSE NULL
    BY <1>1, PathLinks
  <2> QED
    BY <2>1, <1>0 DEF Place
<1>2. ASSUME \A k \in 1 .. Len(s) :
               nxt[s[k]] = Place(s, k + 1) /\ prv[s[k]] = Place(s, k - 1)
      PROVE  IsPath(nxt, prv, s)
  <2>1. ASSUME s # <<>> PROVE prv[s[1]] = NULL /\ nxt[s[Len(s)]] = NULL
    <3>1. Len(s) >= 1
      BY <2>1, <1>0
    <3>2. 1 \in 1 .. Len(s) /\ Len(s) \in 1 .. Len(s)
      BY <3>1, <1>0
    <3>3. Place(s, 1 - 1) = NULL /\ Place(s, Len(s) + 1) = NULL
      BY <1>0 DEF Place
    <3> QED
      BY <3>2, <3>3, <1>2
  <2>2. ASSUME NEW i \in 1 .. Len(s) - 1
        PROVE  nxt[s[i]] = s[i + 1] /\ prv[s[i + 1]] = s[i]
    <3>1. i \in 1 .. Len(s) /\ i + 1 \in 1 .. Len(s) /\ (i + 1) - 1 = i
      BY <1>0
    <3>2. Place(s, i + 1) = s[i + 1] /\ Place(s, (i + 1) - 1) = s[i]
      BY <3>1 DEF Place
    <3> QED
      BY <3>1, <3>2, <1>2
  <2> QED
    BY <2>1, <2>2 DEF IsPath
<1> QED
  BY <1>1, <1>2

\* Links that change nothing on a path leave it a path.
LEMMA LocalLemma ==
  ASSUME NEW nxt, NEW prv, NEW s, IsPath(nxt, prv, s), NEW nx2, NEW pv2,
         \A e \in Range(s) : nx2[e] = nxt[e] /\ pv2[e] = prv[e]
  PROVE  IsPath(nx2, pv2, s)
PROOF
<1>1. s \in Seq(Entries)
  BY DEF IsPath
<1>2. \A k \in 1 .. Len(s) : nx2[s[k]] = nxt[s[k]] /\ pv2[s[k]] = prv[s[k]]
  BY <1>1, RangeLemma
<1> QED
  BY <1>1, <1>2, PathPlaces

\* The places of a spliced sequence, and of a cut one.
LEMMA SplicedLemma ==
  ASSUME NEW s \in Seq(Entries), NEW p \in Seq(Entries), NEW i \in 0 .. Len(s)
  PROVE  /\ Spliced(s, i, p) \in Seq(Entries)
         /\ Len(Spliced(s, i, p)) = Len(s) + Len(p)
         /\ \A k \in 1 .. i : Spliced(s, i, p)[k] = s[k]
         /\ \A k \in 1 .. Len(p) : Spliced(s, i, p)[k + i] = p[k]
         /\ \A k \in i + 1 .. Len(s) : Spliced(s, i, p)[k + Len(p)] = s[k]
PROOF
<1> DEFINE n == Len(s)
           m == Len(p)
           a == SubSeq(s, 1, i)
           c == SubSeq(s, i + 1, n)
           b == a \o p
<1>0. n \in Nat /\ m \in Nat /\ i \in Nat /\ i <= n
  OBVIOUS
<1>1. a \in Seq(Entries) /\ Len(a) = i /\ \A k \in 1 .. i : a[k] = s[k]
  BY <1>0
<1>2. c \in Seq(Entries) /\ Len(c) = n - i /\ \A k \in 1 .. n - i : c[k] = s[k + i]
  BY <1>0
<1>3. Spliced(s, i, p) = b \o c
  BY DEF Spliced
<1> HIDE DEF a, c
<1>4. /\ b \in Seq(Entries) /\ Len(b) = i + m
      /\ \A k \in 1 .. i : b[k] = s[k]
      /\ \A k \in 1 .. m : b[k + i] = p[k]
  BY <1>0, <1>1, SMTT(60)
<1> HIDE DEF b
<1>5. b \o c \in Seq(Entries) /\ Len(b \o c) = n + m
  <2>1. b \o c \in Seq(Entries) /\ Len(b \o c) = Len(b) + Len(c)
    BY <1>2, <1>4, ConcatProperties
  <2> QED
    BY <2>1, <1>0, <1>2, <1>4
<1>6. \A k \in 1 .. i + m : (b \o c)[k] = b[k]
  BY <1>0, <1>2, <1>4
<1>7. \A k \in i + 1 .. n : (b \o c)[k + m] = s[k]
  <2> SUFFICES ASSUME NEW k \in i + 1 .. n PROVE (b \o c)[k + m] = s[k]
    OBVIOUS
  <2>1. k - i \in 1 .. n - i /\ k + m = Len(b) + (k - i) /\ (k - i) + i = k
    BY <1>0, <1>4
  <2>2. (b \o c)[Len(b) + (k - i)] = c[k - i]
    <3>1. Len(b) \in Nat /\ Len(c) \in Nat /\ k - i \in 1 .. Len(c)
      BY <1>0, <1>2, <1>4, <2>1
    <3>2. /\ Len(b) + (k - i) \in 1 .. Len(b) + Len(c)
          /\ ~ (Len(b) + (k - i) <= Len(b))
          /\ (Len(b) + (k - i)) - Len(b) = k - i
      BY <3>1
    <3> QED
      BY <1>2, <1>4, <3>2, ConcatProperties
  <2>3. c[k - i] = s[(k - i) + i]
    BY <1>2, <2>1
  <2> QED
    BY <2>1, <2>2, <2>3
<1>8. \A k \in 1 .. m : (b \o c)[k + i] = p[k]
  <2>1. \A k \in 1 .. m : k + i \in 1 .. i + m
    BY <1>0
  <2> QED
    BY <2>1, <1>4, <1>6
<1>9. \A k \in 1 .. i : (b \o c)[k] = s[k]
  <2>1. \A k \in 1 .. i : k \in 1 .. i + m
    BY <1>0
  <2> QED
    BY <2>1, <1>4, <1>6
<1> QED
  BY <1>3, <1>5, <1>7, <1>8, <1>9

\* The places of a sequence that a piece was cut out of.
LEMMA CutLemma ==
  ASSUME NEW s \in Seq(Entries), NEW i \in 1 .. Len(s), NEW j \in i .. Len(s)
  PROVE  /\ Cut(s, i, j) \in Seq(Entries)
         /\ Len(Cut(s, i, j)) = Len(s) - (j - i + 1)
         /\ \A k \in 1 .. i - 1 : Cut(s, i, j)[k] = s[k]
         /\ \A k \in j + 1 .. Len(s) : Cut(s, i, j)[k - (j - i + 1)] = s[k]
PROOF
<1> DEFINE n == Len(s)
           a == SubSeq(s, 1, i - 1)
           c == SubSeq(s, j + 1, n)
<1>0. n \in Nat /\ i \in Nat /\ j \in Nat /\ 1 <= i /\ i <= j /\ j <= n
  OBVIOUS
<1>1. a \in Seq(Entries) /\ Len(a) = i - 1 /\ \A k \in 1 .. i - 1 : a[k] = s[k]
  BY <1>0
<1>2. c \in Seq(Entries) /\ Len(c) = n - j /\ \A k \in 1 .. n - j : c[k] = s[k + j]
  BY <1>0
<1>3. Cut(s, i, j) = a \o c
  BY DEF Cut
<1> HIDE DEF a, c
<1>4. a \o c \in Seq(Entries) /\ Len(a \o c) = n - (j - i + 1)
  <2>1. a \o c \in Seq(Entries) /\ Len(a \o c) = Len(a) + Len(c)
    BY <1>1, <1>2, ConcatProperties
  <2> QED
    BY <2>1, <1>0, <1>1, <1>2
<1>5. \A k \in 1 .. i - 1 : (a \o c)[k] = s[k]
  BY <1>0, <1>1, <1>2
<1>6. \A k \in j + 1 .. n : (a \o c)[k - (j - i + 1)] = s[k]
  <2> SUFFICES ASSUME NEW k \in j + 1 .. n
               PROVE  (a \o c)[k - (j - i + 1)] = s[k]
    OBVIOUS
  <2>1. /\ k - j \in 1 .. n - j /\ k - (j - i + 1) = Len(a) + (k - j)
        /\ (k - j) + j = k
    BY <1>0, <1>1
  <2>2. (a \o c)[Len(a) + (k - j)] = c[k - j]
    <3>1. Len(a) \in Nat /\ Len(c) \in Nat /\ k - j \in 1 .. Len(c)
      BY <1>0, <1>1, <1>2, <2>1
    <3>2. /\ Len(a) + (k - j) \in 1 .. Len(a) + Len(c)
          /\ ~ (Len(a) + (k - j) <= Len(a))
          /\ (Len(a) + (k - j)) - Len(a) = k - j
      BY <3>1
    <3> QED
      BY <1>1, <1>2, <3>2, ConcatProperties
  <2>3. c[k - j] = s[(k - j) + j]
    BY <1>2, <2>1
  <2> QED
    BY <2>1, <2>2, <2>3
<1> QED
  BY <1>3, <1>4, <1>5, <1>6

\* The places of the piece.
LEMMA TakenLemma ==
  ASSUME NEW s \in Seq(Entries), NEW i \in 1 .. Len(s), NEW j \in i .. Len(s)
  PROVE  /\ SubSeq(s, i, j) \in Seq(Entries)
         /\ Len(SubSeq(s, i, j)) = j - i + 1
         /\ \A k \in i .. j : SubSeq(s, i, j)[k - i + 1] = s[k]
PROOF
  OBVIOUS

\* Every place of a spliced sequence is one of the three pieces.
LEMMA SplicedRange ==
  ASSUME NEW s \in Seq(Entries), NEW p \in Seq(Entries), NEW i \in 0 .. Len(s)
  PROVE  Range(Spliced(s, i, p)) = Range(s) \cup Range(p)
PROOF
<1> DEFINE w == Spliced(s, i, p)
           n == Len(s)
           m == Len(p)
<1>0. n \in Nat /\ m \in Nat /\ i \in Nat /\ i <= n
  OBVIOUS
<1>1. /\ w \in Seq(Entries)
      /\ Len(w) = n + m
      /\ \A k \in 1 .. i : w[k] = s[k]
      /\ \A k \in 1 .. m : w[k + i] = p[k]
      /\ \A k \in i + 1 .. n : w[k + m] = s[k]
  BY SplicedLemma
<1> HIDE DEF w
<1>2. \A k \in 1 .. n + m : w[k] \in Range(s) \cup Range(p)
  <2> SUFFICES ASSUME NEW k \in 1 .. n + m
               PROVE  w[k] \in Range(s) \cup Range(p)
    OBVIOUS
  <2>1. CASE k <= i
    <3>1. k \in 1 .. i /\ k \in 1 .. n
      BY <2>1, <1>0
    <3> QED
      BY <3>1, <1>1, RangeLemma
  <2>2. CASE i < k /\ k <= i + m
    <3>1. k - i \in 1 .. m /\ (k - i) + i = k
      BY <2>2, <1>0
    <3>2. w[(k - i) + i] = p[k - i]
      BY <3>1, <1>1
    <3> QED
      BY <3>1, <3>2, RangeLemma
  <2>3. CASE i + m < k
    <3>1. k - m \in i + 1 .. n /\ k - m \in 1 .. n /\ (k - m) + m = k
      BY <2>3, <1>0
    <3>2. w[(k - m) + m] = s[k - m]
      BY <3>1, <1>1
    <3> QED
      BY <3>1, <3>2, RangeLemma
  <2> QED
    BY <2>1, <2>2, <2>3, <1>0
<1>3. Range(w) \subseteq Range(s) \cup Range(p)
  BY <1>1, <1>2, RangeLemma
<1>4. \A k \in 1 .. n : s[k] \in Range(w)
  <2> SUFFICES ASSUME NEW k \in 1 .. n PROVE s[k] \in Range(w)
    OBVIOUS
  <2>1. CASE k <= i
    <3>1. k \in 1 .. i /\ k \in 1 .. Len(w)
      BY <2>1, <1>0, <1>1
    <3> QED
      BY <3>1, <1>1, RangeLemma
  <2>2. CASE i < k
    <3>1. k \in i + 1 .. n /\ k + m \in 1 .. Len(w)
      BY <2>2, <1>0, <1>1
    <3>2. w[k + m] = s[k]
      BY <3>1, <1>1
    <3> QED
      BY <3>1, <3>2, <1>1, RangeLemma
  <2> QED
    BY <2>1, <2>2, <1>0
<1>5. \A k \in 1 .. m : p[k] \in Range(w)
  <2> SUFFICES ASSUME NEW k \in 1 .. m PROVE p[k] \in Range(w)
    OBVIOUS
  <2>1. k + i \in 1 .. Len(w)
    BY <1>0, <1>1
  <2>2. w[k + i] = p[k]
    BY <1>1
  <2> QED
    BY <2>1, <2>2, <1>1, RangeLemma
<1>6. Range(s) \cup Range(p) \subseteq Range(w)
  BY <1>4, <1>5, RangeLemma
<1> QED
  BY <1>3, <1>6 DEF w

\* A cut path keeps the entries outside the piece, and the piece is the rest.
LEMMA CutRange ==
  ASSUME NEW nxt, NEW prv, NEW s, IsPath(nxt, prv, s),
         NEW i \in 1 .. Len(s), NEW j \in i .. Len(s)
  PROVE  /\ Range(Cut(s, i, j)) = Range(s) \ Piece(s, i, j)
         /\ Range(SubSeq(s, i, j)) = Piece(s, i, j)
         /\ Piece(s, i, j) \subseteq Range(s)
PROOF
<1> DEFINE w == Cut(s, i, j)
           t == SubSeq(s, i, j)
           n == Len(s)
           d == j - i + 1
<1>0. s \in Seq(Entries) /\ n \in Nat /\ i \in Nat /\ j \in Nat /\ 1 <= i /\ i <= j /\ j <= n
  BY DEF IsPath
<1>1. /\ w \in Seq(Entries)
      /\ Len(w) = n - d
      /\ \A k \in 1 .. i - 1 : w[k] = s[k]
      /\ \A k \in j + 1 .. n : w[k - d] = s[k]
  BY <1>0, CutLemma
<1>2. t \in Seq(Entries) /\ Len(t) = d /\ \A k \in i .. j : t[k - i + 1] = s[k]
  BY <1>0, TakenLemma
<1> HIDE DEF w, t
<1>3. \A k \in 1 .. n : s[k] \in Piece(s, i, j) <=> k \in i .. j
  <2> SUFFICES ASSUME NEW k \in 1 .. n, s[k] \in Piece(s, i, j) PROVE k \in i .. j
    BY DEF Piece
  <2>1. PICK q \in i .. j : s[k] = s[q]
    BY DEF Piece
  <2>2. q \in 1 .. n
    BY <1>0
  <2>3. k = q
    BY <2>1, <2>2, PathOnce
  <2> QED
    BY <2>3
<1>4. \A k \in 1 .. Len(w) : \E q \in 1 .. n : q \notin i .. j /\ w[k] = s[q]
  <2> SUFFICES ASSUME NEW k \in 1 .. n - d
               PROVE  \E q \in 1 .. n : q \notin i .. j /\ w[k] = s[q]
    BY <1>1
  <2>1. CASE k < i
    <3>1. k \in 1 .. i - 1 /\ k \in 1 .. n /\ k \notin i .. j
      BY <2>1, <1>0
    <3> QED
      BY <3>1, <1>1
  <2>2. CASE i <= k
    <3>1. /\ k + d \in j + 1 .. n /\ k + d \in 1 .. n /\ k + d \notin i .. j
          /\ (k + d) - d = k
      BY <2>2, <1>0
    <3>2. w[(k + d) - d] = s[k + d]
      BY <3>1, <1>1
    <3> QED
      BY <3>1, <3>2
  <2> QED
    BY <2>1, <2>2, <1>0
<1>5. \A q \in 1 .. n : q \notin i .. j => s[q] \in Range(w)
  <2> SUFFICES ASSUME NEW q \in 1 .. n, q \notin i .. j PROVE s[q] \in Range(w)
    OBVIOUS
  <2>1. CASE q < i
    <3>1. q \in 1 .. i - 1 /\ q \in 1 .. Len(w)
      BY <2>1, <1>0, <1>1
    <3>2. w[q] = s[q]
      BY <3>1, <1>1
    <3> QED
      BY <3>1, <3>2, <1>1, RangeLemma
  <2>2. CASE j < q
    <3>1. q \in j + 1 .. n /\ q - d \in 1 .. Len(w)
      BY <2>2, <1>0, <1>1
    <3>2. w[q - d] = s[q]
      BY <3>1, <1>1
    <3> QED
      BY <3>1, <3>2, <1>1, RangeLemma
  <2> QED
    BY <2>1, <2>2, <1>0
<1>6. Range(w) = Range(s) \ Piece(s, i, j)
  <2>1. Range(w) \subseteq Range(s) \ Piece(s, i, j)
    <3> SUFFICES ASSUME NEW e \in Range(w) PROVE e \in Range(s) \ Piece(s, i, j)
      OBVIOUS
    <3>1. PICK k \in 1 .. Len(w) : w[k] = e
      BY <1>1, RangeLemma
    <3>2. PICK q \in 1 .. n : q \notin i .. j /\ e = s[q]
      BY <3>1, <1>4
    <3> QED
      BY <3>2, <1>0, <1>3, RangeLemma
  <2>2. Range(s) \ Piece(s, i, j) \subseteq Range(w)
    <3> SUFFICES ASSUME NEW e \in Range(s), e \notin Piece(s, i, j) PROVE e \in Range(w)
      OBVIOUS
    <3>1. PICK q \in 1 .. n : s[q] = e
      BY <1>0, RangeLemma
    <3> QED
      BY <3>1, <1>3, <1>5
  <2> QED
    BY <2>1, <2>2
<1>7. Range(t) = Piece(s, i, j)
  <2>1. \A k \in 1 .. d : (k + i - 1) \in i .. j /\ (k + i - 1) - i + 1 = k
    BY <1>0
  <2>2. \A k \in 1 .. d : t[k] = s[k + i - 1]
    BY <2>1, <1>2
  <2>3. Range(t) \subseteq Piece(s, i, j)
    BY <2>1, <2>2, <1>2, RangeLemma DEF Piece
  <2>4. \A k \in i .. j : k - i + 1 \in 1 .. Len(t)
    BY <1>0, <1>2
  <2>5. Piece(s, i, j) \subseteq Range(t)
    BY <2>4, <1>2, RangeLemma DEF Piece
  <2> QED
    BY <2>3, <2>5
<1>8. Piece(s, i, j) \subseteq Range(s)
  <2>1. \A k \in i .. j : k \in 1 .. n
    BY <1>0
  <2> QED
    BY <2>1, <1>0, RangeLemma DEF Piece
<1> QED
  BY <1>6, <1>7, <1>8 DEF w, t

\* A path with another one spliced in after its place i.
LEMMA SplicePath ==
  ASSUME NEW nxt, NEW prv, NEW s, IsPath(nxt, prv, s), NEW p, IsPath(nxt, prv, p),
         p # <<>>, NEW i \in 0 .. Len(s), NEW nx2, NEW pv2,
         nx2[p[Len(p)]] = Place(s, i + 1),
         pv2[p[1]] = Place(s, i),
         i > 0 => nx2[s[i]] = p[1],
         i < Len(s) => pv2[s[i + 1]] = p[Len(p)],
         \A e \in Range(s) : e # Place(s, i) => nx2[e] = nxt[e],
         \A e \in Range(s) : e # Place(s, i + 1) => pv2[e] = prv[e],
         \A e \in Range(p) : e # p[Len(p)] => nx2[e] = nxt[e],
         \A e \in Range(p) : e # p[1] => pv2[e] = prv[e]
  PROVE  IsPath(nx2, pv2, Spliced(s, i, p))
PROOF
<1> DEFINE w == Spliced(s, i, p)
           n == Len(s)
           m == Len(p)
<1>0. /\ s \in Seq(Entries) /\ p \in Seq(Entries)
      /\ n \in Nat /\ m \in Nat /\ i \in Nat /\ i <= n /\ 1 <= m
  BY DEF IsPath
<1>1. /\ w \in Seq(Entries)
      /\ Len(w) = n + m
      /\ \A k \in 1 .. i : w[k] = s[k]
      /\ \A k \in 1 .. m : w[k + i] = p[k]
      /\ \A k \in i + 1 .. n : w[k + m] = s[k]
  BY <1>0, SplicedLemma, ZenonT(60)
<1> HIDE DEF w
<1>old. \A k \in 1 .. n : nxt[s[k]] = Place(s, k + 1) /\ prv[s[k]] = Place(s, k - 1)
  BY <1>0, PathPlaces
<1>oldp. \A k \in 1 .. m : nxt[p[k]] = Place(p, k + 1) /\ prv[p[k]] = Place(p, k - 1)
  BY <1>0, PathPlaces
<1>ends. /\ Place(w, i) = Place(s, i)
         /\ Place(w, i + m + 1) = Place(s, i + 1)
         /\ w[i + 1] = p[1] /\ w[i + m] = p[m]
  <2>1. Place(w, i) = Place(s, i)
    BY <1>0, <1>1 DEF Place
  <2>2. 1 \in 1 .. m /\ m \in 1 .. m
    BY <1>0
  <2>3. Place(w, i + m + 1) = Place(s, i + 1)
    <3>1. CASE i = n
      BY <3>1, <1>0, <1>1 DEF Place
    <3>2. CASE i < n
      <4>1. i + 1 \in i + 1 .. n /\ i + 1 \in 1 .. n /\ i + m + 1 \in 1 .. Len(w)
            /\ (i + 1) + m = i + m + 1
        BY <3>2, <1>0, <1>1
      <4>2. w[(i + 1) + m] = s[i + 1]
        BY <4>1, <1>1
      <4> QED
        BY <4>1, <4>2 DEF Place
    <3> QED
      BY <3>1, <3>2, <1>0
  <2>4. w[1 + i] = p[1] /\ w[m + i] = p[m]
    BY <2>2, <1>1
  <2>5. 1 + i = i + 1 /\ m + i = i + m
    BY <1>0
  <2> QED
    BY <2>1, <2>3, <2>4, <2>5
<1>2. ASSUME NEW k \in 1 .. i
      PROVE  nx2[w[k]] = Place(w, k + 1) /\ pv2[w[k]] = Place(w, k - 1)
  <2>1. k \in 1 .. n /\ w[k] = s[k] /\ s[k] \in Range(s)
    BY <1>0, <1>1, RangeLemma
  <2>2. nx2[s[k]] = Place(w, k + 1)
    <3>1. CASE k = i
      <4>1. i > 0 /\ k + 1 \in 1 .. Len(w)
        BY <3>1, <1>0, <1>1
      <4> QED
        BY <3>1, <4>1, <1>ends DEF Place
    <3>2. CASE k < i
      <4>1. k + 1 \in 1 .. i /\ k + 1 \in 1 .. n /\ k + 1 \in 1 .. Len(w) /\ i \in 1 .. n
        BY <3>2, <1>0, <1>1
      <4>2. s[k] # Place(s, i)
        BY <2>1, <3>2, <4>1, PathOnce DEF Place
      <4>3. nx2[s[k]] = Place(s, k + 1)
        BY <2>1, <4>2, <1>old
      <4> QED
        BY <4>1, <4>3, <1>1 DEF Place
    <3> QED
      BY <3>1, <3>2, <1>0
  <2>3. pv2[s[k]] = Place(w, k - 1)
    <3>1. s[k] # Place(s, i + 1)
      <4>1. i + 1 \in 1 .. n \/ i + 1 \notin 1 .. n
        OBVIOUS
      <4>2. i + 1 \in 1 .. n => s[k] # s[i + 1]
        BY <2>1, <1>0, PathOnce
      <4>3. s[k] # NULL
        BY <2>1, PathLinks
      <4> QED
        BY <4>2, <4>3 DEF Place
    <3>2. pv2[s[k]] = Place(s, k - 1)
      BY <2>1, <3>1, <1>old
    <3>3. Place(s, k - 1) = Place(w, k - 1)
      <4>1. CASE k = 1
        BY <4>1, <1>0 DEF Place
      <4>2. CASE k > 1
        <5>1. k - 1 \in 1 .. i /\ k - 1 \in 1 .. n /\ k - 1 \in 1 .. Len(w)
          BY <4>2, <1>0, <1>1
        <5> QED
          BY <5>1, <1>1 DEF Place
      <4> QED
        BY <4>1, <4>2
    <3> QED
      BY <3>2, <3>3
  <2> QED
    BY <2>1, <2>2, <2>3
<1>3. ASSUME NEW k \in 1 .. m
      PROVE  nx2[w[k + i]] = Place(w, k + i + 1) /\ pv2[w[k + i]] = Place(w, k + i - 1)
  <2>1. w[k + i] = p[k] /\ p[k] \in Range(p) /\ m \in 1 .. m /\ 1 \in 1 .. m
    BY <1>0, <1>1, RangeLemma
  <2>2. nx2[p[k]] = Place(w, k + i + 1)
    <3>1. CASE k = m
      <4>1. k + i + 1 = i + m + 1
        BY <3>1, <1>0
      <4> QED
        BY <3>1, <4>1, <1>ends
    <3>2. CASE k < m
      <4>1. /\ k + 1 \in 1 .. m /\ k + i + 1 \in 1 .. Len(w)
            /\ (k + 1) + i = k + i + 1 /\ k # m
        BY <3>2, <1>0, <1>1, SMTT(60)
      <4>2. p[k] # p[m]
        BY <2>1, <4>1, PathOnce
      <4>3. nx2[p[k]] = Place(p, k + 1)
        BY <2>1, <4>2, <1>oldp
      <4>4. w[(k + 1) + i] = p[k + 1]
        BY <4>1, <1>1
      <4> QED
        BY <4>1, <4>3, <4>4 DEF Place
    <3> QED
      BY <3>1, <3>2, <1>0
  <2>3. pv2[p[k]] = Place(w, k + i - 1)
    <3>1. CASE k = 1
      <4>1. k + i - 1 = i
        BY <3>1, <1>0
      <4> QED
        BY <3>1, <4>1, <1>ends
    <3>2. CASE k > 1
      <4>1. /\ k - 1 \in 1 .. m /\ k + i - 1 \in 1 .. Len(w)
            /\ (k - 1) + i = k + i - 1 /\ k # 1
        <5>1. k - 1 \in 1 .. m /\ (k - 1) + i = k + i - 1 /\ k # 1
          BY <3>2, <1>0
        <5>2. k + i - 1 \in 1 .. n + m
          BY <3>2, <1>0
        <5> QED
          BY ONLY <1>1, <5>1, <5>2
      <4>2. p[k] # p[1]
        BY <2>1, <4>1, PathOnce
      <4>3. pv2[p[k]] = Place(p, k - 1)
        BY <2>1, <4>2, <1>oldp
      <4>4. w[(k - 1) + i] = p[k - 1]
        BY <4>1, <1>1
      <4> QED
        BY <4>1, <4>3, <4>4 DEF Place
    <3> QED
      BY <3>1, <3>2, <1>0
  <2> QED
    BY <2>1, <2>2, <2>3
<1>4. ASSUME NEW k \in i + 1 .. n
      PROVE  nx2[w[k + m]] = Place(w, k + m + 1) /\ pv2[w[k + m]] = Place(w, k + m - 1)
  <2>1. k \in 1 .. n /\ w[k + m] = s[k] /\ s[k] \in Range(s)
    BY <1>0, <1>1, RangeLemma
  <2>2. nx2[s[k]] = Place(w, k + m + 1)
    <3>1. s[k] # Place(s, i)
      <4>1. i \in 1 .. n => s[k] # s[i]
        BY <2>1, <1>0, PathOnce
      <4>2. s[k] # NULL
        BY <2>1, PathLinks
      <4> QED
        BY <4>1, <4>2 DEF Place
    <3>2. nx2[s[k]] = Place(s, k + 1)
      BY <2>1, <3>1, <1>old
    <3>3. CASE k = n
      BY <3>2, <3>3, <1>0, <1>1 DEF Place
    <3>4. CASE k < n
      <4>1. /\ k + 1 \in i + 1 .. n /\ k + 1 \in 1 .. n /\ k + m + 1 \in 1 .. Len(w)
            /\ (k + 1) + m = k + m + 1
        BY <3>4, <1>0, <1>1
      <4>2. w[(k + 1) + m] = s[k + 1]
        BY <4>1, <1>1
      <4> QED
        BY <4>1, <4>2, <3>2 DEF Place
    <3> QED
      BY <3>3, <3>4, <1>0
  <2>3. pv2[s[k]] = Place(w, k + m - 1)
    <3>1. CASE k = i + 1
      <4>1. i < n /\ k + m - 1 = i + m /\ i + m \in 1 .. Len(w)
        BY <3>1, <1>0, <1>1, SMTT(60)
      <4> QED
        BY <3>1, <4>1, <1>ends DEF Place
    <3>2. CASE k > i + 1
      <4>1. /\ k - 1 \in i + 1 .. n /\ k - 1 \in 1 .. n /\ k + m - 1 \in 1 .. Len(w)
            /\ (k - 1) + m = k + m - 1 /\ i + 1 \in 1 .. n /\ k # i + 1
        <5>1. i + 1 < k /\ k <= n /\ k \in Nat /\ Len(w) = n + m
          BY <3>2, <1>0, <1>1
        <5>2. k - 1 \in i + 1 .. n /\ k - 1 \in 1 .. n /\ i + 1 \in 1 .. n /\ k # i + 1
          BY <5>1, <1>0
        <5>3. k + m - 1 \in 1 .. n + m /\ (k - 1) + m = k + m - 1
          BY <5>1, <1>0
        <5> QED
          BY <5>1, <5>2, <5>3
      <4>2. s[k] # Place(s, i + 1)
        BY <2>1, <4>1, PathOnce DEF Place
      <4>3. pv2[s[k]] = Place(s, k - 1)
        BY <2>1, <4>2, <1>old
      <4>4. w[(k - 1) + m] = s[k - 1]
        BY <4>1, <1>1
      <4> QED
        BY <4>1, <4>3, <4>4 DEF Place
    <3> QED
      BY <3>1, <3>2, <1>0
  <2> QED
    BY <2>1, <2>2, <2>3
<1>5. ASSUME NEW k \in 1 .. Len(w)
      PROVE  nx2[w[k]] = Place(w, k + 1) /\ pv2[w[k]] = Place(w, k - 1)
  <2>1. CASE k <= i
    <3>1. k \in 1 .. i
      BY <2>1, <1>0
    <3> QED
      BY <3>1, <1>2
  <2>2. CASE i < k /\ k <= i + m
    <3>1. k - i \in 1 .. m /\ (k - i) + i = k
      BY <2>2, <1>0
    <3>2. /\ nx2[w[(k - i) + i]] = Place(w, (k - i) + i + 1)
          /\ pv2[w[(k - i) + i]] = Place(w, (k - i) + i - 1)
      BY <3>1, <1>3
    <3> QED
      BY <3>1, <3>2
  <2>3. CASE i + m < k
    <3>1. k - m \in i + 1 .. n /\ (k - m) + m = k
      BY <2>3, <1>0, <1>1
    <3>2. /\ nx2[w[(k - m) + m]] = Place(w, (k - m) + m + 1)
          /\ pv2[w[(k - m) + m]] = Place(w, (k - m) + m - 1)
      BY <3>1, <1>4
    <3> QED
      BY <3>1, <3>2
  <2> QED
    BY <2>1, <2>2, <2>3, <1>0
<1> QED
  BY <1>1, <1>5, PathPlaces DEF w

\* A path with the piece from i to j taken out.
LEMMA CutPath ==
  ASSUME NEW nxt, NEW prv, NEW s, IsPath(nxt, prv, s),
         NEW i \in 1 .. Len(s), NEW j \in i .. Len(s), NEW nx2, NEW pv2,
         i > 1 => nx2[s[i - 1]] = Place(s, j + 1),
         j < Len(s) => pv2[s[j + 1]] = Place(s, i - 1),
         \A e \in Range(s) \ Piece(s, i, j) :
           e # Place(s, i - 1) => nx2[e] = nxt[e],
         \A e \in Range(s) \ Piece(s, i, j) :
           e # Place(s, j + 1) => pv2[e] = prv[e]
  PROVE  IsPath(nx2, pv2, Cut(s, i, j))
PROOF
<1> DEFINE w == Cut(s, i, j)
           n == Len(s)
           d == j - i + 1
<1>0. /\ s \in Seq(Entries) /\ n \in Nat /\ i \in Nat /\ j \in Nat
      /\ 1 <= i /\ i <= j /\ j <= n
  BY DEF IsPath
<1>1. /\ w \in Seq(Entries)
      /\ Len(w) = n - d
      /\ \A k \in 1 .. i - 1 : w[k] = s[k]
      /\ \A k \in j + 1 .. n : w[k - d] = s[k]
  BY <1>0, CutLemma
<1> HIDE DEF w
<1>old. \A k \in 1 .. n : nxt[s[k]] = Place(s, k + 1) /\ prv[s[k]] = Place(s, k - 1)
  BY <1>0, PathPlaces
<1>out. \A k \in 1 .. n : k \notin i .. j => s[k] \in Range(s) \ Piece(s, i, j)
  <2> SUFFICES ASSUME NEW k \in 1 .. n, s[k] \in Piece(s, i, j) PROVE k \in i .. j
    BY <1>0, RangeLemma
  <2>1. PICK q \in i .. j : s[k] = s[q]
    BY DEF Piece
  <2>2. q \in 1 .. n
    BY <1>0
  <2> QED
    BY <2>1, <2>2, PathOnce
<1>left. \A k \in 0 .. i - 1 : Place(w, k) = Place(s, k)
  <2> SUFFICES ASSUME NEW k \in 1 .. i - 1 PROVE Place(w, k) = Place(s, k)
    BY <1>0, <1>1 DEF Place
  <2>1. k \in 1 .. Len(w) /\ k \in 1 .. n /\ w[k] = s[k]
    BY <1>0, <1>1
  <2> QED
    BY <2>1 DEF Place
<1>right. \A k \in j + 1 .. n + 1 : Place(w, k - d) = Place(s, k)
  <2>1. Place(w, (n + 1) - d) = Place(s, n + 1)
    BY <1>0, <1>1 DEF Place
  <2>2. ASSUME NEW k \in j + 1 .. n PROVE Place(w, k - d) = Place(s, k)
    <3>1. k - d \in 1 .. n - d /\ k \in 1 .. n
      BY <1>0
    <3>2. k - d \in 1 .. Len(w) /\ w[k - d] = s[k]
      BY <3>1, <1>1
    <3> QED
      BY <3>1, <3>2 DEF Place
  <2>3. \A k \in j + 1 .. n + 1 : k = n + 1 \/ k \in j + 1 .. n
    BY <1>0
  <2> QED
    BY <2>1, <2>2, <2>3
<1>2. ASSUME NEW k \in 1 .. i - 1
      PROVE  nx2[w[k]] = Place(w, k + 1) /\ pv2[w[k]] = Place(w, k - 1)
  <2>1. k \in 1 .. n /\ k \notin i .. j /\ w[k] = s[k]
    BY <1>0, <1>1
  <2>2. nx2[s[k]] = Place(w, k + 1)
    <3>1. CASE k = i - 1
      <4>1. i > 1 /\ k + 1 = (j + 1) - d /\ j + 1 \in j + 1 .. n + 1
        BY <3>1, <1>0
      <4>2. Place(w, (j + 1) - d) = Place(s, j + 1)
        BY <4>1, <1>right
      <4> QED
        BY <3>1, <4>1, <4>2
    <3>2. CASE k < i - 1
      <4>1. k + 1 \in 0 .. i - 1 /\ i - 1 \in 1 .. n /\ k # i - 1
        BY <3>2, <1>0
      <4>2. s[k] # Place(s, i - 1)
        BY <2>1, <4>1, PathOnce DEF Place
      <4>3. nx2[s[k]] = Place(s, k + 1)
        BY <2>1, <4>2, <1>old, <1>out
      <4> QED
        BY <4>1, <4>3, <1>left
    <3> QED
      BY <3>1, <3>2, <1>0
  <2>3. pv2[s[k]] = Place(w, k - 1)
    <3>1. s[k] # Place(s, j + 1)
      <4>1. j + 1 \in 1 .. n => s[k] # s[j + 1]
        BY <2>1, <1>0, PathOnce
      <4>2. s[k] # NULL
        BY <2>1, PathLinks
      <4> QED
        BY <4>1, <4>2 DEF Place
    <3>2. pv2[s[k]] = Place(s, k - 1)
      BY <2>1, <3>1, <1>old, <1>out
    <3>3. k - 1 \in 0 .. i - 1
      BY <1>0
    <3> QED
      BY <3>2, <3>3, <1>left
  <2> QED
    BY <2>1, <2>2, <2>3
<1>3. ASSUME NEW k \in j + 1 .. n
      PROVE  nx2[w[k - d]] = Place(w, (k - d) + 1) /\ pv2[w[k - d]] = Place(w, (k - d) - 1)
  <2>1. k \in 1 .. n /\ k \notin i .. j /\ w[k - d] = s[k]
    BY <1>0, <1>1
  <2>2. nx2[s[k]] = Place(w, (k - d) + 1)
    <3>1. s[k] # Place(s, i - 1)
      <4>1. i - 1 \in 1 .. n => s[k] # s[i - 1]
        BY <2>1, <1>0, PathOnce
      <4>2. s[k] # NULL
        BY <2>1, PathLinks
      <4> QED
        BY <4>1, <4>2 DEF Place
    <3>2. nx2[s[k]] = Place(s, k + 1)
      BY <2>1, <3>1, <1>old, <1>out
    <3>3. k + 1 \in j + 1 .. n + 1 /\ (k + 1) - d = (k - d) + 1
      BY <1>0
    <3>4. Place(w, (k + 1) - d) = Place(s, k + 1)
      BY <3>3, <1>right
    <3> QED
      BY <3>2, <3>3, <3>4
  <2>3. pv2[s[k]] = Place(w, (k - d) - 1)
    <3>1. CASE k = j + 1
      <4>1. j < n /\ (k - d) - 1 = i - 1 /\ i - 1 \in 0 .. i - 1
        BY <3>1, <1>0
      <4> QED
        BY <3>1, <4>1, <1>left
    <3>2. CASE k > j + 1
      <4>1. /\ k - 1 \in j + 1 .. n + 1 /\ (k - 1) - d = (k - d) - 1
            /\ j + 1 \in 1 .. n /\ k # j + 1
        BY <3>2, <1>0
      <4>2. s[k] # Place(s, j + 1)
        BY <2>1, <4>1, PathOnce DEF Place
      <4>3. pv2[s[k]] = Place(s, k - 1)
        BY <2>1, <4>2, <1>old, <1>out
      <4>4. Place(w, (k - 1) - d) = Place(s, k - 1)
        BY <4>1, <1>right
      <4> QED
        BY <4>1, <4>3, <4>4
    <3> QED
      BY <3>1, <3>2, <1>0
  <2> QED
    BY <2>1, <2>2, <2>3
<1>4. ASSUME NEW k \in 1 .. Len(w)
      PROVE  nx2[w[k]] = Place(w, k + 1) /\ pv2[w[k]] = Place(w, k - 1)
  <2>1. CASE k <= i - 1
    <3>1. k \in 1 .. i - 1
      BY <2>1, <1>0
    <3> QED
      BY <3>1, <1>2
  <2>2. CASE i - 1 < k
    <3>1. k + d \in j + 1 .. n /\ (k + d) - d = k
      BY <2>2, <1>0, <1>1
    <3>2. /\ nx2[w[(k + d) - d]] = Place(w, ((k + d) - d) + 1)
          /\ pv2[w[(k + d) - d]] = Place(w, ((k + d) - d) - 1)
      BY <3>1, <1>3
    <3> QED
      BY <3>1, <3>2
  <2> QED
    BY <2>1, <2>2, <1>0
<1> QED
  BY <1>1, <1>4, PathPlaces DEF w

\* The piece that was taken out is a path of its own.
LEMMA TakenPath ==
  ASSUME NEW nxt, NEW prv, NEW s, IsPath(nxt, prv, s),
         NEW i \in 1 .. Len(s), NEW j \in i .. Len(s), NEW nx2, NEW pv2,
         nx2[s[j]] = NULL, pv2[s[i]] = NULL,
         \A e \in Piece(s, i, j) : e # s[j] => nx2[e] = nxt[e],
         \A e \in Piece(s, i, j) : e # s[i] => pv2[e] = prv[e]
  PROVE  IsPath(nx2, pv2, SubSeq(s, i, j))
PROOF
<1> DEFINE t == SubSeq(s, i, j)
           n == Len(s)
           d == j - i + 1
<1>0. /\ s \in Seq(Entries) /\ n \in Nat /\ i \in Nat /\ j \in Nat
      /\ 1 <= i /\ i <= j /\ j <= n
  BY DEF IsPath
<1>1. t \in Seq(Entries) /\ Len(t) = d /\ \A k \in i .. j : t[k - i + 1] = s[k]
  BY <1>0, TakenLemma
<1> HIDE DEF t
<1>old. \A k \in 1 .. n : nxt[s[k]] = Place(s, k + 1) /\ prv[s[k]] = Place(s, k - 1)
  BY <1>0, PathPlaces
<1>2. ASSUME NEW k \in i .. j
      PROVE  /\ nx2[t[k - i + 1]] = Place(t, (k - i + 1) + 1)
             /\ pv2[t[k - i + 1]] = Place(t, (k - i + 1) - 1)
  <2>1. /\ k \in 1 .. n /\ i \in 1 .. n /\ j \in 1 .. n /\ t[k - i + 1] = s[k]
        /\ s[k] \in Piece(s, i, j)
    BY <1>0, <1>1 DEF Piece
  <2>2. nx2[s[k]] = Place(t, (k - i + 1) + 1)
    <3>1. CASE k = j
      BY <3>1, <1>0, <1>1 DEF Place
    <3>2. CASE k < j
      <4>0. /\ k + 1 \in i .. j /\ k + 1 \in 1 .. n /\ (k - i + 1) + 1 \in 1 .. d
            /\ (k + 1) - i + 1 = (k - i + 1) + 1 /\ k # j
        BY <3>2, <1>0
      <4>1. /\ k + 1 \in i .. j /\ k + 1 \in 1 .. n /\ (k - i + 1) + 1 \in 1 .. Len(t)
            /\ (k + 1) - i + 1 = (k - i + 1) + 1 /\ k # j
        BY <4>0, <1>1
      <4>5. s[k] # s[j]
        BY <2>1, <4>1, PathOnce
      <4>2. nx2[s[k]] = Place(s, k + 1)
        BY <2>1, <4>5, <1>old
      <4>3. t[(k + 1) - i + 1] = s[k + 1]
        BY <4>1, <1>1
      <4> QED
        BY <4>1, <4>2, <4>3 DEF Place
    <3> QED
      BY <3>1, <3>2, <1>0
  <2>3. pv2[s[k]] = Place(t, (k - i + 1) - 1)
    <3>1. CASE k = i
      BY <3>1, <1>0, <1>1 DEF Place
    <3>2. CASE k > i
      <4>0. /\ k - 1 \in i .. j /\ k - 1 \in 1 .. n /\ (k - i + 1) - 1 \in 1 .. d
            /\ (k - 1) - i + 1 = (k - i + 1) - 1 /\ k # i
        BY <3>2, <1>0
      <4>1. /\ k - 1 \in i .. j /\ k - 1 \in 1 .. n /\ (k - i + 1) - 1 \in 1 .. Len(t)
            /\ (k - 1) - i + 1 = (k - i + 1) - 1 /\ k # i
        BY <4>0, <1>1
      <4>5. s[k] # s[i]
        BY <2>1, <4>1, PathOnce
      <4>2. pv2[s[k]] = Place(s, k - 1)
        BY <2>1, <4>5, <1>old
      <4>3. t[(k - 1) - i + 1] = s[k - 1]
        BY <4>1, <1>1
      <4> QED
        BY <4>1, <4>2, <4>3 DEF Place
    <3> QED
      BY <3>1, <3>2, <1>0
  <2> QED
    BY <2>1, <2>2, <2>3
<1>3. ASSUME NEW k \in 1 .. Len(t)
      PROVE  nx2[t[k]] = Place(t, k + 1) /\ pv2[t[k]] = Place(t, k - 1)
  <2>0. k \in 1 .. d
    BY <1>1
  <2>1. k + i - 1 \in i .. j /\ (k + i - 1) - i + 1 = k
    <3>1. i \in Nat /\ j \in Nat /\ i <= j /\ k \in 1 .. j - i + 1
      BY ONLY <1>0, <2>0
    <3>2. k \in Int /\ 1 <= k /\ k <= j - i + 1
      BY ONLY <3>1
    <3> QED
      BY ONLY <3>1, <3>2
  <2>2. /\ nx2[t[(k + i - 1) - i + 1]] = Place(t, ((k + i - 1) - i + 1) + 1)
        /\ pv2[t[(k + i - 1) - i + 1]] = Place(t, ((k + i - 1) - i + 1) - 1)
    BY <2>1, <1>2
  <2> QED
    BY <2>1, <2>2
<1> QED
  BY <1>1, <1>3, PathPlaces DEF t

-----------------------------------------------------------------------------
(* What splicing a run in and cutting a run out do to another run.         *)

\* The links around a run from first to last of S, in between before and after.
Between(nxt, prv, before, after, first, last) ==
  /\ nxt[last] = after
  /\ prv[first] = before
  /\ before # NULL => nxt[before] = first
  /\ after # NULL => prv[after] = last

\* Beside each other, with nothing in between.
Beside(nxt, prv, before, after) ==
  /\ before # NULL => nxt[before] = after
  /\ after # NULL => prv[after] = before

\* The inside of a run.
Inside(nxt, prv, S, first, last) ==
  /\ first \in S /\ last \in S
  /\ \A e \in S \ {last} : nxt[e] \in S
  /\ \A e \in S \ {first} : prv[e] \in S

\* The run S goes in between before and after, one of which is in M.
Splices(nxt, prv, nx2, pv2, M, S, first, last, before, after) ==
  /\ Inside(nxt, prv, S, first, last)
  /\ before \in M \/ after \in M
  /\ before \notin S /\ after \notin S /\ NULL \notin M /\ S \cap M = {}
  /\ \A e \in M : nxt[e] \notin S /\ prv[e] \notin S
  /\ Beside(nxt, prv, before, after)
  /\ Between(nx2, pv2, before, after, first, last)
  /\ \A e \in M \cup S : e # last /\ e # before => nx2[e] = nxt[e]
  /\ \A e \in M \cup S : e # first /\ e # after => pv2[e] = prv[e]

\* A run spliced in beside an entry of M makes M longer.
LEMMA InsertOwn ==
  ASSUME NEW nxt, NEW prv, NEW nx2, NEW pv2, NEW M, NEW f, NEW l,
         IsRun(nxt, prv, M, f, l), NEW S, NEW first, NEW last, NEW before, NEW after,
         Splices(nxt, prv, nx2, pv2, M, S, first, last, before, after),
         NEW f2, before \in M => f2 = f, before \notin M => f2 = first,
         NEW l2, after \in M => l2 = l, after \notin M => l2 = last
  PROVE  IsRun(nx2, pv2, M \cup S, f2, l2)
PROOF
<1>0. /\ Inside(nxt, prv, S, first, last)
      /\ before \in M \/ after \in M
      /\ before \notin S /\ after \notin S /\ NULL \notin M /\ S \cap M = {}
      /\ \A e \in M : nxt[e] \notin S /\ prv[e] \notin S
      /\ Beside(nxt, prv, before, after)
      /\ Between(nx2, pv2, before, after, first, last)
      /\ \A e \in M \cup S : e # last /\ e # before => nx2[e] = nxt[e]
      /\ \A e \in M \cup S : e # first /\ e # after => pv2[e] = prv[e]
  BY DEF Splices
<1> USE <1>0
<1>1. {f2, l2} \subseteq M \cup S
  BY DEF IsRun, Inside
<1>2. \A e \in (M \cup S) \ {l2} : nx2[e] \in M \cup S
  <2> SUFFICES ASSUME NEW e \in M \cup S, e # l2 PROVE nx2[e] \in M \cup S
    OBVIOUS
  <2>1. CASE e \in S
    BY <2>1 DEF Inside, Between
  <2>2. CASE e \in M /\ e = before
    BY <2>2 DEF Inside, Between
  <2>3. CASE e \in M /\ e # before
    <3>1. e # last /\ nx2[e] = nxt[e]
      BY <2>3 DEF Inside
    <3>2. e # l
      BY <2>3 DEF IsRun, Beside
    <3> QED
      BY <3>1, <3>2, <2>3 DEF IsRun
  <2> QED
    BY <2>1, <2>2, <2>3
<1>3. \A e \in (M \cup S) \ {f2} : pv2[e] \in M \cup S
  <2> SUFFICES ASSUME NEW e \in M \cup S, e # f2 PROVE pv2[e] \in M \cup S
    OBVIOUS
  <2>1. CASE e \in S
    BY <2>1 DEF Inside, Between
  <2>2. CASE e \in M /\ e = after
    BY <2>2 DEF Inside, Between
  <2>3. CASE e \in M /\ e # after
    <3>1. e # first /\ pv2[e] = prv[e]
      BY <2>3 DEF Inside
    <3>2. e # f
      BY <2>3 DEF IsRun, Beside
    <3> QED
      BY <3>1, <3>2, <2>3 DEF IsRun
  <2> QED
    BY <2>1, <2>2, <2>3
<1>4. nx2[l2] \notin M \cup S
  <2>1. CASE after \in M
    <3>1. l \in M /\ nxt[l] \notin M
      BY DEF IsRun
    <3>2. l # last /\ l # before /\ l2 = l
      BY <2>1, <3>1 DEF Inside, Beside
    <3> QED
      BY <3>1, <3>2
  <2>2. CASE after \notin M
    BY <2>2 DEF Between
  <2> QED
    BY <2>1, <2>2
<1>5. pv2[f2] \notin M \cup S
  <2>1. CASE before \in M
    <3>1. f \in M /\ prv[f] \notin M
      BY DEF IsRun
    <3>2. f # first /\ f # after /\ f2 = f
      BY <2>1, <3>1 DEF Inside, Beside
    <3> QED
      BY <3>1, <3>2
  <2>2. CASE before \notin M
    BY <2>2 DEF Between
  <2> QED
    BY <2>1, <2>2
<1> QED
  BY ONLY <1>1, <1>2, <1>3, <1>4, <1>5 DEF IsRun

\* A run spliced in elsewhere, or at the border of M, leaves M as it is.
LEMMA InsertOther ==
  ASSUME NEW nxt, NEW prv, NEW nx2, NEW pv2, NEW M, NEW f, NEW l,
         IsRun(nxt, prv, M, f, l),
         NEW first, NEW last, first \notin M, last \notin M,
         NEW before, NEW after, ~ (before \in M /\ after \in M), NULL \notin M,
         Beside(nxt, prv, before, after),
         Between(nx2, pv2, before, after, first, last),
         \A e \in M : e # last /\ e # before => nx2[e] = nxt[e],
         \A e \in M : e # first /\ e # after => pv2[e] = prv[e]
  PROVE  IsRun(nx2, pv2, M, f, l)
PROOF
<1>1. \A e \in M \ {l} : nx2[e] \in M
  BY DEF IsRun, Beside, Between
<1>2. \A e \in M \ {f} : pv2[e] \in M
  BY DEF IsRun, Beside, Between
<1>3. nx2[l] \notin M
  BY DEF IsRun, Beside, Between
<1>4. pv2[f] \notin M
  BY DEF IsRun, Beside, Between
<1> QED
  BY <1>1, <1>2, <1>3, <1>4 DEF IsRun

\* The run S of M, in between before and after, goes.
Parts(nxt, prv, nx2, pv2, M, S, first, last, before, after) ==
  /\ S \subseteq M /\ IsRun(nxt, prv, S, first, last)
  /\ before = prv[first] /\ after = nxt[last] /\ NULL \notin M
  /\ Between(nxt, prv, before, after, first, last)
  /\ Beside(nx2, pv2, before, after)
  /\ \A e \in M \ S : nxt[e] \in M => prv[nxt[e]] = e
  /\ \A e \in M \ S : prv[e] \in M => nxt[prv[e]] = e
  /\ \A e \in M \ S : e # before => nx2[e] = nxt[e]
  /\ \A e \in M \ S : e # after => pv2[e] = prv[e]

\* A run cut out of M leaves the rest of M a run.
LEMMA RemoveOwn ==
  ASSUME NEW nxt, NEW prv, NEW nx2, NEW pv2, NEW M, NEW f, NEW l,
         IsRun(nxt, prv, M, f, l),
         NEW S, NEW first, NEW last, NEW before, NEW after,
         Parts(nxt, prv, nx2, pv2, M, S, first, last, before, after),
         f # first \/ l # last,
         NEW f2, f = first => f2 = after, f # first => f2 = f,
         NEW l2, l = last => l2 = before, l # last => l2 = l
  PROVE  IsRun(nx2, pv2, M \ S, f2, l2)
PROOF
<1>0. /\ S \subseteq M /\ IsRun(nxt, prv, S, first, last)
      /\ before = prv[first] /\ after = nxt[last] /\ NULL \notin M
      /\ Between(nxt, prv, before, after, first, last)
      /\ Beside(nx2, pv2, before, after)
      /\ \A e \in M \ S : nxt[e] \in M => prv[nxt[e]] = e
      /\ \A e \in M \ S : prv[e] \in M => nxt[prv[e]] = e
      /\ \A e \in M \ S : e # before => nx2[e] = nxt[e]
      /\ \A e \in M \ S : e # after => pv2[e] = prv[e]
  BY DEF Parts
<1> USE <1>0
<1>1. /\ f \in M /\ l \in M /\ nxt[l] \notin M /\ prv[f] \notin M
      /\ first \in S /\ last \in S /\ before \notin S /\ after \notin S
  BY DEF IsRun
<1>2. l # last => after \in M \ S
  BY <1>1 DEF IsRun
<1>3. f # first => before \in M \ S
  BY <1>1 DEF IsRun
<1>4. f # first => f \notin S
  BY <1>1 DEF IsRun
<1>5. l # last => l \notin S
  BY <1>1 DEF IsRun
<1>6. {f2, l2} \subseteq M \ S
  BY <1>1, <1>2, <1>3, <1>4, <1>5
<1>7. \A e \in (M \ S) \ {l2} : nx2[e] \in M \ S
  <2> SUFFICES ASSUME NEW e \in M \ S, e # l2 PROVE nx2[e] \in M \ S
    OBVIOUS
  <2>1. CASE e = before
    BY <2>1, <1>2 DEF Beside
  <2>2. CASE e # before
    <3>1. nx2[e] = nxt[e] /\ e # l
      BY <2>2, <1>1
    <3>2. nxt[e] \in M
      BY <3>1 DEF IsRun
    <3>3. prv[nxt[e]] = e
      BY <3>2
    <3>4. nxt[e] \notin S
      BY <3>3, <2>2 DEF IsRun
    <3> QED
      BY <3>1, <3>2, <3>4
  <2> QED
    BY <2>1, <2>2
<1>8. \A e \in (M \ S) \ {f2} : pv2[e] \in M \ S
  <2> SUFFICES ASSUME NEW e \in M \ S, e # f2 PROVE pv2[e] \in M \ S
    OBVIOUS
  <2>1. CASE e = after
    BY <2>1, <1>3 DEF Beside
  <2>2. CASE e # after
    <3>1. pv2[e] = prv[e] /\ e # f
      BY <2>2, <1>1
    <3>2. prv[e] \in M
      BY <3>1 DEF IsRun
    <3>3. nxt[prv[e]] = e
      BY <3>2
    <3>4. prv[e] \notin S
      BY <3>3, <2>2 DEF IsRun
    <3> QED
      BY <3>1, <3>2, <3>4
  <2> QED
    BY <2>1, <2>2
<1>9. nx2[l2] \notin M \ S
  <2>1. CASE l = last
    BY <2>1, <1>1, <1>3 DEF Beside
  <2>2. CASE l # last
    BY <2>2, <1>1, <1>5 DEF Between
  <2> QED
    BY <2>1, <2>2
<1>10. pv2[f2] \notin M \ S
  <2>1. CASE f = first
    BY <2>1, <1>1, <1>2 DEF Beside
  <2>2. CASE f # first
    BY <2>2, <1>1, <1>4 DEF Between
  <2> QED
    BY <2>1, <2>2
<1> QED
  BY ONLY <1>6, <1>7, <1>8, <1>9, <1>10 DEF IsRun

\* A run cut out elsewhere leaves M as it is.
LEMMA RemoveOther ==
  ASSUME NEW nxt, NEW prv, NEW nx2, NEW pv2, NEW M, NEW f, NEW l,
         IsRun(nxt, prv, M, f, l),
         NEW first, NEW last, first \notin M, last \notin M,
         NEW before, NEW after, ~ (before \in M /\ after \in M), NULL \notin M,
         Between(nxt, prv, before, after, first, last),
         Beside(nx2, pv2, before, after),
         \A e \in M : e # before => nx2[e] = nxt[e],
         \A e \in M : e # after => pv2[e] = prv[e]
  PROVE  IsRun(nx2, pv2, M, f, l)
PROOF
<1>1. \A e \in M \ {l} : nx2[e] \in M
  BY DEF IsRun, Beside, Between
<1>2. \A e \in M \ {f} : pv2[e] \in M
  BY DEF IsRun, Beside, Between
<1>3. nx2[l] \notin M
  BY DEF IsRun, Beside, Between
<1>4. pv2[f] \notin M
  BY DEF IsRun, Beside, Between
<1> QED
  BY <1>1, <1>2, <1>3, <1>4 DEF IsRun

-----------------------------------------------------------------------------
(* Paths and ranges.                                                       *)

\* first and last of an owner bound a run that is all of its entries.
Spans(owner, O, first, last) ==
  \A o \in O : Mine(owner, o) # {} => IsRun(next, prev, Mine(owner, o), first[o], last[o])

\* A held entry is some function's, and a held chain is one function's.
HeldFn ==
  \A e \in held :
    /\ entryFn[e] # NULL
    /\ next[e] # NULL => entryFn[next[e]] = entryFn[e]

\* Until an entry strays, it is also in one subsection.
HeldSs == \A e \in held : next[e] # NULL => entrySs[next[e]] = entrySs[e]

\* The walk of the section starts at its first entry.
HeadInv ==
  LET head == ssFirst[FirstSubSection] IN
  IF InList = {} THEN head = NULL
  ELSE head \in Mine(entrySs, FirstSubSection) /\ prev[head] = NULL

\* The section is a path, and so is every held chain.
IsText(s) == IsPath(next, prev, s) /\ Range(s) = InList
TextInv == \E s : IsText(s)
IsHeldPath(p) == IsPath(next, prev, p) /\ p # <<>> /\ Range(p) \subseteq held
HeldPaths == \A h \in held : \E p : IsHeldPath(p) /\ h \in Range(p)

\* While nothing is torn, the lists are paths and functions are runs of them;
\* subsections are as long as no entry has strayed.
PathsInv ==
  /\ Spans(entryFn, Functions, fnFirst, fnLast)
  /\ HeldFn /\ HeadInv /\ TextInv /\ HeldPaths
SubSectionsInv == Spans(entrySs, SubSections, ssFirst, ssLast) /\ HeldSs

Sound == PathsInv /\ (~strayed => SubSectionsInv)
JInv == torn = {} => Sound

-----------------------------------------------------------------------------
(* Paths and runs of the state.                                            *)

\* What the links of the section and of the held entries satisfy (IInv).
LEMMA LiveLemma ==
  ASSUME IInv
  PROVE  /\ next \in [Entries -> Ref(Entries)] /\ prev \in [Entries -> Ref(Entries)]
         /\ InList \subseteq Entries /\ held \subseteq Entries /\ InList \cap held = {}
         /\ NULL \notin Entries
         /\ \A e \in InList \cup held : entrySs[e] # NULL
         /\ \A e \in Entries : entrySs[e] # NULL => e \in InList \cup held
         /\ \A e \in InList \cup held : next[e] # NULL => prev[next[e]] = e
         /\ \A e \in InList \cup held : prev[e] # NULL => next[prev[e]] = e
         /\ \A e \in InList : {next[e], prev[e]} \subseteq InList \cup {NULL}
         /\ \A e \in held : {next[e], prev[e]} \subseteq held \cup {NULL}
PROOF
<1>1. /\ next \in [Entries -> Ref(Entries)] /\ prev \in [Entries -> Ref(Entries)]
      /\ held \subseteq Entries
  BY DEF IInv, TypeOK
<1>2. NULL \notin Entries
  BY NullAssumption
<1>3. InList \subseteq Entries /\ InList \cap held = {}
  BY DEF InList
<1>4. /\ \A e \in InList \cup held : entrySs[e] # NULL
      /\ \A e \in Entries : entrySs[e] # NULL => e \in InList \cup held
  BY DEF IInv, LiveInv, InList
<1>5. /\ \A e \in InList \cup held : next[e] # NULL => prev[next[e]] = e
      /\ \A e \in InList \cup held : prev[e] # NULL => next[prev[e]] = e
  BY <1>1, <1>3, <1>4 DEF IInv, Mutual, Known
<1>6. \A e \in InList \cup held : next[e] # NULL =>
        /\ next[e] \in Entries /\ entrySs[next[e]] # NULL
        /\ (e \in held <=> next[e] \in held)
  BY <1>1, <1>3, <1>4 DEF IInv, Mutual, Known, HeldApart, Ref
<1>7. \A e \in InList \cup held : prev[e] # NULL =>
        /\ prev[e] \in Entries /\ entrySs[prev[e]] # NULL /\ next[prev[e]] = e
        /\ e # NULL
  BY <1>1, <1>2, <1>3, <1>4 DEF IInv, Mutual, Known, Ref
<1>8. \A e \in InList \cup held : prev[e] # NULL => (e \in held <=> prev[e] \in held)
  BY <1>7 DEF IInv, HeldApart, Known
<1>9. /\ \A e \in InList : {next[e], prev[e]} \subseteq InList \cup {NULL}
      /\ \A e \in held : {next[e], prev[e]} \subseteq held \cup {NULL}
  BY <1>3, <1>4, <1>6, <1>7, <1>8
<1> QED
  BY <1>1, <1>2, <1>3, <1>4, <1>5, <1>9

\* A chain a pass holds is all of one path.
LEMMA ChainLemma ==
  ASSUME IInv, HeldPaths, NEW S \in SUBSET held, NEW first, NEW last,
         Chain(S, first, last)
  PROVE  \E p : /\ IsHeldPath(p) /\ Range(p) = S
                /\ p[1] = first /\ p[Len(p)] = last
PROOF
<1>1. /\ first \in S /\ last \in S /\ prev[first] = NULL /\ next[last] = NULL
      /\ \A e \in S \ {last} : next[e] \in S
      /\ \A e \in S \ {first} : prev[e] \in S
  BY DEF Chain, Run
<1>2. S \subseteq Entries /\ NULL \notin Entries
  BY LiveLemma
<1>3. \A e \in S : {next[e], prev[e]} \subseteq S \cup {NULL}
  BY <1>1
<1>4. ASSUME NEW h \in S, NEW p, IsHeldPath(p), h \in Range(p)
      PROVE  Range(p) \subseteq S /\ Len(p) \in 1 .. Len(p) /\ p[Len(p)] = last
  <2>1. IsPath(next, prev, p) /\ p \in Seq(Entries)
    BY <1>4 DEF IsHeldPath, IsPath
  <2>2. PICK k \in 1 .. Len(p) : p[k] = h
    BY <1>4, <2>1, RangeLemma
  <2>3. Range(p) \subseteq S
    BY <1>3, <2>1, <2>2, ClosedLemma
  <2>4. Len(p) \in 1 .. Len(p) /\ p[Len(p)] \in S
    BY <2>1, <2>2, <2>3, RangeLemma
  <2>5. next[p[Len(p)]] = NULL
    BY <2>1, <2>4, PathLinks
  <2> QED
    BY <2>3, <2>4, <2>5, <1>1, <1>2
<1>5. PICK p : IsHeldPath(p) /\ first \in Range(p)
  BY <1>1 DEF HeldPaths
<1>6. Range(p) \subseteq S /\ Len(p) \in 1 .. Len(p) /\ p[Len(p)] = last
  BY <1>1, <1>4, <1>5
<1>7. S \subseteq Range(p)
  <2> SUFFICES ASSUME NEW h \in S PROVE h \in Range(p)
    OBVIOUS
  <2>1. PICK q : IsHeldPath(q) /\ h \in Range(q)
    BY DEF HeldPaths
  <2>2. Len(q) \in 1 .. Len(q) /\ q[Len(q)] = last
    BY <1>4, <2>1
  <2>3. IsPath(next, prev, p) /\ IsPath(next, prev, q)
    BY <1>5, <2>1 DEF IsHeldPath
  <2>4. q = p
    BY <1>6, <2>2, <2>3, PathInjective
  <2> QED
    BY <2>1, <2>4
<1>8. p[1] = first
  <2>1. IsPath(next, prev, p) /\ p \in Seq(Entries)
    BY <1>5 DEF IsHeldPath, IsPath
  <2>2. PICK k \in 1 .. Len(p) : p[k] = first
    BY <1>5, <2>1, RangeLemma
  <2>3. k > 1 => p[k - 1] # NULL /\ prev[p[k]] = p[k - 1]
    <3>1. k > 1 => k - 1 \in 1 .. Len(p)
      BY <2>1
    <3> QED
      BY <2>1, <3>1, PathLinks
  <2> QED
    BY <1>1, <2>2, <2>3
<1>9. IsHeldPath(p) /\ Range(p) = S /\ p[1] = first /\ p[Len(p)] = last
  BY <1>5, <1>6, <1>7, <1>8
<1> QED
  BY ONLY <1>9

\* A run of the section's entries is one piece of the section.
LEMMA SectionRun ==
  ASSUME IInv, NEW s, IsText(s), NEW S \in SUBSET InList, NEW first, NEW last,
         IsRun(next, prev, S, first, last)
  PROVE  \E i \in 1 .. Len(s) : \E j \in i .. Len(s) :
           s[i] = first /\ s[j] = last /\ S = Piece(s, i, j)
PROOF
<1>1. IsPath(next, prev, s) /\ S \subseteq Range(s)
  BY DEF IsText
<1>2. InList \subseteq Entries /\ NULL \notin Entries
  BY LiveLemma
<1>3. NULL \notin S
  BY <1>2
<1> QED
  BY <1>1, <1>3, RunLemma

-----------------------------------------------------------------------------
(* What the actions do to the paths.                                       *)

\* The held path p is spliced into the section after its place i.
Inserts(s, i, p) ==
  /\ IsText(s) /\ IsHeldPath(p) /\ i \in 0 .. Len(s)
  /\ IsPath(next', prev', Spliced(s, i, p))
  /\ InList' = InList \cup Range(p)
  /\ held' = held \ Range(p)
  /\ \A e \in held' : next'[e] = next[e] /\ prev'[e] = prev[e]

\* pv2 stands for the prev_ of after the step, or for one that is mended where
\* the step tears the list.  With it, the piece of the section from i to j
\* becomes a held path.
Takes(pv2, s, i, j) ==
  /\ IsText(s) /\ i \in 1 .. Len(s) /\ j \in i .. Len(s)
  /\ IsPath(next', pv2, Cut(s, i, j))
  /\ IsPath(next', pv2, SubSeq(s, i, j))
  /\ InList' = InList \ Piece(s, i, j)
  /\ held' = held \cup Piece(s, i, j)
  /\ \A e \in held : next'[e] = next[e] /\ pv2[e] = prev[e]

\* The entry at place i leaves the section.
Drops(pv2, s, i) ==
  /\ IsText(s) /\ i \in 1 .. Len(s)
  /\ IsPath(next', pv2, Cut(s, i, i))
  /\ InList' = InList \ {s[i]}
  /\ held' = held
  /\ \A e \in held : next'[e] = next[e] /\ pv2[e] = prev[e]

\* The section and the held chains of after the step.
NewText(pv2, s) == IsPath(next', pv2, s) /\ Range(s) = InList'
NewHeldPath(pv2, p) == IsPath(next', pv2, p) /\ p # <<>> /\ Range(p) \subseteq held'
NewHeldPaths(pv2) == \A h \in held' : \E p : NewHeldPath(pv2, p) /\ h \in Range(p)
NewHead(pv2) ==
  LET head == ssFirst'[FirstSubSection] IN
  IF InList' = {} THEN head = NULL
  ELSE /\ head \in InList' /\ entrySs'[head] = FirstSubSection
       /\ pv2[head] = NULL

\* The chain from first to last is linked in between before and after.
Joined(before, after, first, last) ==
  /\ next'[last] = after
  /\ prev'[first] = before
  /\ before # NULL => next'[before] = first
  /\ after # NULL => prev'[after] = last
  /\ \A e \in Entries : e # last /\ e # before => next'[e] = next[e]
  /\ \A e \in Entries : e # first /\ e # after => prev'[e] = prev[e]

\* The run from first to last is no longer in between before and after.
Parted(pv2, before, after, first, last) ==
  /\ before # NULL => next'[before] = after
  /\ after # NULL => pv2[after] = before
  /\ \A e \in Entries : e # last /\ e # before => next'[e] = next[e]
  /\ \A e \in Entries : e # first /\ e # after => pv2[e] = prev[e]

\* A held chain linked in at the place i of the section is spliced into it.
LEMMA JoinedPath ==
  ASSUME IInv, HeldPaths, NEW S \in SUBSET held, NEW first \in S, NEW last \in S,
         Chain(S, first, last),
         NEW s, IsText(s), NEW i \in 0 .. Len(s), NEW before, NEW after,
         before = Place(s, i), after = Place(s, i + 1),
         Joined(before, after, first, last), held' = held \ S, entrySs' = entrySs
  PROVE  \E p : Inserts(s, i, p) /\ Range(p) = S
PROOF
<1>1. /\ InList \subseteq Entries /\ held \subseteq Entries /\ InList \cap held = {}
      /\ NULL \notin Entries
      /\ \A e \in held : entrySs[e] # NULL
  BY LiveLemma
<1>2. IsPath(next, prev, s) /\ s \in Seq(Entries) /\ Range(s) = InList /\ Len(s) \in Nat
  BY DEF IsText, IsPath
<1>4. PICK p : IsHeldPath(p) /\ Range(p) = S /\ p[1] = first /\ p[Len(p)] = last
  BY ChainLemma
<1>5. IsPath(next, prev, p) /\ p # <<>>
  BY <1>4 DEF IsHeldPath
<1>8. i > 0 => before = s[i] /\ s[i] \in InList
  BY <1>2, RangeLemma DEF Place
<1>9. i < Len(s) => after = s[i + 1] /\ s[i + 1] \in InList
  BY <1>2, RangeLemma DEF Place
<1>10. before \in InList \cup {NULL} /\ after \in InList \cup {NULL}
  <2>1. i = 0 => before = NULL
    BY <1>2 DEF Place
  <2>2. i = Len(s) => after = NULL
    BY <1>2 DEF Place
  <2> QED
    BY <2>1, <2>2, <1>2, <1>8, <1>9
<1>12. IsPath(next', prev', Spliced(s, i, p))
  <2>1. \A e \in Range(s) : e # before => next'[e] = next[e]
    BY ONLY <1>1, <1>2, last \in S, S \in SUBSET held, Joined(before, after, first, last)
       DEF Joined
  <2>2. \A e \in Range(s) : e # after => prev'[e] = prev[e]
    BY ONLY <1>1, <1>2, first \in S, S \in SUBSET held, Joined(before, after, first, last)
       DEF Joined
  <2>3. \A e \in Range(p) : e # p[Len(p)] => next'[e] = next[e]
    BY ONLY <1>1, <1>4, <1>10, S \in SUBSET held, Joined(before, after, first, last)
       DEF Joined
  <2>4. \A e \in Range(p) : e # p[1] => prev'[e] = prev[e]
    BY ONLY <1>1, <1>4, <1>10, S \in SUBSET held, Joined(before, after, first, last)
       DEF Joined
  <2>5. next'[p[Len(p)]] = after /\ prev'[p[1]] = before
    BY <1>4 DEF Joined
  <2>6. i > 0 => next'[s[i]] = p[1]
    BY <1>1, <1>4, <1>8 DEF Joined
  <2>7. i < Len(s) => prev'[s[i + 1]] = p[Len(p)]
    BY <1>1, <1>4, <1>9 DEF Joined
  <2> QED
    BY ONLY <1>2, <1>5, <2>1, <2>2, <2>3, <2>4, <2>5, <2>6, <2>7, SplicePath,
            i \in 0 .. Len(s), before = Place(s, i), after = Place(s, i + 1)
<1>13. InList' = InList \cup S
  <2>1. \A e \in S : e \in Entries /\ entrySs[e] # NULL
    BY <1>1
  <2> QED
    BY ONLY <2>1, S \in SUBSET held, held' = held \ S, entrySs' = entrySs DEF InList
<1>14. \A e \in held' : next'[e] = next[e] /\ prev'[e] = prev[e]
  <2>1. \A e \in held' : /\ e \in Entries /\ e # last /\ e # first
                         /\ e # before /\ e # after
    BY ONLY <1>1, <1>10, first \in S, last \in S, S \in SUBSET held, held' = held \ S
  <2> QED
    BY ONLY <2>1, Joined(before, after, first, last) DEF Joined
<1>15. Inserts(s, i, p)
  BY ONLY <1>4, <1>12, <1>13, <1>14, IsText(s), i \in 0 .. Len(s), held' = held \ S
     DEF Inserts
<1> QED
  BY ONLY <1>4, <1>15

\* An entry of the section, its place, and the entries beside it.
LEMMA PlaceOf ==
  ASSUME IInv, NEW s, IsText(s), NEW e \in InList
  PROVE  \E k \in 1 .. Len(s) : /\ s[k] = e
                                /\ prev[e] = Place(s, k - 1)
                                /\ next[e] = Place(s, k + 1)
PROOF
<1>1. IsPath(next, prev, s) /\ s \in Seq(Entries) /\ Range(s) = InList
  BY DEF IsText, IsPath
<1>2. PICK k \in 1 .. Len(s) : s[k] = e
  BY <1>1, RangeLemma
<1> QED
  BY <1>1, <1>2, PathPlaces

\* What LinkBefore writes.
LEMMA LinkBeforeJoins ==
  ASSUME IInv, NEW S \in SUBSET held, NEW first \in S, NEW last \in S,
         NEW anchor \in InList, LinkBefore(anchor, S, first, last)
  PROVE  Joined(prev[anchor], anchor, first, last)
PROOF
<1>1. /\ InList \subseteq Entries /\ held \subseteq Entries /\ InList \cap held = {}
      /\ NULL \notin Entries
      /\ next \in [Entries -> Ref(Entries)] /\ prev \in [Entries -> Ref(Entries)]
      /\ prev[anchor] # NULL => prev[anchor] \in InList
  BY LiveLemma
<1>2. /\ next' = Put([next EXCEPT ![last] = anchor], prev[anchor], first)
      /\ prev' = [prev EXCEPT ![first] = prev[anchor], ![anchor] = last]
  BY DEF LinkBefore
<1> QED
  BY ONLY <1>1, <1>2, S \in SUBSET held, first \in S, last \in S, anchor \in InList
     DEF Joined, Put

\* What LinkAfter writes, where it tears nothing: if set_last_entry links the
\* end of the chain to the anchor, that is all of the chain.
LEMMA LinkAfterJoins ==
  ASSUME IInv, NEW S \in SUBSET held, NEW first \in S, NEW last \in S,
         NEW anchor \in InList, LinkAfter(anchor, S, first, last), torn' = {}
  PROVE  Joined(anchor, next[anchor], first, last)
PROOF
<1> DEFINE R == Relinks(entrySs[anchor], anchor, last, ssFirst)
<1>1. /\ InList \subseteq Entries /\ held \subseteq Entries /\ InList \cap held = {}
      /\ NULL \notin Entries
      /\ next[anchor] # NULL => next[anchor] \in InList
  BY LiveLemma
<1>2. /\ next' \in [Entries -> Ref(Entries)] /\ prev' \in [Entries -> Ref(Entries)]
      /\ \A e \in Entries :
           /\ next'[e] = IF e = anchor THEN (IF R THEN last ELSE first)
                         ELSE IF e = last THEN next[anchor] ELSE next[e]
           /\ prev'[e] = IF R /\ e = last THEN anchor
                         ELSE IF e = next[anchor] THEN last
                         ELSE IF e = first THEN anchor ELSE prev[e]
      /\ torn' = IF R THEN S \ {last} ELSE {}
  BY LinkAfterWrites
<1> HIDE DEF R
<1>3. R => first = last
  BY ONLY <1>2, torn' = {}, first \in S
<1> QED
  BY ONLY <1>1, <1>2, <1>3, S \in SUBSET held, first \in S, last \in S, anchor \in InList
     DEF Joined

\* Linking splices a held path into the section.
LEMMA LinkBeforePath ==
  ASSUME IInv, HeldPaths, NEW S \in SUBSET held, NEW first \in S, NEW last \in S,
         NEW anchor \in InList, NEW s, IsText(s),
         Chain(S, first, last), LinkBefore(anchor, S, first, last)
  PROVE  \E i, p : Inserts(s, i, p) /\ Range(p) = S
PROOF
<1>1. PICK k \in 1 .. Len(s) : s[k] = anchor /\ prev[anchor] = Place(s, k - 1)
  BY PlaceOf
<1>2. k - 1 \in 0 .. Len(s) /\ anchor = Place(s, (k - 1) + 1)
  BY <1>1 DEF Place
<1>3. Joined(prev[anchor], anchor, first, last)
  BY LinkBeforeJoins
<1>4. held' = held \ S /\ entrySs' = entrySs
  BY DEF LinkBefore, maps
<1> QED
  BY <1>1, <1>2, <1>3, <1>4, JoinedPath

\* So does linking after an entry.
LEMMA LinkAfterPath ==
  ASSUME IInv, HeldPaths, NEW S \in SUBSET held, NEW first \in S, NEW last \in S,
         NEW anchor \in InList, NEW s, IsText(s), torn' = {},
         Chain(S, first, last), LinkAfter(anchor, S, first, last)
  PROVE  \E i, p : Inserts(s, i, p) /\ Range(p) = S
PROOF
<1>1. PICK k \in 1 .. Len(s) : s[k] = anchor /\ next[anchor] = Place(s, k + 1)
  BY PlaceOf
<1>2. k \in 0 .. Len(s) /\ anchor = Place(s, k)
  BY <1>1 DEF Place
<1>3. Joined(anchor, next[anchor], first, last)
  BY LinkAfterJoins
<1>4. held' = held \ S /\ entrySs' = entrySs
  BY DEF LinkAfter, maps
<1> QED
  BY <1>1, <1>2, <1>3, <1>4, JoinedPath

\* What Unlink writes.  With a prev_ that is mended at the new last entry, it is
\* what it would be without set_last_entry.
UnlinkMended(first, last) ==
  [e \in Entries |-> IF e = first THEN NULL
                     ELSE IF e = next[last] THEN prev[first] ELSE prev[e]]

LEMMA UnlinkParts ==
  ASSUME IInv, NEW S \in SUBSET InList, NEW first \in S, NEW last \in S,
         Run(S, first, last), prev[first] # NULL, Unlink(S, first, last)
  PROVE  /\ next'[last] = NULL /\ UnlinkMended(first, last)[first] = NULL
         /\ Parted(UnlinkMended(first, last), prev[first], next[last], first, last)
         /\ \A e \in Entries \ torn' : UnlinkMended(first, last)[e] = prev'[e]
         /\ torn' \subseteq InList \ S
PROOF
<1> DEFINE R == Relinks(entrySs[first], last, prev[first], ssFirst')
           pv2 == UnlinkMended(first, last)
<1>1. /\ InList \subseteq Entries /\ NULL \notin Entries
      /\ prev[first] \in InList
      /\ next[last] # NULL => next[last] \in InList
      /\ prev[first] \notin S /\ next[last] \notin S
  BY LiveLemma DEF Run
<1>2. /\ \A e \in Entries :
           /\ next'[e] = IF e = last THEN NULL
                         ELSE IF e = prev[first] THEN next[last] ELSE next[e]
           /\ prev'[e] = IF e = first THEN NULL
                         ELSE IF R /\ e = prev[first] THEN last
                         ELSE IF e = next[last] THEN prev[first] ELSE prev[e]
      /\ torn' = IF R THEN {prev[first]} ELSE {}
  BY UnlinkWrites
<1> HIDE DEF R
<1>3. \A e \in Entries : pv2[e] = IF e = first THEN NULL
                                 ELSE IF e = next[last] THEN prev[first] ELSE prev[e]
  BY DEF UnlinkMended
<1> HIDE DEF pv2
<1>4. \A e \in Entries \ torn' : pv2[e] = prev'[e]
  BY ONLY <1>2, <1>3
<1>5. torn' \subseteq InList \ S
  BY ONLY <1>1, <1>2
<1>6. next'[last] = NULL /\ pv2[first] = NULL
  BY ONLY <1>1, <1>2, <1>3, S \in SUBSET InList, first \in S, last \in S
<1>7. Parted(pv2, prev[first], next[last], first, last)
  BY ONLY <1>1, <1>2, <1>3, S \in SUBSET InList, first \in S, last \in S DEF Parted
<1> QED
  BY <1>4, <1>5, <1>6, <1>7 DEF pv2

\* What DeleteEntry writes, likewise.
DeleteMended(e) ==
  [h \in Entries |-> IF h = e THEN prev'[e]
                     ELSE IF h = next[e] THEN prev[e] ELSE prev[h]]

LEMMA DeleteParts ==
  ASSUME IInv, NEW e \in InList, next[e] # e, prev[e] # e, DeleteEntry(e)
  PROVE  /\ Parted(DeleteMended(e), prev[e], next[e], e, e)
         /\ \A h \in Entries \ torn' : DeleteMended(e)[h] = prev'[h]
         /\ torn' \subseteq InList \ {e}
PROOF
<1> DEFINE R == Relinks(entrySs[e], e, prev[e], ssFirst')
           pv2 == DeleteMended(e)
<1>1. /\ InList \subseteq Entries /\ NULL \notin Entries
      /\ prev[e] # NULL => prev[e] \in InList
      /\ next[e] # NULL => next[e] \in InList
  BY LiveLemma
<1>2. /\ \A h \in Entries : h # e =>
           /\ next'[h] = IF h = prev[e] THEN next[e] ELSE next[h]
           /\ prev'[h] = IF R /\ h = prev[e] THEN e
                         ELSE IF h = next[e] THEN prev[e] ELSE prev[h]
      /\ torn' = IF R THEN {prev[e]} ELSE {}
      /\ R => prev[e] # NULL
  BY DeleteWrites
<1> HIDE DEF R
<1>3. \A h \in Entries : pv2[h] = IF h = e THEN prev'[e]
                                 ELSE IF h = next[e] THEN prev[e] ELSE prev[h]
  BY DEF DeleteMended
<1> HIDE DEF pv2
<1>4. \A h \in Entries \ torn' : pv2[h] = prev'[h]
  BY ONLY <1>2, <1>3
<1>5. torn' \subseteq InList \ {e}
  BY ONLY <1>1, <1>2, prev[e] # e
<1>6. Parted(pv2, prev[e], next[e], e, e)
  BY ONLY <1>1, <1>2, <1>3, next[e] # e, prev[e] # e, e \in InList DEF Parted
<1> QED
  BY <1>4, <1>5, <1>6 DEF pv2

\* Parting a piece from the section leaves a path.
LEMMA PartedPath ==
  ASSUME IInv, NEW pv2, NEW s, IsText(s), NEW i \in 1 .. Len(s), NEW j \in i .. Len(s),
         Parted(pv2, prev[s[i]], next[s[j]], s[i], s[j])
  PROVE  /\ IsPath(next', pv2, Cut(s, i, j))
         /\ \A e \in held : next'[e] = next[e] /\ pv2[e] = prev[e]
PROOF
<1>1. /\ IsPath(next, prev, s) /\ s \in Seq(Entries) /\ Range(s) = InList
      /\ Len(s) \in Nat /\ i \in Nat /\ j \in 1 .. Len(s)
  BY DEF IsText, IsPath
<1>2. s[i] \in InList /\ s[j] \in InList
  BY <1>1, RangeLemma
<1>3. prev[s[i]] = Place(s, i - 1) /\ next[s[j]] = Place(s, j + 1)
  BY <1>1, PathPlaces
<1>4. s[i] \in Piece(s, i, j) /\ s[j] \in Piece(s, i, j)
  BY <1>1 DEF Piece
<1>5. /\ InList \subseteq Entries /\ NULL \notin Entries /\ InList \cap held = {}
      /\ held \subseteq Entries
      /\ prev[s[i]] \in InList \cup {NULL} /\ next[s[j]] \in InList \cup {NULL}
  BY <1>2, LiveLemma
<1>6. IsPath(next', pv2, Cut(s, i, j))
  <2>1. i > 1 => s[i - 1] = Place(s, i - 1) /\ s[i - 1] # NULL
    <3>1. i > 1 => i - 1 \in 1 .. Len(s)
      BY <1>1
    <3>2. i > 1 => s[i - 1] # NULL
      BY <3>1, <1>1, PathLinks, SMTT(60)
    <3> QED
      BY <3>1, <3>2 DEF Place
  <2>2. j < Len(s) => s[j + 1] = Place(s, j + 1) /\ s[j + 1] # NULL
    <3>1. j < Len(s) => j + 1 \in 1 .. Len(s)
      BY <1>1
    <3>2. j < Len(s) => s[j + 1] # NULL
      BY <3>1, <1>1, PathLinks
    <3> QED
      BY <3>1, <3>2 DEF Place
  <2>3. i > 1 => next'[s[i - 1]] = Place(s, j + 1)
    BY <2>1, <1>3 DEF Parted
  <2>4. j < Len(s) => pv2[s[j + 1]] = Place(s, i - 1)
    BY <2>2, <1>3 DEF Parted
  <2>5. \A e \in Range(s) \ Piece(s, i, j) : e # Place(s, i - 1) => next'[e] = next[e]
    BY <1>1, <1>3, <1>4, <1>5 DEF Parted
  <2>6. \A e \in Range(s) \ Piece(s, i, j) : e # Place(s, j + 1) => pv2[e] = prev[e]
    BY <1>1, <1>3, <1>4, <1>5 DEF Parted
  <2> QED
    BY ONLY <1>1, <2>3, <2>4, <2>5, <2>6, CutPath, i \in 1 .. Len(s), j \in i .. Len(s)
<1>7. \A e \in held : next'[e] = next[e] /\ pv2[e] = prev[e]
  <2>1. \A e \in held : /\ e \in Entries /\ e # s[i] /\ e # s[j]
                        /\ e # prev[s[i]] /\ e # next[s[j]]
    BY ONLY <1>2, <1>5
  <2> QED
    BY ONLY <2>1, Parted(pv2, prev[s[i]], next[s[j]], s[i], s[j]) DEF Parted
<1> QED
  BY <1>6, <1>7

\* Unlinking takes a piece of the section out, and keeps it in one piece.
LEMMA UnlinkPath ==
  ASSUME IInv, NEW S \in SUBSET InList, NEW first \in S, NEW last \in S,
         NEW s, IsText(s), Run(S, first, last), prev[first] # NULL,
         Unlink(S, first, last), NEW pv2, pv2[first] = NULL,
         Parted(pv2, prev[first], next[last], first, last)
  PROVE  \E i, j : /\ Takes(pv2, s, i, j) /\ Piece(s, i, j) = S
                   /\ s[i] = first /\ s[j] = last
PROOF
<1>1. IsRun(next, prev, S, first, last)
  BY DEF Run, IsRun
<1>2. PICK i \in 1 .. Len(s) : \E j \in i .. Len(s) :
        s[i] = first /\ s[j] = last /\ S = Piece(s, i, j)
  BY <1>1, SectionRun
<1>3. PICK j \in i .. Len(s) : s[i] = first /\ s[j] = last /\ S = Piece(s, i, j)
  BY <1>2
<1>4. next'[last] = NULL
  <2>1. /\ next'[last] = NULL /\ UnlinkMended(first, last)[first] = NULL
        /\ Parted(UnlinkMended(first, last), prev[first], next[last], first, last)
        /\ \A e \in Entries \ torn' : UnlinkMended(first, last)[e] = prev'[e]
        /\ torn' \subseteq InList \ S
    BY UnlinkParts
  <2> QED
    BY ONLY <2>1
<1>5. /\ IsPath(next', pv2, Cut(s, i, j))
      /\ \A e \in held : next'[e] = next[e] /\ pv2[e] = prev[e]
  BY <1>3, PartedPath
<1>6. IsPath(next', pv2, SubSeq(s, i, j))
  <2>1. /\ prev[first] \notin S /\ next[last] \notin S /\ S \subseteq Entries
    BY LiveLemma DEF Run
  <2>2. \A e \in S : e # last => next'[e] = next[e]
    BY ONLY <2>1, Parted(pv2, prev[first], next[last], first, last) DEF Parted
  <2>3. \A e \in S : e # first => pv2[e] = prev[e]
    BY ONLY <2>1, Parted(pv2, prev[first], next[last], first, last) DEF Parted
  <2>4. IsPath(next, prev, s)
    BY DEF IsText
  <2> QED
    BY ONLY <1>3, <1>4, <2>2, <2>3, <2>4, TakenPath, i \in 1 .. Len(s), j \in i .. Len(s),
            pv2[first] = NULL
<1>7. held' = held \cup S /\ entrySs' = entrySs
  BY DEF Unlink, maps
<1>8. InList' = InList \ S
  BY ONLY <1>7 DEF InList
<1>9. Takes(pv2, s, i, j)
  BY ONLY <1>3, <1>5, <1>6, <1>7, <1>8, IsText(s), i \in 1 .. Len(s), j \in i .. Len(s)
     DEF Takes
<1> QED
  BY ONLY <1>3, <1>9

\* Deleting drops one entry of the section.
LEMMA DeletePath ==
  ASSUME IInv, NEW e \in InList, NEW s, IsText(s), DeleteEntry(e),
         NEW pv2, Parted(pv2, prev[e], next[e], e, e)
  PROVE  \E i : Drops(pv2, s, i) /\ s[i] = e
PROOF
<1>1. PICK i \in 1 .. Len(s) : s[i] = e
  BY PlaceOf
<1>2. i \in i .. Len(s)
  BY <1>1 DEF IsText, IsPath
<1>3. /\ IsPath(next', pv2, Cut(s, i, i))
      /\ \A h \in held : next'[h] = next[h] /\ pv2[h] = prev[h]
  BY <1>1, <1>2, PartedPath
<1>4. held' = held /\ entrySs' = [entrySs EXCEPT ![e] = NULL]
  BY DEF DeleteEntry
<1>5. InList' = InList \ {e}
  <2>1. entrySs \in [Entries -> Ref(SubSections)]
    BY DEF IInv, TypeOK
  <2> QED
    BY ONLY <1>4, <2>1 DEF InList
<1>6. Drops(pv2, s, i)
  BY ONLY <1>1, <1>3, <1>4, <1>5, IsText(s) DEF Drops
<1> QED
  BY ONLY <1>1, <1>6

-----------------------------------------------------------------------------
(* What the actions do to the runs of the owners.                          *)

\* Mine, after the step, for the owners of before it.
MineNext(owner, o) == {e \in InList' : owner[e] = o}

\* The new bounds F2 and L2 of the owners O, where the anchor's owner gets the
\* chain from first to last in between before and after.
Widens(owner, O, anchor, before, after, first, last, F, L, F2, L2) ==
  /\ \A o \in O : o # owner[anchor] => F2[o] = F[o] /\ L2[o] = L[o]
  /\ \A o \in O : o = owner[anchor] =>
       /\ F2[o] = IF before \in Mine(owner, o) THEN F[o] ELSE first
       /\ L2[o] = IF after \in Mine(owner, o) THEN L[o] ELSE last

\* Linking a chain beside an entry of its owner keeps every owner in one run.
LEMMA JoinSpans ==
  ASSUME IInv, NEW S \in SUBSET held, NEW first \in S, NEW last \in S,
         Chain(S, first, last), NEW before, NEW after,
         Beside(next, prev, before, after), Joined(before, after, first, last),
         InList' = InList \cup S,
         NEW anchor \in InList, anchor = before \/ anchor = after,
         {before, after} \subseteq InList \cup {NULL},
         NEW owner, \A e \in S : owner[e] = owner[anchor],
         NEW O, NEW F, NEW L, Spans(owner, O, F, L), NEW F2, NEW L2,
         Widens(owner, O, anchor, before, after, first, last, F, L, F2, L2)
  PROVE  \A o \in O : MineNext(owner, o) # {} =>
           IsRun(next', prev', MineNext(owner, o), F2[o], L2[o])
PROOF
<1>1. /\ InList \subseteq Entries /\ held \subseteq Entries /\ InList \cap held = {}
      /\ NULL \notin Entries
      /\ \A e \in InList : {next[e], prev[e]} \subseteq InList \cup {NULL}
  BY LiveLemma
<1>2. Inside(next, prev, S, first, last)
  BY DEF Chain, Run, Inside
<1>3. Between(next', prev', before, after, first, last)
  BY DEF Joined, Between
<1>4. /\ \A e \in InList \cup S : e # last /\ e # before => next'[e] = next[e]
      /\ \A e \in InList \cup S : e # first /\ e # after => prev'[e] = prev[e]
  BY <1>1 DEF Joined
<1>5. before \notin S /\ after \notin S /\ NULL \notin InList \cup S
  BY <1>1
<1> SUFFICES ASSUME NEW o \in O, MineNext(owner, o) # {}
             PROVE  IsRun(next', prev', MineNext(owner, o), F2[o], L2[o])
  OBVIOUS
<1> DEFINE M == Mine(owner, o)
<1>6. M \subseteq InList
  BY DEF Mine
<1>7. /\ NULL \notin M /\ S \cap M = {}
      /\ \A e \in M : next[e] \notin S /\ prev[e] \notin S
      /\ \A e \in M \cup S : e # last /\ e # before => next'[e] = next[e]
      /\ \A e \in M \cup S : e # first /\ e # after => prev'[e] = prev[e]
  BY <1>1, <1>4, <1>5, <1>6
<1>8. CASE o = owner[anchor]
  <2>1. anchor \in M /\ MineNext(owner, o) = M \cup S
    BY <1>8 DEF Mine, MineNext
  <2>2. IsRun(next, prev, M, F[o], L[o])
    BY <2>1 DEF Spans
  <2>3. before \in M \/ after \in M
    BY <2>1
  <2>4. /\ F2[o] = IF before \in M THEN F[o] ELSE first
        /\ L2[o] = IF after \in M THEN L[o] ELSE last
    BY <1>8 DEF Widens
  <2>5. IsRun(next', prev', M \cup S, F2[o], L2[o])
    <3>1. Splices(next, prev, next', prev', M, S, first, last, before, after)
      BY <1>2, <1>3, <1>5, <1>7, <2>3 DEF Splices
    <3> QED
      BY ONLY <3>1, <2>2, <2>4, InsertOwn
  <2> QED
    BY <1>8, <2>1, <2>5
<1>9. CASE o # owner[anchor]
  <2>1. anchor \notin M /\ MineNext(owner, o) = M
    BY <1>9 DEF Mine, MineNext
  <2>2. IsRun(next, prev, M, F[o], L[o])
    BY <2>1 DEF Spans
  <2>3. ~ (before \in M /\ after \in M) /\ first \notin M /\ last \notin M
    BY <2>1, <1>7
  <2>4. IsRun(next', prev', M, F[o], L[o])
    BY ONLY <1>3, <1>7, <2>2, <2>3, Beside(next, prev, before, after), InsertOther
  <2> QED
    BY <1>9, <2>1, <2>4 DEF Widens
<1> QED
  BY <1>8, <1>9

\* A piece that misses M does not have M on both its sides.
LEMMA ApartLemma ==
  ASSUME IInv, NEW s, IsText(s), NEW S \in SUBSET InList, NEW first, NEW last,
         IsRun(next, prev, S, first, last), NEW M \in SUBSET InList, NEW f, NEW l,
         IsRun(next, prev, M, f, l), M \cap S = {}
  PROVE  ~ (prev[first] \in M /\ next[last] \in M)
PROOF
<1>1. /\ IsPath(next, prev, s) /\ Len(s) \in Nat /\ NULL \notin M
  BY LiveLemma DEF IsText, IsPath
<1>2. PICK i \in 1 .. Len(s) : \E j \in i .. Len(s) :
        s[i] = first /\ s[j] = last /\ S = Piece(s, i, j)
  BY SectionRun
<1>3. PICK j \in i .. Len(s) : s[i] = first /\ s[j] = last /\ S = Piece(s, i, j)
  BY <1>2
<1>4. PICK a \in 1 .. Len(s) : \E b \in a .. Len(s) :
        s[a] = f /\ s[b] = l /\ M = Piece(s, a, b)
  BY SectionRun
<1>5. PICK b \in a .. Len(s) : s[a] = f /\ s[b] = l /\ M = Piece(s, a, b)
  BY <1>4
<1> SUFFICES ASSUME prev[first] \in M, next[last] \in M PROVE FALSE
  OBVIOUS
<1>6. i > 1 /\ prev[first] = s[i - 1]
  BY <1>1, <1>3, PathLinks
<1>7. j < Len(s) /\ next[last] = s[j + 1]
  BY <1>1, <1>3, PathLinks
<1>8. PICK k \in a .. b : s[k] = s[i - 1]
  BY <1>5, <1>6 DEF Piece
<1>9. k = i - 1
  BY <1>1, <1>5, <1>6, <1>8, PathOnce
<1>10. PICK m \in a .. b : s[m] = s[j + 1]
  BY <1>5, <1>7 DEF Piece
<1>11. m = j + 1
  BY <1>1, <1>3, <1>5, <1>7, <1>10, PathOnce
<1>12. i \in a .. b
  BY <1>3, <1>9, <1>11
<1>13. first \in M /\ first \in S
  BY <1>3, <1>5, <1>12 DEF Piece, IsRun
<1> QED
  BY <1>13

\* A piece that starts and ends in M is in M.
LEMMA WithinLemma ==
  ASSUME IInv, NEW s, IsText(s), NEW S \in SUBSET InList, NEW first, NEW last,
         IsRun(next, prev, S, first, last), NEW M \in SUBSET InList, NEW f, NEW l,
         IsRun(next, prev, M, f, l), first \in M, last \in M
  PROVE  S \subseteq M
PROOF
<1>1. /\ IsPath(next, prev, s) /\ Len(s) \in Nat /\ NULL \notin M
  BY LiveLemma DEF IsText, IsPath
<1>2. PICK i \in 1 .. Len(s) : \E j \in i .. Len(s) :
        s[i] = first /\ s[j] = last /\ S = Piece(s, i, j)
  BY SectionRun
<1>3. PICK j \in i .. Len(s) : s[i] = first /\ s[j] = last /\ S = Piece(s, i, j)
  BY <1>2
<1>4. PICK a \in 1 .. Len(s) : \E b \in a .. Len(s) :
        s[a] = f /\ s[b] = l /\ M = Piece(s, a, b)
  BY SectionRun
<1>5. PICK b \in a .. Len(s) : s[a] = f /\ s[b] = l /\ M = Piece(s, a, b)
  BY <1>4
<1>6. i \in 1 .. Len(s) /\ j \in 1 .. Len(s) /\ \A k \in a .. b : k \in 1 .. Len(s)
  BY <1>1, <1>3, <1>5
<1>8. PICK k \in a .. b : s[k] = s[i]
  BY <1>3, <1>5 DEF Piece
<1>9. k = i
  BY <1>1, <1>6, <1>8, PathOnce
<1>10. PICK m \in a .. b : s[m] = s[j]
  BY <1>3, <1>5 DEF Piece
<1>11. m = j
  BY <1>1, <1>6, <1>10, PathOnce
<1>12. \A n \in i .. j : n \in a .. b
  BY <1>3, <1>9, <1>11
<1> QED
  BY <1>3, <1>5, <1>12 DEF Piece

\* The new bounds F2 and L2 of the owners O, where S, in between before and
\* after, leaves its owner.
Narrows(owner, O, S, first, last, before, after, F, L, F2, L2) ==
  \A o \in O :
    \/ /\ S \subseteq Mine(owner, o)
       /\ F2[o] = IF F[o] = first THEN after ELSE F[o]
       /\ L2[o] = IF L[o] = last THEN before ELSE L[o]
    \/ /\ S \cap Mine(owner, o) = {}
       /\ F2[o] = F[o] /\ L2[o] = L[o]

\* Parting a run from its owner keeps every owner in one run.
LEMMA PartSpans ==
  ASSUME IInv, NEW s, IsText(s), NEW S \in SUBSET InList, NEW first, NEW last,
         IsRun(next, prev, S, first, last),
         Parted(prev', prev[first], next[last], first, last),
         NEW owner, NEW O, NEW F, NEW L, Spans(owner, O, F, L), NEW F2, NEW L2,
         Narrows(owner, O, S, first, last, prev[first], next[last], F, L, F2, L2)
  PROVE  \A o \in O : Mine(owner, o) \ S # {} =>
           IsRun(next', prev', Mine(owner, o) \ S, F2[o], L2[o])
PROOF
<1>1. /\ InList \subseteq Entries /\ NULL \notin InList
      /\ \A e \in InList : next[e] # NULL => prev[next[e]] = e
      /\ \A e \in InList : prev[e] # NULL => next[prev[e]] = e
  BY LiveLemma
<1>2. first \in S /\ last \in S /\ prev[first] \notin S /\ next[last] \notin S
  BY DEF IsRun
<1>3. Between(next, prev, prev[first], next[last], first, last)
  BY <1>1, <1>2 DEF Between
<1>4. Beside(next', prev', prev[first], next[last])
  BY DEF Parted, Beside
<1>5. /\ \A e \in InList \ S : e # prev[first] => next'[e] = next[e]
      /\ \A e \in InList \ S : e # next[last] => prev'[e] = prev[e]
  BY <1>1, <1>2 DEF Parted
<1> SUFFICES ASSUME NEW o \in O, Mine(owner, o) \ S # {}
             PROVE  IsRun(next', prev', Mine(owner, o) \ S, F2[o], L2[o])
  OBVIOUS
<1> DEFINE M == Mine(owner, o)
<1>6. M \subseteq InList /\ IsRun(next, prev, M, F[o], L[o])
  BY DEF Mine, Spans
<1>7. NULL \notin M
  BY <1>1, <1>6
<1>8. CASE S \subseteq M
           /\ F2[o] = (IF F[o] = first THEN next[last] ELSE F[o])
           /\ L2[o] = (IF L[o] = last THEN prev[first] ELSE L[o])
  <2>1. /\ \A e \in M \ S : next[e] \in M => prev[next[e]] = e
        /\ \A e \in M \ S : prev[e] \in M => next[prev[e]] = e
        /\ \A e \in M \ S : e # prev[first] => next'[e] = next[e]
        /\ \A e \in M \ S : e # next[last] => prev'[e] = prev[e]
    BY <1>1, <1>5, <1>6, <1>7
  <2>3. F[o] # first \/ L[o] # last
    <3> SUFFICES ASSUME F[o] = first, L[o] = last PROVE M \subseteq S
      OBVIOUS
    <3>1. first \in S /\ last \in S
      BY <1>2
    <3> QED
      BY <3>1, <1>6, WithinLemma
  <2>2. IsRun(next', prev', M \ S, F2[o], L2[o])
    <3>1. Parts(next, prev, next', prev', M, S, first, last, prev[first], next[last])
      BY <1>3, <1>4, <1>7, <1>8, <2>1 DEF Parts
    <3> QED
      BY ONLY <3>1, <2>3, <1>6, <1>8, RemoveOwn
  <2> QED
    BY <1>8, <2>2
<1>9. CASE S \cap M = {} /\ F2[o] = F[o] /\ L2[o] = L[o]
  <2>1. ~ (prev[first] \in M /\ next[last] \in M)
    BY <1>6, <1>9, ApartLemma
  <2>2. /\ \A e \in M : e # prev[first] => next'[e] = next[e]
        /\ \A e \in M : e # next[last] => prev'[e] = prev[e]
        /\ first \notin M /\ last \notin M /\ M \ S = M
    BY <1>2, <1>5, <1>6, <1>9
  <2>3. IsRun(next', prev', M, F[o], L[o])
    BY ONLY <1>3, <1>4, <1>6, <1>7, <2>1, <2>2, RemoveOther
  <2> QED
    BY <1>9, <2>2, <2>3
<1> QED
  BY <1>8, <1>9 DEF Narrows

-----------------------------------------------------------------------------
(* The paths after a step.                                                 *)

\* Paths of one state that share an entry are one path.
LEMMA MeetLemma ==
  ASSUME NEW nxt, NEW prv, NEW s, IsPath(nxt, prv, s), NEW t, IsPath(nxt, prv, t),
         NEW e, e \in Range(s), e \in Range(t)
  PROVE  s = t
PROOF
<1>1. s \in Seq(Entries) /\ t \in Seq(Entries)
  BY DEF IsPath
<1>2. PICK i \in 1 .. Len(s) : s[i] = e
  BY <1>1, RangeLemma
<1>3. PICK j \in 1 .. Len(t) : t[j] = e
  BY <1>1, RangeLemma
<1>4. s[i] = t[j]
  BY <1>2, <1>3
<1> QED
  BY ONLY <1>4, IsPath(nxt, prv, s), IsPath(nxt, prv, t), PathInjective,
          i \in 1 .. Len(s), j \in 1 .. Len(t)

\* A path that is not empty has an entry.
LEMMA SomeEntry ==
  ASSUME NEW nxt, NEW prv, NEW s, IsPath(nxt, prv, s), s # <<>>
  PROVE  s[1] \in Range(s) /\ s[1] \in Entries
PROOF
<1>1. s \in Seq(Entries) /\ 1 \in 1 .. Len(s)
  BY DEF IsPath
<1> QED
  BY <1>1, RangeLemma

\* Where the links of T stay, so do the paths in T.
LEMMA SamePaths ==
  ASSUME NEW nxt, NEW prv, NEW nx2, NEW pv2, NEW T,
         \A e \in T : nx2[e] = nxt[e] /\ pv2[e] = prv[e],
         NEW q, Range(q) \subseteq T
  PROVE  IsPath(nx2, pv2, q) <=> IsPath(nxt, prv, q)
PROOF
<1>1. /\ \A e \in Range(q) : nx2[e] = nxt[e] /\ pv2[e] = prv[e]
      /\ \A e \in Range(q) : nxt[e] = nx2[e] /\ prv[e] = pv2[e]
  OBVIOUS
<1>2. IsPath(nxt, prv, q) => IsPath(nx2, pv2, q)
  BY <1>1, LocalLemma
<1>3. IsPath(nx2, pv2, q) => IsPath(nxt, prv, q)
  BY <1>1, LocalLemma
<1> QED
  BY <1>2, <1>3

\* Where a held path is given away and the links of the others stay, those are
\* the held paths.
LEMMA HeldLess ==
  ASSUME HeldPaths, NEW p, IsHeldPath(p), held' = held \ Range(p),
         \A e \in held' : next'[e] = next[e] /\ prev'[e] = prev[e]
  PROVE  /\ \A q : IsHeldPath(q)' <=> IsHeldPath(q) /\ q # p
         /\ HeldPaths'
PROOF
<1>1. /\ held' = held \ Range(p)
      /\ \A e \in held' : next'[e] = next[e] /\ prev'[e] = prev[e]
  OBVIOUS
<1>2. IsPath(next, prev, p) /\ p \in Seq(Entries) /\ p # <<>> /\ Range(p) \subseteq held
  BY DEF IsHeldPath, IsPath
<1>3. \A q : IsHeldPath(q)' <=> IsHeldPath(q) /\ q # p
  <2> TAKE q
  <2>1. ASSUME IsHeldPath(q)' PROVE IsHeldPath(q) /\ q # p
    <3>1. IsPath(next', prev', q) /\ q # <<>> /\ Range(q) \subseteq held'
      BY <2>1 DEF IsHeldPath
    <3>2. IsPath(next, prev, q)
      BY <3>1, <1>1, SamePaths
    <3>3. q # p
      BY <3>1, <1>1, <1>2, SomeEntry
    <3> QED
      BY <3>1, <3>2, <3>3, <1>1 DEF IsHeldPath
  <2>2. ASSUME IsHeldPath(q), q # p PROVE IsHeldPath(q)'
    <3>1. IsPath(next, prev, q) /\ q # <<>> /\ Range(q) \subseteq held
      BY <2>2 DEF IsHeldPath
    <3>2. Range(q) \cap Range(p) = {}
      BY <3>1, <2>2, <1>2, MeetLemma
    <3>3. Range(q) \subseteq held'
      BY <3>1, <3>2, <1>1
    <3>4. IsPath(next', prev', q)
      BY <3>1, <3>3, <1>1, SamePaths
    <3> QED
      BY <3>1, <3>3, <3>4 DEF IsHeldPath
  <2> QED
    BY <2>1, <2>2
<1>4. HeldPaths'
  <2> SUFFICES ASSUME NEW h \in held' PROVE \E q : IsHeldPath(q)' /\ h \in Range(q)
    BY DEF HeldPaths
  <2>1. h \in held /\ h \notin Range(p)
    BY <1>1
  <2>2. PICK q : IsHeldPath(q) /\ h \in Range(q)
    BY <2>1 DEF HeldPaths
  <2> QED
    BY <2>1, <2>2, <1>3
<1> QED
  BY <1>3, <1>4

\* After a splice: the section is the longer path, and one held path is gone.
LEMMA InsertsLemma ==
  ASSUME IInv, HeldPaths, NEW s, NEW i, NEW p, Inserts(s, i, p)
  PROVE  /\ IsText(Spliced(s, i, p))'
         /\ \A q : IsHeldPath(q)' <=> IsHeldPath(q) /\ q # p
         /\ HeldPaths'
PROOF
<1>1. /\ IsText(s) /\ IsHeldPath(p) /\ i \in 0 .. Len(s)
      /\ IsPath(next', prev', Spliced(s, i, p))
      /\ InList' = InList \cup Range(p)
      /\ held' = held \ Range(p)
      /\ \A e \in held' : next'[e] = next[e] /\ prev'[e] = prev[e]
  BY DEF Inserts
<1>2. IsPath(next, prev, s) /\ s \in Seq(Entries) /\ Range(s) = InList
  BY <1>1 DEF IsText, IsPath
<1>3. IsPath(next, prev, p) /\ p \in Seq(Entries) /\ p # <<>> /\ Range(p) \subseteq held
  BY <1>1 DEF IsHeldPath, IsPath
<1>4. IsText(Spliced(s, i, p))'
  <2>1. Range(Spliced(s, i, p)) = Range(s) \cup Range(p)
    BY <1>1, <1>2, <1>3, SplicedRange
  <2> QED
    BY <2>1, <1>1, <1>2 DEF IsText
<1>5. /\ \A q : IsHeldPath(q)' <=> IsHeldPath(q) /\ q # p
      /\ HeldPaths'
  BY <1>1, HeldLess
<1> QED
  BY <1>4, <1>5

\* After an unlinking: the section is the shorter path, and one held path is new.
LEMMA TakesLemma ==
  ASSUME IInv, HeldPaths, NEW pv2, NEW s, NEW i, NEW j, Takes(pv2, s, i, j)
  PROVE  /\ NewText(pv2, Cut(s, i, j))
         /\ \A q : NewHeldPath(pv2, q) <=> IsHeldPath(q) \/ q = SubSeq(s, i, j)
         /\ NewHeldPaths(pv2)
PROOF
<1> DEFINE t == SubSeq(s, i, j)
<1>1. /\ IsText(s) /\ i \in 1 .. Len(s) /\ j \in i .. Len(s)
      /\ IsPath(next', pv2, Cut(s, i, j))
      /\ IsPath(next', pv2, t)
      /\ InList' = InList \ Piece(s, i, j)
      /\ held' = held \cup Piece(s, i, j)
      /\ \A e \in held : next'[e] = next[e] /\ pv2[e] = prev[e]
  BY DEF Takes
<1>2. IsPath(next, prev, s) /\ s \in Seq(Entries) /\ Range(s) = InList
  BY <1>1 DEF IsText, IsPath
<1>3. /\ Range(Cut(s, i, j)) = Range(s) \ Piece(s, i, j)
      /\ Range(t) = Piece(s, i, j)
  BY <1>1, <1>2, CutRange
<1>4. NewText(pv2, Cut(s, i, j))
  BY <1>1, <1>2, <1>3 DEF NewText
<1>5. t # <<>>
  <2>1. Len(t) = j - i + 1 /\ j - i + 1 # 0
    BY <1>1, <1>2, TakenLemma
  <2> QED
    BY <2>1
<1> HIDE DEF t
<1>6. NewHeldPath(pv2, t)
  BY <1>1, <1>3, <1>5 DEF IsHeldPath, NewHeldPath
<1>7. \A q : NewHeldPath(pv2, q) <=> IsHeldPath(q) \/ q = t
  <2> TAKE q
  <2>1. ASSUME NewHeldPath(pv2, q), q # t PROVE IsHeldPath(q)
    <3>1. IsPath(next', pv2, q) /\ q # <<>> /\ Range(q) \subseteq held'
      BY <2>1 DEF IsHeldPath, NewHeldPath
    <3>2. Range(q) \cap Range(t) = {}
      BY <3>1, <2>1, <1>1, MeetLemma
    <3>3. Range(q) \subseteq held
      BY <3>1, <3>2, <1>1, <1>3
    <3>4. IsPath(next, prev, q)
      BY <3>1, <3>3, <1>1, SamePaths
    <3> QED
      BY <3>1, <3>3, <3>4 DEF IsHeldPath, NewHeldPath
  <2>2. ASSUME IsHeldPath(q) PROVE NewHeldPath(pv2, q)
    <3>1. IsPath(next, prev, q) /\ q # <<>> /\ Range(q) \subseteq held
      BY <2>2 DEF IsHeldPath, NewHeldPath
    <3>2. IsPath(next', pv2, q)
      BY <3>1, <1>1, SamePaths
    <3> QED
      BY <3>1, <3>2, <1>1 DEF IsHeldPath, NewHeldPath
  <2> QED
    BY <2>1, <2>2, <1>6
<1>8. NewHeldPaths(pv2)
  <2> SUFFICES ASSUME NEW h \in held' PROVE \E q : NewHeldPath(pv2, q) /\ h \in Range(q)
    BY DEF HeldPaths, NewHeldPaths
  <2>1. CASE h \in Range(t)
    BY <2>1, <1>6
  <2>2. CASE h \notin Range(t)
    <3>1. h \in held
      BY <2>2, <1>1, <1>3
    <3> QED
      BY <3>1, <1>7 DEF HeldPaths, NewHeldPaths
  <2> QED
    BY <2>1, <2>2
<1> QED
  BY <1>4, <1>7, <1>8 DEF t

\* After a deletion: the section is shorter by one, the held paths are the same.
LEMMA DropsLemma ==
  ASSUME IInv, HeldPaths, NEW pv2, NEW s, NEW i, Drops(pv2, s, i)
  PROVE  /\ NewText(pv2, Cut(s, i, i))
         /\ \A q : NewHeldPath(pv2, q) <=> IsHeldPath(q)
         /\ NewHeldPaths(pv2)
PROOF
<1>1. /\ IsText(s) /\ i \in 1 .. Len(s)
      /\ IsPath(next', pv2, Cut(s, i, i))
      /\ InList' = InList \ {s[i]}
      /\ held' = held
      /\ \A e \in held : next'[e] = next[e] /\ pv2[e] = prev[e]
  BY DEF Drops
<1>2. /\ IsPath(next, prev, s) /\ s \in Seq(Entries) /\ Range(s) = InList
      /\ i \in i .. Len(s) /\ i .. i = {i}
  BY <1>1 DEF IsText, IsPath
<1>3. Range(Cut(s, i, i)) = Range(s) \ Piece(s, i, i)
  BY <1>1, <1>2, CutRange
<1>4. Piece(s, i, i) = {s[i]}
  BY <1>2 DEF Piece
<1>5. NewText(pv2, Cut(s, i, i))
  BY <1>1, <1>2, <1>3, <1>4 DEF NewText
<1>6. \A q : NewHeldPath(pv2, q) <=> IsHeldPath(q)
  <2> TAKE q
  <2>1. Range(q) \subseteq held => (IsPath(next', pv2, q) <=> IsPath(next, prev, q))
    BY <1>1, SamePaths
  <2> QED
    BY <2>1, <1>1 DEF IsHeldPath, NewHeldPath
<1>7. NewHeldPaths(pv2)
  BY <1>1, <1>6 DEF HeldPaths, NewHeldPaths
<1> QED
  BY <1>5, <1>6, <1>7

\* A new entry is a held path of its own.
LEMMA CreatePath ==
  ASSUME IInv, HeldPaths, NEW s, IsText(s), NEW e \in Entries, NEW f \in Functions,
         Create(e, f)
  PROVE  /\ IsText(s)'
         /\ \A q : IsHeldPath(q)' <=> IsHeldPath(q) \/ q = <<e>>
         /\ HeldPaths'
         /\ InList' = InList /\ e \notin InList \cup held
PROOF
<1>1. /\ next \in [Entries -> Ref(Entries)] /\ prev \in [Entries -> Ref(Entries)]
      /\ entrySs \in [Entries -> Ref(SubSections)]
      /\ held \subseteq Entries /\ InList \subseteq Entries
  BY DEF IInv, TypeOK, InList
<1>2. /\ next' = [next EXCEPT ![e] = NULL] /\ prev' = [prev EXCEPT ![e] = NULL]
      /\ entrySs' = [entrySs EXCEPT ![e] = FunctionSS[f]]
      /\ held' = held \cup {e} /\ e \notin allocated
  BY DEF Create
<1>3. entrySs[e] = NULL /\ e \notin held
  BY <1>2 DEF IInv, TypeOK, LiveInv
<1>4. e \notin InList
  BY <1>3 DEF InList
<1>5. InList' = InList
  BY ONLY <1>1, <1>2, <1>3, <1>4 DEF InList
<1>6. /\ \A h \in InList \cup held : next'[h] = next[h] /\ prev'[h] = prev[h]
      /\ next'[e] = NULL /\ prev'[e] = NULL
  BY ONLY <1>1, <1>2, <1>3, <1>4
<1>7. IsText(s)'
  <2>1. IsPath(next, prev, s) /\ Range(s) = InList
    BY DEF IsText
  <2>2. IsPath(next', prev', s)
    BY <2>1, <1>6, SamePaths
  <2> QED
    BY <2>1, <2>2, <1>5 DEF IsText
<1>8. IsHeldPath(<<e>>)' /\ Range(<<e>>) = {e}
  <2>1. <<e>> \in Seq(Entries) /\ Len(<<e>>) = 1 /\ <<e>>[1] = e /\ <<e>> # <<>>
    OBVIOUS
  <2>2. IsPath(next', prev', <<e>>)
    BY <2>1, <1>6 DEF IsPath
  <2>3. Range(<<e>>) = {e}
    BY <2>1 DEF Range
  <2> QED
    BY <2>1, <2>2, <2>3, <1>2 DEF IsHeldPath
<1>9. \A q : IsHeldPath(q)' <=> IsHeldPath(q) \/ q = <<e>>
  <2> TAKE q
  <2>1. ASSUME IsHeldPath(q)', q # <<e>> PROVE IsHeldPath(q)
    <3>1. IsPath(next', prev', q) /\ q # <<>> /\ Range(q) \subseteq held'
      BY <2>1 DEF IsHeldPath
    <3>2. IsPath(next', prev', <<e>>)
      BY <1>8 DEF IsHeldPath
    <3>3. e \notin Range(q)
      BY <3>1, <3>2, <2>1, <1>8, MeetLemma
    <3>4. Range(q) \subseteq held
      BY <3>1, <3>3, <1>2
    <3>5. IsPath(next, prev, q)
      BY <3>1, <3>4, <1>6, SamePaths
    <3> QED
      BY <3>1, <3>4, <3>5 DEF IsHeldPath
  <2>2. ASSUME IsHeldPath(q) PROVE IsHeldPath(q)'
    <3>1. IsPath(next, prev, q) /\ q # <<>> /\ Range(q) \subseteq held
      BY <2>2 DEF IsHeldPath
    <3>2. IsPath(next', prev', q)
      BY <3>1, <1>6, SamePaths
    <3> QED
      BY <3>1, <3>2, <1>2 DEF IsHeldPath
  <2> QED
    BY <2>1, <2>2, <1>8
<1>10. HeldPaths'
  <2> SUFFICES ASSUME NEW h \in held' PROVE \E q : IsHeldPath(q)' /\ h \in Range(q)
    BY DEF HeldPaths
  <2>1. CASE h = e
    BY <2>1, <1>8
  <2>2. CASE h \in held
    BY <2>2, <1>9 DEF HeldPaths
  <2> QED
    BY <2>1, <2>2, <1>2
<1> QED
  BY <1>3, <1>4, <1>5, <1>7, <1>9, <1>10

-----------------------------------------------------------------------------
(* The rest of the invariant, action by action.                            *)

\* What Move does.
LEMMA MoveAt ==
  ASSUME NEW O, NULL \notin O, NEW x, NEW V, x \in [O -> V],
         NEW o \in O \cup {NULL}, NEW old, NEW new
  PROVE  \A k \in O : Move(x, o, old, new)[k] = IF k = o /\ x[k] = old THEN new ELSE x[k]
PROOF
  BY DEF Move

\* The types that the moves need.
LEMMA BoundsTypes ==
  ASSUME IInv
  PROVE  /\ NULL \notin Functions /\ NULL \notin SubSections /\ NULL \notin Entries
         /\ fnFirst \in [Functions -> Ref(Entries)]
         /\ fnLast \in [Functions -> Ref(Entries)]
         /\ ssFirst \in [SubSections -> Ref(Entries)]
         /\ ssLast \in [SubSections -> Ref(Entries)]
         /\ \A e \in Entries : /\ entryFn[e] \in Functions \cup {NULL}
                               /\ entrySs[e] \in SubSections \cup {NULL}
PROOF
  BY NullAssumption DEF IInv, TypeOK, Ref

\* The entries of a chain have one owner, if each has that of the one before.
LEMMA ChainOwner ==
  ASSUME IInv, HeldPaths, NEW owner,
         \A e \in held : next[e] # NULL => owner[next[e]] = owner[e],
         NEW S \in SUBSET held, NEW first, NEW last, Chain(S, first, last)
  PROVE  \A e \in S : owner[e] = owner[first]
PROOF
<1>1. /\ \A e \in held : {next[e], prev[e]} \subseteq held \cup {NULL}
      /\ \A e \in held : prev[e] # NULL => next[prev[e]] = e
      /\ NULL \notin held
  BY LiveLemma
<1> DEFINE C == {e \in held : owner[e] = owner[first]}
<1>2. \A e \in C : {next[e], prev[e]} \subseteq C \cup {NULL}
  <2> SUFFICES ASSUME NEW e \in C PROVE {next[e], prev[e]} \subseteq C \cup {NULL}
    OBVIOUS
  <2>1. next[e] # NULL => next[e] \in held /\ owner[next[e]] = owner[e]
    BY <1>1
  <2>2. prev[e] # NULL => prev[e] \in held /\ next[prev[e]] = e /\ e # NULL
    BY <1>1
  <2>3. prev[e] # NULL => owner[prev[e]] = owner[e]
    BY <2>2
  <2> QED
    BY <2>1, <2>2, <2>3
<1>3. PICK p : IsHeldPath(p) /\ Range(p) = S /\ p[1] = first
  BY ChainLemma
<1>4. IsPath(next, prev, p) /\ 1 \in 1 .. Len(p) /\ first \in held
  <2>1. first \in S
    BY DEF Chain, Run
  <2>2. p \in Seq(Entries) /\ p # <<>>
    BY <1>3 DEF IsHeldPath, IsPath
  <2> QED
    BY <2>1, <2>2, <1>3 DEF IsHeldPath
<1>5. p[1] \in C
  BY <1>3, <1>4
<1>6. Range(p) \subseteq C
  <2> HIDE DEF C
  <2> QED
    BY ONLY <1>2, <1>4, <1>5, ClosedLemma
<1> QED
  BY <1>3, <1>6

\* A chain is one function's, and one subsection's until an entry strays.
LEMMA ChainOwners ==
  ASSUME IInv, Sound, NEW S \in SUBSET held, NEW first, NEW last, Chain(S, first, last)
  PROVE  /\ \A e \in S : entryFn[e] = entryFn[first]
         /\ ~strayed => \A e \in S : entrySs[e] = entrySs[first]
PROOF
<1>1. HeldPaths /\ \A e \in held : next[e] # NULL => entryFn[next[e]] = entryFn[e]
  BY DEF Sound, PathsInv, HeldFn
<1>2. ~strayed => \A e \in held : next[e] # NULL => entrySs[next[e]] = entrySs[e]
  BY DEF Sound, SubSectionsInv, HeldSs
<1> QED
  BY <1>1, <1>2, ChainOwner

\* In a run, only the first entry has its predecessor outside, and only the
\* last its successor.
LEMMA EndsLemma ==
  ASSUME NEW nxt, NEW prv, NEW M, NEW f, NEW l, IsRun(nxt, prv, M, f, l), NEW e \in M
  PROVE  /\ f = e <=> prv[e] \notin M
         /\ l = e <=> nxt[e] \notin M
PROOF
  BY DEF IsRun

\* The bounds of the owners, for one kind of owner, after LinkBefore.
LEMMA BeforeSpans ==
  ASSUME IInv, NEW S \in SUBSET held, NEW first \in S, NEW last \in S,
         NEW anchor \in InList, Chain(S, first, last),
         Joined(prev[anchor], anchor, first, last), InList' = InList \cup S,
         NEW owner, \A e \in S : owner[e] = owner[anchor],
         NEW O, NULL \notin O, owner[anchor] \in O \cup {NULL},
         NEW F, F \in [O -> Ref(Entries)], NEW L, Spans(owner, O, F, L)
  PROVE  \A o \in O : MineNext(owner, o) # {} =>
           IsRun(next', prev', MineNext(owner, o),
                 Move(F, owner[anchor], anchor, first)[o], L[o])
PROOF
<1> DEFINE F2 == Move(F, owner[anchor], anchor, first)
<1>1. \A o \in O : F2[o] = IF o = owner[anchor] /\ F[o] = anchor THEN first ELSE F[o]
  BY MoveAt
<1>2. /\ {prev[anchor], anchor} \subseteq InList \cup {NULL}
      /\ Beside(next, prev, prev[anchor], anchor)
  BY LiveLemma DEF Beside
<1>3. \A o \in O : o = owner[anchor] =>
        /\ F2[o] = IF prev[anchor] \in Mine(owner, o) THEN F[o] ELSE first
        /\ L[o] = IF anchor \in Mine(owner, o) THEN L[o] ELSE last
  <2> SUFFICES ASSUME NEW o \in O, o = owner[anchor]
               PROVE  /\ F2[o] = IF prev[anchor] \in Mine(owner, o) THEN F[o] ELSE first
                      /\ L[o] = IF anchor \in Mine(owner, o) THEN L[o] ELSE last
    OBVIOUS
  <2>1. anchor \in Mine(owner, o)
    BY DEF Mine
  <2>2. IsRun(next, prev, Mine(owner, o), F[o], L[o])
    BY <2>1 DEF Spans
  <2>3. F[o] = anchor <=> prev[anchor] \notin Mine(owner, o)
    BY <2>1, <2>2, EndsLemma
  <2>4. F2[o] = IF F[o] = anchor THEN first ELSE F[o]
    BY <1>1
  <2> HIDE DEF F2
  <2> QED
    BY <2>1, <2>3, <2>4
<1>4. \A o \in O : o # owner[anchor] => F2[o] = F[o] /\ L[o] = L[o]
  BY <1>1
<1> HIDE DEF F2
<1>5. Widens(owner, O, anchor, prev[anchor], anchor, first, last, F, L, F2, L)
  BY <1>3, <1>4 DEF Widens
<1>6. \A o \in O : MineNext(owner, o) # {} =>
        IsRun(next', prev', MineNext(owner, o), F2[o], L[o])
  BY <1>2, <1>5, JoinSpans
<1> QED
  BY <1>6 DEF F2

\* And after LinkAfter.
LEMMA AfterSpans ==
  ASSUME IInv, NEW S \in SUBSET held, NEW first \in S, NEW last \in S,
         NEW anchor \in InList, Chain(S, first, last),
         Joined(anchor, next[anchor], first, last), InList' = InList \cup S,
         NEW owner, \A e \in S : owner[e] = owner[anchor],
         NEW O, NULL \notin O, owner[anchor] \in O \cup {NULL},
         NEW L, L \in [O -> Ref(Entries)], NEW F, Spans(owner, O, F, L)
  PROVE  \A o \in O : MineNext(owner, o) # {} =>
           IsRun(next', prev', MineNext(owner, o),
                 F[o], Move(L, owner[anchor], anchor, last)[o])
PROOF
<1> DEFINE L2 == Move(L, owner[anchor], anchor, last)
<1>1. \A o \in O : L2[o] = IF o = owner[anchor] /\ L[o] = anchor THEN last ELSE L[o]
  BY MoveAt
<1>2. /\ {anchor, next[anchor]} \subseteq InList \cup {NULL}
      /\ Beside(next, prev, anchor, next[anchor])
  BY LiveLemma DEF Beside
<1>3. \A o \in O : o = owner[anchor] =>
        /\ F[o] = IF anchor \in Mine(owner, o) THEN F[o] ELSE first
        /\ L2[o] = IF next[anchor] \in Mine(owner, o) THEN L[o] ELSE last
  <2> SUFFICES ASSUME NEW o \in O, o = owner[anchor]
               PROVE  /\ F[o] = IF anchor \in Mine(owner, o) THEN F[o] ELSE first
                      /\ L2[o] = IF next[anchor] \in Mine(owner, o) THEN L[o] ELSE last
    OBVIOUS
  <2>1. anchor \in Mine(owner, o)
    BY DEF Mine
  <2>2. IsRun(next, prev, Mine(owner, o), F[o], L[o])
    BY <2>1 DEF Spans
  <2>3. L[o] = anchor <=> next[anchor] \notin Mine(owner, o)
    BY <2>1, <2>2, EndsLemma
  <2>4. L2[o] = IF L[o] = anchor THEN last ELSE L[o]
    BY <1>1
  <2> HIDE DEF L2
  <2> QED
    BY <2>1, <2>3, <2>4
<1>4. \A o \in O : o # owner[anchor] => F[o] = F[o] /\ L2[o] = L[o]
  BY <1>1
<1> HIDE DEF L2
<1>5. Widens(owner, O, anchor, anchor, next[anchor], first, last, F, L, F, L2)
  BY <1>3, <1>4 DEF Widens
<1>6. \A o \in O : MineNext(owner, o) # {} =>
        IsRun(next', prev', MineNext(owner, o), F[o], L2[o])
  BY <1>2, <1>5, JoinSpans
<1> QED
  BY <1>6 DEF L2

\* LinkBefore preserves the invariant.
LEMMA LinkBeforeInv ==
  ASSUME IInv, Sound, NEW S \in SUBSET held, NEW first \in S, NEW last \in S,
         NEW anchor \in InList, Chain(S, first, last), SameFunction(anchor, first),
         prev[anchor] = NULL => entrySs[first] = entrySs[anchor],
         LinkBefore(anchor, S, first, last)
  PROVE  Sound'
PROOF
<1>0. /\ Spans(entryFn, Functions, fnFirst, fnLast)
      /\ HeldFn /\ HeadInv /\ TextInv /\ HeldPaths
  BY DEF Sound, PathsInv
<1>1. PICK s : IsText(s)
  BY <1>0 DEF TextInv
<1>2. PICK i, p : Inserts(s, i, p) /\ Range(p) = S
  BY <1>0, <1>1, LinkBeforePath
<1>3. TextInv' /\ HeldPaths'
  BY <1>0, <1>2, InsertsLemma DEF TextInv
<1>4. /\ InList' = InList \cup S /\ held' = held \ S
      /\ \A e \in held' : next'[e] = next[e] /\ prev'[e] = prev[e]
  BY <1>2 DEF Inserts
<1>5. entryFn' = entryFn /\ entrySs' = entrySs /\ fnLast' = fnLast /\ ssLast' = ssLast
  BY DEF LinkBefore, maps
<1>6. HeldFn'
  BY <1>0, <1>4, <1>5 DEF HeldFn
<1>7. /\ fnFirst' = Move(fnFirst, entryFn[anchor], anchor, first)
      /\ ssFirst' = Move(ssFirst, entrySs[anchor], anchor, first)
  BY DEF LinkBefore
<1>8. Joined(prev[anchor], anchor, first, last)
  BY LinkBeforeJoins
<1>9. /\ anchor \in Entries /\ NULL \notin Entries
      /\ \A e \in InList : prev[e] # NULL => next[prev[e]] = e /\ prev[e] \in InList
      /\ InList \subseteq Entries /\ S \cap InList = {}
  BY LiveLemma
<1>10. /\ \A e \in S : entryFn[e] = entryFn[anchor]
       /\ ~strayed => \A e \in S : entrySs[e] = entrySs[first]
  BY ChainOwners DEF SameFunction
<1>11. Spans(entryFn, Functions, fnFirst, fnLast)'
  <2>0. /\ NULL \notin Functions /\ fnFirst \in [Functions -> Ref(Entries)]
        /\ entryFn[anchor] \in Functions \cup {NULL}
    BY <1>9, BoundsTypes
  <2>1. \A o \in Functions : MineNext(entryFn, o) # {} =>
          IsRun(next', prev', MineNext(entryFn, o),
                Move(fnFirst, entryFn[anchor], anchor, first)[o], fnLast[o])
    BY ONLY <2>0, <1>0, <1>4, <1>8, <1>10, IInv, Chain(S, first, last), S \in SUBSET held,
            first \in S, last \in S, anchor \in InList, BeforeSpans
  <2> QED
    BY <2>1, <1>5, <1>7 DEF Spans, Mine, MineNext
<1>12. ASSUME ~strayed'
       PROVE  SubSectionsInv'
  <2>1. ~strayed /\ entrySs[first] = entrySs[anchor]
    BY <1>12 DEF LinkBefore
  <2>2. Spans(entrySs, SubSections, ssFirst, ssLast) /\ HeldSs
    BY <2>1 DEF Sound, SubSectionsInv
  <2>3. \A e \in S : entrySs[e] = entrySs[anchor]
    BY <1>10, <2>1
  <2>4. /\ NULL \notin SubSections /\ ssFirst \in [SubSections -> Ref(Entries)]
        /\ entrySs[anchor] \in SubSections \cup {NULL}
    BY <1>9, BoundsTypes
  <2>5. \A o \in SubSections : MineNext(entrySs, o) # {} =>
          IsRun(next', prev', MineNext(entrySs, o),
                Move(ssFirst, entrySs[anchor], anchor, first)[o], ssLast[o])
    BY ONLY <2>2, <2>3, <2>4, <1>4, <1>8, IInv, Chain(S, first, last), S \in SUBSET held,
            first \in S, last \in S, anchor \in InList, BeforeSpans
  <2>6. Spans(entrySs, SubSections, ssFirst, ssLast)'
    BY <2>5, <1>5, <1>7 DEF Spans, Mine, MineNext
  <2>7. HeldSs'
    BY <2>2, <1>4, <1>5 DEF HeldSs
  <2> QED
    BY <2>6, <2>7 DEF SubSectionsInv
<1>13. HeadInv'
  <2> DEFINE head == ssFirst[FirstSubSection]
  <2>1. head \in InList /\ entrySs[head] = FirstSubSection /\ prev[head] = NULL
    BY <1>0 DEF HeadInv, Mine
  <2>2. FirstSubSection \in SubSections
    BY FirstSubSectionAssumption
  <2>3. ssFirst'[FirstSubSection] = IF head = anchor THEN first ELSE head
    <3>1. \A k \in SubSections : ssFirst'[k] =
            IF k = entrySs[anchor] /\ ssFirst[k] = anchor THEN first ELSE ssFirst[k]
      <4>1. /\ NULL \notin SubSections /\ ssFirst \in [SubSections -> Ref(Entries)]
            /\ entrySs[anchor] \in SubSections \cup {NULL}
        BY <1>9, BoundsTypes
      <4> QED
        BY ONLY <4>1, <1>7, MoveAt, SMTT(60)
    <3> QED
      BY <3>1, <2>1, <2>2
  <2>4. CASE head = anchor
    <3>1. prev'[first] = NULL /\ first \in InList'
      BY <2>1, <2>4, <1>4, <1>8 DEF Joined
    <3>2. entrySs[first] = FirstSubSection
      BY <2>1, <2>4
    <3> QED
      BY <3>1, <3>2, <2>3, <2>4, <1>5 DEF HeadInv, Mine
  <2>5. CASE head # anchor
    <3>1. prev'[head] = NULL
      BY <2>1, <2>5, <1>8, <1>9 DEF Joined
    <3> QED
      BY <3>1, <2>1, <2>3, <2>5, <1>4, <1>5 DEF HeadInv, Mine
  <2> QED
    BY <2>4, <2>5
<1>14. PathsInv'
  BY <1>3, <1>6, <1>11, <1>13 DEF PathsInv
<1> QED
  BY <1>12, <1>14 DEF Sound

\* LinkAfter preserves it, unless it tears the list.
LEMMA LinkAfterInv ==
  ASSUME IInv, Sound, NEW S \in SUBSET held, NEW first \in S, NEW last \in S,
         NEW anchor \in InList, Chain(S, first, last), SameFunction(anchor, first),
         LinkAfter(anchor, S, first, last), torn' = {}
  PROVE  Sound'
PROOF
<1>0. /\ Spans(entryFn, Functions, fnFirst, fnLast)
      /\ HeldFn /\ HeadInv /\ TextInv /\ HeldPaths
  BY DEF Sound, PathsInv
<1>1. PICK s : IsText(s)
  BY <1>0 DEF TextInv
<1>2. PICK i, p : Inserts(s, i, p) /\ Range(p) = S
  BY <1>0, <1>1, LinkAfterPath
<1>3. TextInv' /\ HeldPaths'
  BY <1>0, <1>2, InsertsLemma DEF TextInv
<1>4. /\ InList' = InList \cup S /\ held' = held \ S
      /\ \A e \in held' : next'[e] = next[e] /\ prev'[e] = prev[e]
  BY <1>2 DEF Inserts
<1>5. entryFn' = entryFn /\ entrySs' = entrySs /\ fnFirst' = fnFirst /\ ssFirst' = ssFirst
  BY DEF LinkAfter, maps
<1>6. HeldFn'
  BY <1>0, <1>4, <1>5 DEF HeldFn
<1>7. /\ fnLast' = Move(fnLast, entryFn[anchor], anchor, last)
      /\ ssLast' = Move(ssLast, entrySs[anchor], anchor, last)
  BY DEF LinkAfter
<1>8. Joined(anchor, next[anchor], first, last)
  BY LinkAfterJoins
<1>9. /\ anchor \in Entries /\ NULL \notin Entries
      /\ \A e \in InList : next[e] # NULL => prev[next[e]] = e /\ next[e] \in InList
      /\ InList \subseteq Entries /\ S \cap InList = {}
  BY LiveLemma
<1>10. /\ \A e \in S : entryFn[e] = entryFn[anchor]
       /\ ~strayed => \A e \in S : entrySs[e] = entrySs[first]
  BY ChainOwners DEF SameFunction
<1>11. Spans(entryFn, Functions, fnFirst, fnLast)'
  <2>0. /\ NULL \notin Functions /\ fnLast \in [Functions -> Ref(Entries)]
        /\ entryFn[anchor] \in Functions \cup {NULL}
    BY <1>9, BoundsTypes
  <2>1. \A o \in Functions : MineNext(entryFn, o) # {} =>
          IsRun(next', prev', MineNext(entryFn, o),
                fnFirst[o], Move(fnLast, entryFn[anchor], anchor, last)[o])
    BY ONLY <2>0, <1>0, <1>4, <1>8, <1>10, IInv, Chain(S, first, last), S \in SUBSET held,
            first \in S, last \in S, anchor \in InList, AfterSpans
  <2> QED
    BY <2>1, <1>5, <1>7 DEF Spans, Mine, MineNext
<1>12. ASSUME ~strayed'
       PROVE  SubSectionsInv'
  <2>1. ~strayed /\ entrySs[first] = entrySs[anchor]
    BY <1>12 DEF LinkAfter
  <2>2. Spans(entrySs, SubSections, ssFirst, ssLast) /\ HeldSs
    BY <2>1 DEF Sound, SubSectionsInv
  <2>3. \A e \in S : entrySs[e] = entrySs[anchor]
    BY <1>10, <2>1
  <2>4. /\ NULL \notin SubSections /\ ssLast \in [SubSections -> Ref(Entries)]
        /\ entrySs[anchor] \in SubSections \cup {NULL}
    BY <1>9, BoundsTypes
  <2>5. \A o \in SubSections : MineNext(entrySs, o) # {} =>
          IsRun(next', prev', MineNext(entrySs, o),
                ssFirst[o], Move(ssLast, entrySs[anchor], anchor, last)[o])
    BY ONLY <2>2, <2>3, <2>4, <1>4, <1>8, IInv, Chain(S, first, last), S \in SUBSET held,
            first \in S, last \in S, anchor \in InList, AfterSpans
  <2>6. Spans(entrySs, SubSections, ssFirst, ssLast)'
    BY <2>5, <1>5, <1>7 DEF Spans, Mine, MineNext
  <2>7. HeldSs'
    BY <2>2, <1>4, <1>5 DEF HeldSs
  <2> QED
    BY <2>6, <2>7 DEF SubSectionsInv
<1>13. HeadInv'
  <2> DEFINE head == ssFirst[FirstSubSection]
  <2>1. head \in InList /\ entrySs[head] = FirstSubSection /\ prev[head] = NULL
    BY <1>0 DEF HeadInv, Mine
  <2>2. prev'[head] = NULL
    BY <2>1, <1>8, <1>9 DEF Joined
  <2> QED
    BY <2>1, <2>2, <1>4, <1>5 DEF HeadInv, Mine
<1>14. PathsInv'
  BY <1>3, <1>6, <1>11, <1>13 DEF PathsInv
<1> QED
  BY <1>12, <1>14 DEF Sound

\* The head of the section stays, unless it is the entry that goes, when the
\* one after it takes its place.
LEMMA PartedHead ==
  ASSUME IInv, HeadInv, NEW S \in SUBSET InList, NEW first \in S, NEW last \in S,
         \A e \in S \ {first} : prev[e] \in S,
         NEW pv2, Parted(pv2, prev[first], next[last], first, last), InList' = InList \ S,
         \A e \in InList' : entrySs'[e] = entrySs[e],
         ssFirst' = Move(ssFirst, entrySs[first], first, next[last]),
         first = ssFirst[FirstSubSection] =>
           /\ next[last] \in InList \ S
           /\ entrySs[next[last]] = FirstSubSection
  PROVE  NewHead(pv2)
PROOF
<1> DEFINE head == ssFirst[FirstSubSection]
<1>1. /\ head \in InList /\ entrySs[head] = FirstSubSection /\ prev[head] = NULL
      /\ FirstSubSection \in SubSections
  BY FirstSubSectionAssumption DEF HeadInv, Mine
<1>2. /\ InList \subseteq Entries /\ NULL \notin Entries
      /\ \A e \in InList : next[e] # NULL => prev[next[e]] = e
  BY LiveLemma
<1>3. ssFirst'[FirstSubSection] = IF head = first THEN next[last] ELSE head
  <2>1. \A k \in SubSections : ssFirst'[k] =
          IF k = entrySs[first] /\ ssFirst[k] = first THEN next[last] ELSE ssFirst[k]
    <3>1. /\ NULL \notin SubSections /\ ssFirst \in [SubSections -> Ref(Entries)]
          /\ entrySs[first] \in SubSections \cup {NULL}
      BY <1>2, BoundsTypes
    <3> QED
      BY ONLY <3>1, MoveAt, ssFirst' = Move(ssFirst, entrySs[first], first, next[last]), SMTT(60)
  <2> QED
    BY <2>1, <1>1
<1>4. CASE head = first
  <2>1. next[last] \in InList' /\ entrySs'[next[last]] = FirstSubSection
    BY <1>4
  <2>2. next[last] # NULL /\ pv2[next[last]] = NULL
    BY <1>1, <1>2, <1>4 DEF Parted
  <2> QED
    BY <1>3, <1>4, <2>1, <2>2 DEF NewHead
<1>5. CASE head # first
  <2>1. head \notin S
    BY <1>1, <1>2, <1>5
  <2>2. head # next[last]
    BY <1>1, <1>2
  <2>3. pv2[head] = NULL
    BY <2>2, <1>1, <1>2, <1>5 DEF Parted
  <2> QED
    BY <1>1, <1>3, <1>5, <2>1, <2>3 DEF NewHead
<1> QED
  BY <1>4, <1>5

\* Where nothing is mended, the lists after the step are those of the state.
LEMMA Unmended ==
  ASSUME NewHead(prev'), NewHeldPaths(prev'), NEW s, NewText(prev', s)
  PROVE  HeadInv' /\ TextInv' /\ HeldPaths'
PROOF
<1>1. HeadInv'
  BY DEF NewHead, HeadInv, Mine
<1>2. TextInv'
  <2>1. IsText(s)'
    BY DEF NewText, IsText
  <2> QED
    BY <2>1 DEF TextInv
<1>3. HeldPaths'
  <2>1. \A p : NewHeldPath(prev', p) <=> IsHeldPath(p)'
    BY DEF NewHeldPath, IsHeldPath
  <2> QED
    BY <2>1 DEF NewHeldPaths, HeldPaths
<1> QED
  BY <1>1, <1>2, <1>3

\* Where Unlink tears nothing, nothing needs mending,
LEMMA UnlinkParted ==
  ASSUME IInv, NEW S \in SUBSET InList, NEW first \in S, NEW last \in S,
         Run(S, first, last), prev[first] # NULL, Unlink(S, first, last), torn' = {}
  PROVE  /\ Parted(prev', prev[first], next[last], first, last)
         /\ next'[last] = NULL /\ prev'[first] = NULL
PROOF
<1> DEFINE pv2 == UnlinkMended(first, last)
<1>1. /\ next'[last] = NULL /\ pv2[first] = NULL
      /\ Parted(pv2, prev[first], next[last], first, last)
      /\ \A e \in Entries \ torn' : pv2[e] = prev'[e]
      /\ torn' \subseteq InList \ S
  BY UnlinkParts
<1> HIDE DEF pv2
<1>2. /\ first \in Entries
      /\ next[last] # NULL => next[last] \in Entries
  BY LiveLemma
<1>3. \A e \in Entries : pv2[e] = prev'[e]
  BY ONLY <1>1, torn' = {}
<1>4. Parted(prev', prev[first], next[last], first, last)
  BY ONLY <1>1, <1>2, <1>3 DEF Parted
<1> QED
  BY <1>1, <1>2, <1>3, <1>4

\* and the same for DeleteEntry.
LEMMA DeleteParted ==
  ASSUME IInv, NEW e \in InList, next[e] # e, prev[e] # e, DeleteEntry(e), torn' = {}
  PROVE  Parted(prev', prev[e], next[e], e, e)
PROOF
<1> DEFINE pv2 == DeleteMended(e)
<1>1. /\ Parted(pv2, prev[e], next[e], e, e)
      /\ \A h \in Entries \ torn' : pv2[h] = prev'[h]
      /\ torn' \subseteq InList \ {e}
  BY DeleteParts
<1> HIDE DEF pv2
<1>2. next[e] # NULL => next[e] \in Entries
  BY LiveLemma
<1>3. \A h \in Entries : pv2[h] = prev'[h]
  BY ONLY <1>1, torn' = {}
<1> QED
  BY ONLY <1>1, <1>2, <1>3 DEF Parted

\* Unlinking a run narrows the owner that its two ends have.
LEMMA RunNarrows ==
  ASSUME IInv, NEW s, IsText(s), NEW S \in SUBSET InList, NEW first \in S, NEW last \in S,
         IsRun(next, prev, S, first, last),
         NEW owner, owner[last] = owner[first], NEW O, NULL \notin O, owner[first] \in O,
         NEW F, NEW L, F \in [O -> Ref(Entries)], L \in [O -> Ref(Entries)],
         Spans(owner, O, F, L)
  PROVE  /\ S \subseteq Mine(owner, owner[first])
         /\ Narrows(owner, O, S, first, last, prev[first], next[last], F, L,
                    Move(F, owner[first], first, next[last]),
                    Move(L, owner[first], last, prev[first]))
PROOF
<1> DEFINE z == owner[first]
<1>1. \A o \in O :
        /\ Move(F, z, first, next[last])[o] =
             IF o = z /\ F[o] = first THEN next[last] ELSE F[o]
        /\ Move(L, z, last, prev[first])[o] =
             IF o = z /\ L[o] = last THEN prev[first] ELSE L[o]
  BY DEF Move
<1>2. {first, last} \subseteq Mine(owner, z) /\ Mine(owner, z) \in SUBSET InList
  BY DEF Mine
<1>3. IsRun(next, prev, Mine(owner, z), F[z], L[z])
  BY <1>2 DEF Spans
<1>4. S \subseteq Mine(owner, z)
  BY <1>2, <1>3, WithinLemma
<1>5. \A o \in O : o # z => S \cap Mine(owner, o) = {}
  BY <1>4 DEF Mine
<1> HIDE DEF z
<1>6. Narrows(owner, O, S, first, last, prev[first], next[last], F, L,
              Move(F, z, first, next[last]), Move(L, z, last, prev[first]))
  BY ONLY <1>1, <1>4, <1>5 DEF Narrows
<1> QED
  BY <1>4, <1>6 DEF z

\* Unlink preserves the invariant, unless it tears the list: what leaves is all
\* one function's, because its first and last entry are, and a function is one
\* run; and the same for its subsection.
LEMMA UnlinkInv ==
  ASSUME IInv, Sound, NEW S \in SUBSET InList, NEW first \in S, NEW last \in S,
         Run(S, first, last), prev[first] # NULL,
         SameFunction(prev[first], first), Unlink(S, first, last), torn' = {}
  PROVE  Sound'
PROOF
<1> DEFINE f == entryFn[first]
           z == entrySs[first]
           before == prev[first]
           after == next[last]
<1>0. /\ Spans(entryFn, Functions, fnFirst, fnLast)
      /\ HeldFn /\ HeadInv /\ TextInv /\ HeldPaths
  BY DEF Sound, PathsInv
<1>1. PICK s : IsText(s)
  BY <1>0 DEF TextInv
<1>2. /\ Parted(prev', before, after, first, last)
      /\ next'[last] = NULL /\ prev'[first] = NULL
  BY UnlinkParted
<1>3. PICK i, j : Takes(prev', s, i, j) /\ Piece(s, i, j) = S
  BY <1>1, <1>2, UnlinkPath
<1>4. NewText(prev', Cut(s, i, j)) /\ NewHeldPaths(prev')
  BY <1>0, <1>3, TakesLemma
<1>5. /\ InList' = InList \ S /\ held' = held \cup S
      /\ \A e \in held : next'[e] = next[e]
  BY <1>3 DEF Takes
<1>6. /\ entryFn' = entryFn /\ entrySs' = entrySs
      /\ entryFn[last] = f /\ entrySs[last] = z
      /\ fnFirst' = Move(fnFirst, f, first, after)
      /\ fnLast' = Move(fnLast, f, last, before)
      /\ ssFirst' = Move(ssFirst, z, first, after)
      /\ ssLast' = Move(ssLast, z, last, before)
      /\ strayed' = strayed
  BY DEF Unlink, maps
<1>7. /\ InList \subseteq Entries /\ NULL \notin Entries
      /\ before \in InList /\ first \in InList /\ first \in Entries /\ z # NULL
  BY LiveLemma
<1>8. /\ f # NULL /\ f \in Functions /\ z \in SubSections
      /\ NULL \notin Functions /\ NULL \notin SubSections
      /\ fnFirst \in [Functions -> Ref(Entries)] /\ fnLast \in [Functions -> Ref(Entries)]
      /\ ssFirst \in [SubSections -> Ref(Entries)] /\ ssLast \in [SubSections -> Ref(Entries)]
  BY <1>7, BoundsTypes DEF SameFunction
<1>9. IsRun(next, prev, S, first, last)
  BY DEF Run, IsRun
<1> HIDE DEF f, z, before, after
<1>10. /\ S \subseteq Mine(entryFn, f)
       /\ Narrows(entryFn, Functions, S, first, last, before, after,
                  fnFirst, fnLast, fnFirst', fnLast')
  BY ONLY <1>0, <1>1, <1>6, <1>8, <1>9, IInv, S \in SUBSET InList, first \in S, last \in S,
          RunNarrows DEF f, before, after
<1>11. Spans(entryFn, Functions, fnFirst, fnLast)'
  <2>1. \A o \in Functions : Mine(entryFn, o) \ S # {} =>
          IsRun(next', prev', Mine(entryFn, o) \ S, fnFirst'[o], fnLast'[o])
    BY ONLY <1>0, <1>1, <1>2, <1>9, <1>10, IInv, S \in SUBSET InList, PartSpans
       DEF before, after
  <2>2. \A o \in Functions : Mine(entryFn, o)' = Mine(entryFn, o) \ S
    BY ONLY <1>5, <1>6 DEF Mine
  <2> QED
    BY ONLY <2>1, <2>2 DEF Spans
<1>12. \A e \in S : next'[e] # NULL => next'[e] \in S
  <2>1. \A e \in S : e # last => next'[e] = next[e] /\ next[e] \in S
    <3>1. \A e \in S : e \in Entries /\ e # before
      BY <1>7 DEF Run, before
    <3> QED
      BY <3>1, <1>2 DEF Parted, Run
  <2> QED
    BY <2>1, <1>2
<1>13. HeldFn'
  <2>1. \A e \in held :
          /\ entryFn'[e] # NULL
          /\ next'[e] # NULL => entryFn'[next'[e]] = entryFn'[e]
    BY <1>0, <1>5, <1>6 DEF HeldFn
  <2>2. \A e \in S :
          /\ entryFn'[e] # NULL
          /\ next'[e] # NULL => entryFn'[next'[e]] = entryFn'[e]
    BY <1>12, <1>6, <1>8, <1>10 DEF Mine
  <2> QED
    BY <2>1, <2>2, <1>5 DEF HeldFn
<1>14. ASSUME ~strayed'
       PROVE  SubSectionsInv'
  <2>1. Spans(entrySs, SubSections, ssFirst, ssLast) /\ HeldSs
    BY <1>6, <1>14 DEF Sound, SubSectionsInv
  <2>2. /\ S \subseteq Mine(entrySs, z)
        /\ Narrows(entrySs, SubSections, S, first, last, before, after,
                   ssFirst, ssLast, ssFirst', ssLast')
    BY ONLY <2>1, <1>1, <1>6, <1>8, <1>9, IInv, S \in SUBSET InList, first \in S, last \in S,
            RunNarrows DEF z, before, after
  <2>3. \A o \in SubSections : Mine(entrySs, o) \ S # {} =>
          IsRun(next', prev', Mine(entrySs, o) \ S, ssFirst'[o], ssLast'[o])
    BY ONLY <2>1, <2>2, <1>1, <1>2, <1>9, IInv, S \in SUBSET InList, PartSpans
       DEF before, after
  <2>4. \A o \in SubSections : Mine(entrySs, o)' = Mine(entrySs, o) \ S
    BY ONLY <1>5, <1>6 DEF Mine
  <2>5. Spans(entrySs, SubSections, ssFirst, ssLast)'
    BY ONLY <2>3, <2>4 DEF Spans
  <2>6. HeldSs'
    <3>1. \A e \in held : next'[e] # NULL => entrySs'[next'[e]] = entrySs'[e]
      BY <2>1, <1>5, <1>6 DEF HeldSs
    <3>2. \A e \in S : next'[e] # NULL => entrySs'[next'[e]] = entrySs'[e]
      BY <2>2, <1>6, <1>12 DEF Mine
    <3> QED
      BY <3>1, <3>2, <1>5 DEF HeldSs
  <2> QED
    BY <2>5, <2>6 DEF SubSectionsInv
<1>15. NewHead(prev')
  <2>1. first # ssFirst[FirstSubSection]
    BY <1>0 DEF HeadInv
  <2>2. \A e \in S \ {first} : prev[e] \in S
    BY DEF Run
  <2> QED
    BY ONLY <1>0, <1>2, <1>5, <1>6, <2>1, <2>2, IInv, S \in SUBSET InList,
            first \in S, last \in S, PartedHead DEF before, after, z
<1>16. HeadInv' /\ TextInv' /\ HeldPaths'
  BY ONLY <1>4, <1>15, Unmended
<1>17. PathsInv'
  BY <1>11, <1>13, <1>16 DEF PathsInv
<1> QED
  BY <1>14, <1>17 DEF Sound

\* No entry of the section is beside itself.
LEMMA NotBesideItself ==
  ASSUME IInv, NEW s, IsText(s), NEW e \in InList
  PROVE  IsRun(next, prev, {e}, e, e)
PROOF
<1>1. IsPath(next, prev, s) /\ Len(s) \in Nat
  BY DEF IsText, IsPath
<1>2. e # NULL
  BY LiveLemma
<1>3. PICK k \in 1 .. Len(s) : s[k] = e /\ prev[e] = Place(s, k - 1)
                                        /\ next[e] = Place(s, k + 1)
  BY PlaceOf
<1>4. next[e] # e
  BY <1>1, <1>2, <1>3, PathOnce DEF Place
<1>5. prev[e] # e
  BY <1>1, <1>2, <1>3, PathOnce DEF Place
<1> QED
  BY <1>4, <1>5 DEF IsRun

\* Where the head of the section is deleted, the next entry can take its place.
LEMMA DeleteHead ==
  ASSUME IInv, HeadInv, TextInv, NEW e \in InList, DeleteEntry(e)
  PROVE  /\ e = ssFirst[FirstSubSection] =>
              next[e] \in InList \ {e} /\ entrySs[next[e]] = FirstSubSection
         /\ \A h \in {e} \ {e} : prev[h] \in {e}
PROOF
<1>1. e = ssFirst[FirstSubSection] => entrySs[e] = FirstSubSection
  BY DEF HeadInv, Mine
<1>2. FirstSubSection # NULL
  BY FirstSubSectionAssumption, NullAssumption
<1>3. next[e] # e
  BY NotBesideItself DEF TextInv, IsRun
<1>4. next[e] # NULL => next[e] \in InList
  BY LiveLemma
<1>5. CanDrop(e, entrySs, entrySs[e], ssFirst, ssLast)
  BY DEF DeleteEntry
<1> QED
  BY <1>1, <1>2, <1>3, <1>4, <1>5 DEF CanDrop

\* Deleting an entry narrows its owner, if it has one.
LEMMA DropNarrows ==
  ASSUME IInv, NEW e \in InList, NEW owner, NEW O, NULL \notin O,
         owner[e] \in O \cup {NULL}, NEW F, NEW L,
         F \in [O -> Ref(Entries)], L \in [O -> Ref(Entries)]
  PROVE  Narrows(owner, O, {e}, e, e, prev[e], next[e], F, L,
                 Move(F, owner[e], e, next[e]), Move(L, owner[e], e, prev[e]))
PROOF
<1>1. \A o \in O :
        /\ Move(F, owner[e], e, next[e])[o] =
             IF o = owner[e] /\ F[o] = e THEN next[e] ELSE F[o]
        /\ Move(L, owner[e], e, prev[e])[o] =
             IF o = owner[e] /\ L[o] = e THEN prev[e] ELSE L[o]
  BY DEF Move
<1>2. \A o \in O : o = owner[e] => {e} \subseteq Mine(owner, o)
  BY DEF Mine
<1>3. \A o \in O : o # owner[e] => {e} \cap Mine(owner, o) = {}
  BY DEF Mine
<1> QED
  BY ONLY <1>1, <1>2, <1>3 DEF Narrows

\* DeleteEntry preserves it, thanks to its assertions, unless it tears the list.
LEMMA DeleteInv ==
  ASSUME IInv, Sound, NEW e \in InList, DeleteEntry(e), torn' = {}
  PROVE  Sound'
PROOF
<1> DEFINE before == prev[e]
           after == next[e]
<1>0. /\ Spans(entryFn, Functions, fnFirst, fnLast)
      /\ HeldFn /\ HeadInv /\ TextInv /\ HeldPaths
  BY DEF Sound, PathsInv
<1>1. PICK s : IsText(s)
  BY <1>0 DEF TextInv
<1>2. IsRun(next, prev, {e}, e, e) /\ next[e] # e /\ prev[e] # e
  BY <1>1, NotBesideItself DEF IsRun
<1>3. Parted(prev', before, after, e, e)
  BY <1>2, DeleteParted
<1>4. PICK i : Drops(prev', s, i) /\ s[i] = e
  BY <1>1, <1>3, DeletePath
<1>5. NewText(prev', Cut(s, i, i)) /\ NewHeldPaths(prev')
  BY <1>0, <1>4, DropsLemma
<1>6. /\ InList' = InList \ {e} /\ held' = held
      /\ \A h \in held : next'[h] = next[h]
  BY <1>4 DEF Drops
<1>7. /\ entryFn' = [entryFn EXCEPT ![e] = NULL]
      /\ entrySs' = [entrySs EXCEPT ![e] = NULL]
      /\ fnFirst' = Move(fnFirst, entryFn[e], e, after)
      /\ fnLast' = Move(fnLast, entryFn[e], e, before)
      /\ ssFirst' = Move(ssFirst, entrySs[e], e, after)
      /\ ssLast' = Move(ssLast, entrySs[e], e, before)
      /\ CanDrop(e, entrySs, entrySs[e], ssFirst, ssLast)
      /\ strayed' = strayed
  BY DEF DeleteEntry
<1>8. /\ InList \subseteq Entries /\ held \subseteq Entries /\ NULL \notin Entries
      /\ InList \cap held = {} /\ e \in Entries
      /\ after # NULL => after \in InList
      /\ \A h \in held : next[h] # NULL => next[h] \in held
  BY LiveLemma
<1>9. \A h \in Entries : h # e => entryFn'[h] = entryFn[h] /\ entrySs'[h] = entrySs[h]
  <2>1. /\ entryFn \in [Entries -> Ref(Functions)]
        /\ entrySs \in [Entries -> Ref(SubSections)]
    BY DEF IInv, TypeOK
  <2> QED
    BY ONLY <2>1, <1>7
<1>10. /\ NULL \notin Functions /\ NULL \notin SubSections
       /\ fnFirst \in [Functions -> Ref(Entries)] /\ fnLast \in [Functions -> Ref(Entries)]
       /\ ssFirst \in [SubSections -> Ref(Entries)] /\ ssLast \in [SubSections -> Ref(Entries)]
       /\ entryFn[e] \in Functions \cup {NULL}
       /\ entrySs[e] \in SubSections \cup {NULL}
       /\ {e} \in SUBSET InList
  BY <1>8, BoundsTypes
<1> HIDE DEF before, after
<1>11. Spans(entryFn, Functions, fnFirst, fnLast)'
  <2>1. Narrows(entryFn, Functions, {e}, e, e, before, after,
                fnFirst, fnLast, fnFirst', fnLast')
    BY ONLY <1>7, <1>10, IInv, e \in InList, DropNarrows DEF before, after
  <2>2. \A o \in Functions : Mine(entryFn, o) \ {e} # {} =>
          IsRun(next', prev', Mine(entryFn, o) \ {e}, fnFirst'[o], fnLast'[o])
    BY ONLY <1>0, <1>1, <1>2, <1>3, <1>10, <2>1, IInv, PartSpans DEF before, after
  <2>3. \A o \in Functions : Mine(entryFn, o)' = Mine(entryFn, o) \ {e}
    BY ONLY <1>6, <1>8, <1>9 DEF Mine
  <2> QED
    BY ONLY <2>2, <2>3 DEF Spans
<1>12. HeldFn'
  <2>1. \A h \in held : h \in Entries /\ h # e
    BY <1>8
  <2>2. \A h \in held : next[h] # NULL => next[h] \in Entries /\ next[h] # e
    BY <1>8, <2>1
  <2> QED
    BY <1>0, <1>6, <1>9, <2>1, <2>2 DEF HeldFn
<1>13. ASSUME ~strayed'
       PROVE  SubSectionsInv'
  <2>1. Spans(entrySs, SubSections, ssFirst, ssLast) /\ HeldSs
    BY <1>7, <1>13 DEF Sound, SubSectionsInv
  <2>2. Narrows(entrySs, SubSections, {e}, e, e, before, after,
                ssFirst, ssLast, ssFirst', ssLast')
    BY ONLY <1>7, <1>10, IInv, e \in InList, DropNarrows DEF before, after
  <2>3. \A o \in SubSections : Mine(entrySs, o) \ {e} # {} =>
          IsRun(next', prev', Mine(entrySs, o) \ {e}, ssFirst'[o], ssLast'[o])
    BY ONLY <2>1, <2>2, <1>1, <1>2, <1>3, <1>10, IInv, PartSpans DEF before, after
  <2>4. \A o \in SubSections : Mine(entrySs, o)' = Mine(entrySs, o) \ {e}
    BY ONLY <1>6, <1>8, <1>9 DEF Mine
  <2>5. Spans(entrySs, SubSections, ssFirst, ssLast)'
    BY ONLY <2>3, <2>4 DEF Spans
  <2>6. HeldSs'
    <3>1. \A h \in held : h \in Entries /\ h # e
      BY <1>8
    <3>2. \A h \in held : next[h] # NULL => next[h] \in Entries /\ next[h] # e
      BY <1>8, <3>1
    <3> QED
      BY <2>1, <1>6, <1>9, <3>1, <3>2 DEF HeldSs
  <2> QED
    BY <2>5, <2>6 DEF SubSectionsInv
<1>14. NewHead(prev')
  <2>1. /\ e = ssFirst[FirstSubSection] =>
             after \in InList \ {e} /\ entrySs[after] = FirstSubSection
        /\ \A h \in {e} \ {e} : prev[h] \in {e}
    BY <1>0, DeleteHead DEF after
  <2>3. \A h \in InList' : entrySs'[h] = entrySs[h]
    BY <1>6, <1>8, <1>9
  <2>4. {e} \in SUBSET InList /\ e \in {e}
    OBVIOUS
  <2> QED
    BY ONLY <1>0, <1>3, <1>6, <1>7, <2>1, <2>3, <2>4, IInv, PartedHead DEF before, after
<1>15. HeadInv' /\ TextInv' /\ HeldPaths'
  BY ONLY <1>5, <1>14, Unmended
<1>16. PathsInv'
  BY <1>11, <1>12, <1>15 DEF PathsInv
<1> QED
  BY <1>13, <1>16 DEF Sound

\* So does creating an entry.
LEMMA CreateInv ==
  ASSUME IInv, Sound, NEW e \in Entries, NEW f \in Functions, Create(e, f)
  PROVE  Sound'
PROOF
<1>0. /\ Spans(entryFn, Functions, fnFirst, fnLast)
      /\ HeldFn /\ HeadInv /\ TextInv /\ HeldPaths
  BY DEF Sound, PathsInv
<1>1. PICK s : IsText(s)
  BY <1>0 DEF TextInv
<1>2. IsText(s)' /\ HeldPaths' /\ InList' = InList /\ e \notin InList \cup held
  BY <1>0, <1>1, CreatePath
<1>3. /\ next' = [next EXCEPT ![e] = NULL] /\ prev' = [prev EXCEPT ![e] = NULL]
      /\ entryFn' = [entryFn EXCEPT ![e] = f]
      /\ entrySs' = [entrySs EXCEPT ![e] = FunctionSS[f]]
      /\ held' = held \cup {e} /\ strayed' = strayed
      /\ fnFirst' = fnFirst /\ fnLast' = fnLast /\ ssFirst' = ssFirst /\ ssLast' = ssLast
  BY DEF Create, bounds, past
<1>4. /\ next \in [Entries -> Ref(Entries)] /\ prev \in [Entries -> Ref(Entries)]
      /\ entryFn \in [Entries -> Ref(Functions)]
      /\ entrySs \in [Entries -> Ref(SubSections)]
  BY DEF IInv, TypeOK
<1>5. \A h \in Entries : h # e => /\ next'[h] = next[h] /\ prev'[h] = prev[h]
                                  /\ entryFn'[h] = entryFn[h] /\ entrySs'[h] = entrySs[h]
  BY <1>3, <1>4
<1>6. InList \subseteq Entries /\ held \subseteq Entries
      /\ \A h \in held : next[h] # NULL => next[h] \in held
  BY LiveLemma
<1>7. \A M, a, b : M \subseteq InList /\ IsRun(next, prev, M, a, b)
        => IsRun(next', prev', M, a, b)
  BY <1>2, <1>5, <1>6 DEF IsRun
<1>8. HeldFn'
  <2>1. \A h \in held : /\ entryFn'[h] = entryFn[h] /\ next'[h] = next[h]
                        /\ next[h] # NULL => entryFn'[next[h]] = entryFn[next[h]]
    BY <1>2, <1>5, <1>6
  <2>2. entryFn'[e] # NULL /\ next'[e] = NULL
    BY <1>3, <1>4, NullAssumption
  <2> QED
    BY <1>0, <1>3, <2>1, <2>2 DEF HeldFn
<1>9. Spans(entryFn, Functions, fnFirst, fnLast)'
  <2>1. \A o \in Functions : Mine(entryFn, o)' = Mine(entryFn, o)
    BY <1>2, <1>5, <1>6 DEF Mine
  <2>2. \A o : Mine(entryFn, o) \subseteq InList
    BY DEF Mine
  <2>3. \A o \in Functions : Mine(entryFn, o) # {} =>
          IsRun(next', prev', Mine(entryFn, o), fnFirst[o], fnLast[o])
    BY <1>0, <1>7, <2>2 DEF Spans
  <2> QED
    BY <2>1, <2>3, <1>3 DEF Spans
<1>10. ASSUME ~strayed'
       PROVE  SubSectionsInv'
  <2>0. Spans(entrySs, SubSections, ssFirst, ssLast) /\ HeldSs
    BY <1>3, <1>10 DEF Sound, SubSectionsInv
  <2>1. \A o \in SubSections : Mine(entrySs, o)' = Mine(entrySs, o)
    BY <1>2, <1>5, <1>6 DEF Mine
  <2>2. \A o : Mine(entrySs, o) \subseteq InList
    BY DEF Mine
  <2>3. \A o \in SubSections : Mine(entrySs, o) # {} =>
          IsRun(next', prev', Mine(entrySs, o), ssFirst[o], ssLast[o])
    BY <2>0, <1>7, <2>2 DEF Spans
  <2>4. Spans(entrySs, SubSections, ssFirst, ssLast)'
    BY <2>1, <2>3, <1>3 DEF Spans
  <2>5. \A h \in held : /\ entrySs'[h] = entrySs[h] /\ next'[h] = next[h]
                        /\ next[h] # NULL => entrySs'[next[h]] = entrySs[next[h]]
    BY <1>2, <1>5, <1>6
  <2>6. next'[e] = NULL
    BY <1>3, <1>4
  <2>7. HeldSs'
    BY <2>0, <2>5, <2>6, <1>3 DEF HeldSs
  <2> QED
    BY <2>4, <2>7 DEF SubSectionsInv
<1>11. HeadInv'
  <2>1. Mine(entrySs, FirstSubSection)' = Mine(entrySs, FirstSubSection)
    BY <1>2, <1>5, <1>6 DEF Mine
  <2>2. \A h \in Mine(entrySs, FirstSubSection) : prev'[h] = prev[h]
    BY <1>2, <1>5, <1>6 DEF Mine
  <2> QED
    BY <1>0, <1>2, <1>3, <2>1, <2>2 DEF HeadInv
<1>12. TextInv'
  BY <1>2 DEF TextInv
<1>13. PathsInv'
  BY <1>2, <1>8, <1>9, <1>11, <1>12 DEF PathsInv
<1> QED
  BY <1>10, <1>13 DEF Sound

-----------------------------------------------------------------------------
(* The invariant.                                                          *)

\* An owner of the parsed section is one run, from its first to its last entry.
LEMMA ParsedRun ==
  ASSUME NEW l \in Layouts, NEW owner \in {l.fn, l.ss}, Contiguous(l.list, owner),
         NEW o, o # NULL, NEW e \in Entries, owner[e] = o
  PROVE  IsRun(Neighbour(l, 1), Neighbour(l, -1), {x \in Entries : owner[x] = o},
               FirstOf(l, owner, o), LastOf(l, owner, o))
PROOF
<1> DEFINE n == Len(l.list)
           M == {x \in Entries : owner[x] = o}
<1>1. n \in Nat /\ NULL \notin Entries
  BY LayoutsAssumption, NullAssumption DEF IsLayout
<1>2. PICK a, b \in 1 .. n :
        /\ FirstOf(l, owner, o) = l.list[a] /\ owner[l.list[a]] = o
        /\ LastOf(l, owner, o) = l.list[b] /\ owner[l.list[b]] = o
        /\ \A i \in 1 .. n : owner[l.list[i]] = o => a <= i /\ i <= b
  BY OwnedLemma, SMTT(60)
<1>3. \A i \in 1 .. n : l.list[i] \in Entries
  BY PlaceLemma
<1>4. \A x \in M : \E i \in 1 .. n : l.list[i] = x /\ owner[l.list[i]] = o
  <2> SUFFICES ASSUME NEW x \in M PROVE \E i \in 1 .. n : l.list[i] = x
    OBVIOUS
  <2>1. l.ss[x] # NULL
    BY LayoutsAssumption DEF IsLayout
  <2> QED
    BY <2>1, LayoutsAssumption DEF IsLayout
<1>5. \A i \in 1 .. n : i >= a /\ i <= b => l.list[i] \in M
  <2> SUFFICES ASSUME NEW i \in 1 .. n, i >= a, i <= b PROVE owner[l.list[i]] = o
    BY <1>3
  <2>1. CASE i = a \/ i = b
    BY <2>1, <1>2
  <2>2. CASE a < i /\ i < b
    <3>1. owner[l.list[a]] = owner[l.list[b]] /\ owner[l.list[a]] # NULL
      BY <1>2
    <3>2. owner[l.list[i]] = owner[l.list[a]]
      BY ONLY <2>2, <3>1, Contiguous(l.list, owner), i \in 1 .. n, a \in 1 .. n, b \in 1 .. n
         DEF Contiguous
    <3> QED
      BY <3>2, <1>2
  <2> QED
    BY <2>1, <2>2, <1>1
<1>6. \A x \in M \ {l.list[b]} : Neighbour(l, 1)[x] \in M
  <2> SUFFICES ASSUME NEW x \in M, x # l.list[b] PROVE Neighbour(l, 1)[x] \in M
    OBVIOUS
  <2>1. PICK i \in 1 .. n : l.list[i] = x /\ owner[l.list[i]] = o
    BY <1>4
  <2>2. a <= i /\ i <= b /\ i # b
    BY <1>2, <2>1
  <2>3. 1 + i \in 1 .. n /\ 1 + i >= a /\ 1 + i <= b
    BY <1>1, <2>2
  <2>4. Neighbour(l, 1)[x] = At(l, 1 + i)
    BY <2>1, NeighbourLemma
  <2>5. At(l, 1 + i) = l.list[1 + i]
    BY <2>3 DEF At
  <2> QED
    BY ONLY <2>3, <2>4, <2>5, <1>5
<1>7. \A x \in M \ {l.list[a]} : Neighbour(l, -1)[x] \in M
  <2> SUFFICES ASSUME NEW x \in M, x # l.list[a] PROVE Neighbour(l, -1)[x] \in M
    OBVIOUS
  <2>1. PICK i \in 1 .. n : l.list[i] = x /\ owner[l.list[i]] = o
    BY <1>4
  <2>2. a <= i /\ i <= b /\ i # a
    BY <1>2, <2>1
  <2>3. -1 + i \in 1 .. n /\ -1 + i >= a /\ -1 + i <= b
    BY <1>1, <2>2
  <2>4. Neighbour(l, -1)[x] = At(l, -1 + i)
    BY <2>1, NeighbourLemma
  <2>5. At(l, -1 + i) = l.list[-1 + i]
    BY <2>3 DEF At
  <2> QED
    BY ONLY <2>3, <2>4, <2>5, <1>5
<1>8. Neighbour(l, 1)[l.list[b]] \notin M
  <2>1. Neighbour(l, 1)[l.list[b]] = At(l, 1 + b)
    BY NeighbourLemma
  <2>2. 1 + b \in 1 .. n => owner[l.list[1 + b]] # o
    BY <1>1, <1>2
  <2> QED
    BY <1>1, <2>1, <2>2 DEF At
<1>9. Neighbour(l, -1)[l.list[a]] \notin M
  <2>1. Neighbour(l, -1)[l.list[a]] = At(l, -1 + a)
    BY NeighbourLemma
  <2>2. -1 + a \in 1 .. n => owner[l.list[-1 + a]] # o
    BY <1>1, <1>2
  <2> QED
    BY <1>1, <2>1, <2>2 DEF At
<1>10. {l.list[a], l.list[b]} \subseteq M
  BY <1>2, <1>3
<1> QED
  BY ONLY <1>2, <1>6, <1>7, <1>8, <1>9, <1>10 DEF IsRun

\* The parsed list is a path.
LEMMA ParsedPath ==
  ASSUME NEW l \in Layouts
  PROVE  /\ IsPath(Neighbour(l, 1), Neighbour(l, -1), l.list)
         /\ Range(l.list) = {e \in Entries : l.ss[e] # NULL}
PROOF
<1>1. l.list \in Seq(Entries) /\ Len(l.list) \in Nat
  BY LayoutsAssumption DEF IsLayout
<1>2. ASSUME NEW k \in 1 .. Len(l.list)
      PROVE  /\ Neighbour(l, 1)[l.list[k]] = Place(l.list, k + 1)
             /\ Neighbour(l, -1)[l.list[k]] = Place(l.list, k - 1)
  <2>1. /\ Neighbour(l, 1)[l.list[k]] = At(l, 1 + k)
        /\ Neighbour(l, -1)[l.list[k]] = At(l, -1 + k)
    BY NeighbourLemma
  <2>2. k + 1 = 1 + k /\ k - 1 = -1 + k
    BY <1>1
  <2> QED
    BY <2>1, <2>2 DEF At, Place
<1>3. IsPath(Neighbour(l, 1), Neighbour(l, -1), l.list)
  BY <1>1, <1>2, PathPlaces
<1>4. \A e \in Entries : e \in Range(l.list) <=> l.ss[e] # NULL
  <2> TAKE e \in Entries
  <2>1. (\E i \in 1 .. Len(l.list) : l.list[i] = e) <=> l.ss[e] # NULL
    BY LayoutsAssumption DEF IsLayout
  <2>2. e \in Range(l.list) <=> \E i \in 1 .. Len(l.list) : l.list[i] = e
    BY <1>1, RangeLemma
  <2> QED
    BY <2>1, <2>2
<1>5. Range(l.list) \subseteq Entries
  BY <1>1, RangeLemma
<1> QED
  BY <1>3, <1>4, <1>5

\* The parsed section satisfies the invariant.
LEMMA InitJInv ==
  ASSUME Init
  PROVE  JInv
PROOF
<1>1. PICK l \in Layouts :
        /\ next = Neighbour(l, 1) /\ prev = Neighbour(l, -1)
        /\ fnFirst = [f \in Functions |-> FirstOf(l, l.fn, f)]
        /\ fnLast = [f \in Functions |-> LastOf(l, l.fn, f)]
        /\ ssFirst = [s \in SubSections |-> FirstOf(l, l.ss, s)]
        /\ ssLast = [s \in SubSections |-> LastOf(l, l.ss, s)]
        /\ entryFn = l.fn /\ entrySs = l.ss /\ held = {}
  BY DEF Init
<1>2. IsLayout(l) /\ Len(l.list) \in Nat
  BY LayoutsAssumption DEF IsLayout
<1>3. InList = {e \in Entries : l.ss[e] # NULL}
  BY <1>1 DEF InList
<1>4. IsText(l.list)
  BY <1>1, <1>3, ParsedPath DEF IsText
<1>5. HeldFn /\ HeldSs /\ HeldPaths /\ TextInv
  BY <1>1, <1>4 DEF HeldFn, HeldSs, HeldPaths, TextInv
<1>6. NULL \notin Functions /\ NULL \notin SubSections /\ FirstSubSection \in SubSections
  BY NullAssumption, FirstSubSectionAssumption
<1>7. ASSUME NEW owner \in {l.fn, l.ss}, NEW o, o # NULL
      PROVE  Mine(owner, o) = {e \in Entries : owner[e] = o}
  <2>1. \A e \in Entries : owner[e] = o => l.ss[e] # NULL
    BY <1>2, <1>7 DEF IsLayout
  <2> QED
    BY <2>1, <1>3 DEF Mine
<1>8. /\ Spans(entryFn, Functions, fnFirst, fnLast)
      /\ Spans(entrySs, SubSections, ssFirst, ssLast)
  <2>1. Contiguous(l.list, l.fn) /\ Contiguous(l.list, l.ss)
    BY <1>2 DEF IsLayout
  <2>2. \A f \in Functions : Mine(l.fn, f) # {} =>
          IsRun(next, prev, Mine(l.fn, f), FirstOf(l, l.fn, f), LastOf(l, l.fn, f))
    <3> SUFFICES ASSUME NEW f \in Functions, Mine(l.fn, f) # {}
                 PROVE  IsRun(next, prev, Mine(l.fn, f),
                              FirstOf(l, l.fn, f), LastOf(l, l.fn, f))
      OBVIOUS
    <3>1. f # NULL /\ Mine(l.fn, f) = {e \in Entries : l.fn[e] = f}
      BY <1>6, <1>7
    <3>2. PICK e \in Entries : l.fn[e] = f
      BY <3>1
    <3> QED
      BY <1>1, <2>1, <3>1, <3>2, ParsedRun
  <2>3. \A s \in SubSections : Mine(l.ss, s) # {} =>
          IsRun(next, prev, Mine(l.ss, s), FirstOf(l, l.ss, s), LastOf(l, l.ss, s))
    <3> SUFFICES ASSUME NEW s \in SubSections, Mine(l.ss, s) # {}
                 PROVE  IsRun(next, prev, Mine(l.ss, s),
                              FirstOf(l, l.ss, s), LastOf(l, l.ss, s))
      OBVIOUS
    <3>1. s # NULL /\ Mine(l.ss, s) = {e \in Entries : l.ss[e] = s}
      BY <1>6, <1>7
    <3>2. PICK e \in Entries : l.ss[e] = s
      BY <3>1
    <3> QED
      BY <1>1, <2>1, <3>1, <3>2, ParsedRun
  <2> QED
    BY <2>2, <2>3, <1>1 DEF Spans
<1>9. HeadInv
  <2> DEFINE o == FirstSubSection
  <2>1. ssFirst[o] = FirstOf(l, l.ss, o)
    BY <1>1, <1>6
  <2>2. CASE InList = {}
    <3>1. \A e \in Entries : l.ss[e] # o
      BY <2>2, <1>3, <1>6
    <3>2. FirstOf(l, l.ss, o) = NULL
      BY <3>1 DEF FirstOf
    <3> QED
      BY <2>1, <2>2, <3>2 DEF HeadInv
  <2>3. CASE InList # {}
    <3>1. l.list # <<>> /\ 1 \in 1 .. Len(l.list)
      <4>1. PICK e \in Entries : l.ss[e] # NULL
        BY <2>3, <1>3
      <4>2. PICK i \in 1 .. Len(l.list) : l.list[i] = e
        BY <4>1, <1>2 DEF IsLayout
      <4> QED
        BY <4>2, <1>2
    <3>2. l.list[1] \in Entries /\ l.ss[l.list[1]] = o
      BY <3>1, <1>2, PlaceLemma DEF IsLayout
    <3>3. PICK a \in 1 .. Len(l.list) :
            /\ FirstOf(l, l.ss, o) = l.list[a] /\ l.ss[l.list[a]] = o
            /\ \A i \in 1 .. Len(l.list) : l.ss[l.list[i]] = o => a <= i
      BY <3>2, <1>6, OwnedLemma
    <3>4. a = 1
      BY <3>1, <3>2, <3>3
    <3>5. prev[l.list[1]] = NULL
      BY <3>1, <1>4, PathLinks DEF IsText
    <3>6. l.list[1] \in Mine(l.ss, o)
      BY <3>2, <1>6, <1>7
    <3> QED
      BY <2>1, <2>3, <3>3, <3>4, <3>5, <3>6, <1>1 DEF HeadInv
  <2> QED
    BY <2>2, <2>3
<1> QED
  BY <1>5, <1>8, <1>9 DEF JInv, Sound, PathsInv, SubSectionsInv

\* A step that changes none of it keeps it.
LEMMA SameSound ==
  ASSUME Sound, UNCHANGED <<links, bounds, maps, held, past>>
  PROVE  Sound'
PROOF
<1>1. PathsInv'
  BY DEF Sound, PathsInv, Spans, Mine, HeldFn, HeadInv, TextInv, IsText, HeldPaths,
         IsHeldPath, InList, links, bounds, maps
<1>2. ASSUME ~strayed'
      PROVE  SubSectionsInv'
  <2>1. SubSectionsInv
    BY <1>2 DEF Sound, past
  <2> QED
    BY <2>1 DEF SubSectionsInv, Spans, Mine, HeldSs, InList, links, bounds, maps
<1> QED
  BY <1>1, <1>2 DEF Sound

\* Every step preserves it.
LEMMA NextJInv == Core /\ JInv /\ [Next]_vars => JInv'
PROOF
<1> SUFFICES ASSUME Core, JInv, [Next]_vars, torn' = {} PROVE Sound'
  BY DEF JInv
<1>1. CASE Next
  <2>0. IInv /\ Sound
    BY <1>1, MutualLemma DEF Next, JInv
  <2>1. CASE PassCreate
    BY <2>0, <2>1, CreateInv, FreshAssumption DEF PassCreate
  <2>2. CASE PassLinkBefore
    BY <2>0, <2>2, LinkBeforeInv DEF PassLinkBefore
  <2>3. CASE PassLinkAfter
    BY <2>0, <2>3, LinkAfterInv DEF PassLinkAfter
  <2>4. CASE PassUnlink
    BY <2>0, <2>4, UnlinkInv DEF PassUnlink
  <2>5. CASE PassDelete
    BY <2>0, <2>5, DeleteInv DEF PassDelete
  <2>6. CASE PassDeleteAborts
    <3>1. UNCHANGED <<links, bounds, maps, held, past>>
      BY <2>6 DEF PassDeleteAborts, DeleteEntryAborts
    <3> QED
      BY <2>0, <3>1, SameSound
  <2> QED
    BY <1>1, <2>1, <2>2, <2>3, <2>4, <2>5, <2>6 DEF Next
<1>2. CASE UNCHANGED vars
  <2>1. UNCHANGED <<links, bounds, maps, held, past>>
    BY <1>2 DEF vars
  <2>2. torn = {}
    BY <2>1 DEF past
  <2> QED
    BY <2>1, <2>2, SameSound DEF JInv
<1> QED
  BY <1>1, <1>2

\* The inductive invariant: for every section, whatever the passes do until it
\* is torn, the section and the held chains are paths, and every function is the
\* run between its bounds; so is every subsection, until an entry has strayed.
THEOREM PathsTheorem == Spec => [](Core /\ JInv)
PROOF
<1>1. Init => Core /\ JInv
  BY InitLemma, InitJInv
<1>2. Core /\ JInv /\ [Next]_vars => Core' /\ JInv'
  BY NextLemma, NextJInv
<1> QED
  BY <1>1, <1>2, PTL DEF Spec

-----------------------------------------------------------------------------
(* The ranges.                                                             *)

\* The walk from the one entry of a path that nothing leads to is the path.
LEMMA HeadWalk ==
  ASSUME NEW nxt, NEW prv, NEW s, IsPath(nxt, prv, s), NEW h,
         s = <<>> => h = NULL,
         s # <<>> => h \in Range(s) /\ prv[h] = NULL
  PROVE  Walk(nxt, h) = s
PROOF
<1>1. CASE s = <<>>
  BY <1>1, WalkLemma
<1>2. CASE s # <<>>
  <2>1. s \in Seq(Entries)
    BY DEF IsPath
  <2>2. PICK k \in 1 .. Len(s) : s[k] = h
    BY <1>2, <2>1, RangeLemma
  <2>3. k > 1 => prv[h] = s[k - 1] /\ k - 1 \in 1 .. Len(s)
    BY <2>1, <2>2, PathLinks
  <2>4. k > 1 => s[k - 1] # NULL
    BY <2>3, PathLinks
  <2>5. h = s[1]
    BY <1>2, <2>2, <2>3, <2>4
  <2> QED
    BY <1>2, <2>5, WalkLemma
<1> QED
  BY <1>1, <1>2

\* Text is the path of the section.
LEMMA TextLemma ==
  ASSUME NEW nxt, NEW prv, NEW T, NEW h, NEW s, IsPath(nxt, prv, s), Range(s) = T,
         IF T = {} THEN h = NULL ELSE h \in T /\ prv[h] = NULL
  PROVE  Walk(nxt, h) = s
PROOF
<1>1. s = <<>> => T = {}
  BY DEF Range
<1>2. s # <<>> => T # {}
  BY SomeEntry
<1> QED
  BY <1>1, <1>2, HeadWalk

\* The walk of the section visits the path of its entries,
LEMMA TextIs ==
  ASSUME HeadInv, NEW s, IsText(s)
  PROVE  Text = s
PROOF
<1>1. IF InList = {} THEN ssFirst[FirstSubSection] = NULL
      ELSE ssFirst[FirstSubSection] \in InList /\ prev[ssFirst[FirstSubSection]] = NULL
  BY DEF HeadInv, Mine
<1> QED
  BY <1>1, TextLemma DEF IsText, Text

\* and so it does after a step, whose prev_ pv2 may be mended.
LEMMA TextIsNext ==
  ASSUME NEW pv2, NewHead(pv2), NEW s, NewText(pv2, s)
  PROVE  Text' = s
PROOF
<1>1. IF InList' = {} THEN ssFirst'[FirstSubSection] = NULL
      ELSE ssFirst'[FirstSubSection] \in InList' /\ pv2[ssFirst'[FirstSubSection]] = NULL
  BY DEF NewHead
<1> QED
  BY <1>1, TextLemma DEF NewText, Text

\* The entries of a run are those between its ends in the text.
LEMMA BracketsLemma ==
  ASSUME IInv, NEW s, IsText(s), Text = s, NEW owner, NEW o, NEW first, NEW last,
         Mine(owner, o) # {} => IsRun(next, prev, Mine(owner, o), first[o], last[o])
  PROVE  Brackets(owner, o, first, last)
PROOF
<1> DEFINE M == Mine(owner, o)
<1>1. CASE M = {}
  BY <1>1 DEF Brackets, Mine
<1>2. CASE M # {}
  <2>0. IsPath(next, prev, s) /\ Len(s) \in Nat
    BY DEF IsText, IsPath
  <2>1. M \in SUBSET InList /\ IsRun(next, prev, M, first[o], last[o])
    BY <1>2 DEF Mine
  <2>2. PICK i \in 1 .. Len(s) : \E j \in i .. Len(s) :
          s[i] = first[o] /\ s[j] = last[o] /\ M = Piece(s, i, j)
    BY <2>1, SectionRun
  <2>3. PICK j \in i .. Len(s) : s[i] = first[o] /\ s[j] = last[o] /\ M = Piece(s, i, j)
    BY <2>2
  <2>4. \A k \in 1 .. Len(s) : IndexIn(s, s[k]) = k
    <3> TAKE k \in 1 .. Len(s)
    <3>1. \A m \in 1 .. Len(s) : s[m] = s[k] => m = k
      BY <2>0, PathOnce
    <3> QED
      BY <3>1 DEF IndexIn
  <2>5. IndexIn(s, first[o]) = i /\ IndexIn(s, last[o]) = j
    BY <2>0, <2>3, <2>4
  <2>6. {IndexIn(s, e) : e \in M} = i .. j
    <3>1. \A k \in i .. j : s[k] \in M /\ IndexIn(s, s[k]) = k
      BY <2>0, <2>3, <2>4 DEF Piece
    <3>2. \A e \in M : \E k \in i .. j : e = s[k]
      BY <2>3 DEF Piece
    <3> QED
      BY <3>1, <3>2
  <2>7. {first[o], last[o]} \subseteq M
    BY <2>1 DEF IsRun
  <2> QED
    BY <1>2, <2>5, <2>6, <2>7 DEF Brackets, Mine
<1> QED
  BY <1>1, <1>2

\* Whatever the passes edit until the list is torn, the walk of a function visits
\* its entries and no other (FORALL_FUNC_ENTRY), and so does the walk of a
\* subsection until an entry has strayed (SubSection::EntryBegin).
THEOREM RangesTheorem == Spec => []RangesAreRight
PROOF
<1>1. Core /\ JInv => RangesAreRight
  <2> SUFFICES ASSUME Core, JInv, torn = {}
               PROVE  FunctionRange /\ (~strayed => SubSectionRange)
    BY DEF RangesAreRight
  <2>0. IInv /\ PathsInv /\ (~strayed => SubSectionsInv)
    BY MutualLemma DEF JInv, Sound
  <2>1. PICK s : IsText(s)
    BY <2>0 DEF PathsInv, TextInv
  <2>2. Text = s /\ Range(Text) = InList
    BY <2>0, <2>1, TextIs DEF PathsInv, IsText
  <2>3. \A f \in Functions : Brackets(entryFn, f, fnFirst, fnLast)
    BY <2>0, <2>1, <2>2, BracketsLemma DEF PathsInv, Spans
  <2>4. ~strayed => \A o \in SubSections : Brackets(entrySs, o, ssFirst, ssLast)
    BY <2>0, <2>1, <2>2, BracketsLemma DEF SubSectionsInv, Spans
  <2> QED
    BY <2>2, <2>3, <2>4 DEF FunctionRange, SubSectionRange
<1> QED
  BY <1>1, PathsTheorem, PTL

\* DeleteEntry's assertions on an owner hold of every entry but an only one.
LEMMA AbortLemma ==
  ASSUME IInv, NEW s, IsText(s), NEW e \in InList, NEW owner, NEW O, NULL \notin O,
         owner[e] \in O \cup {NULL}, NEW first, NEW last, Spans(owner, O, first, last)
  PROVE  CanDrop(e, owner, owner[e], first, last) <=> ~OnlyOne(e, owner)
PROOF
<1> DEFINE o == owner[e]
           M == Mine(owner, o)
<1>1. CASE o = NULL
  BY <1>1 DEF CanDrop, OnlyOne
<1>2. CASE o # NULL
  <2>1. o \in O /\ e \in M /\ M \in SUBSET InList
    BY <1>2 DEF Mine
  <2>2. IsRun(next, prev, M, first[o], last[o]) /\ NULL \notin M
    BY <2>1, LiveLemma DEF Spans, Mine
  <2>3. OnlyOne(e, owner) => first[o] = last[o]
    BY <2>2 DEF OnlyOne, IsRun
  <2>4. ASSUME first[o] = last[o]
        PROVE  OnlyOne(e, owner)
    <3>1. first[o] \in M /\ first[o] \in InList
      BY <2>1, <2>2 DEF IsRun
    <3>2. IsRun(next, prev, {first[o]}, first[o], first[o]) /\ {first[o]} \in SUBSET InList
      BY <3>1, NotBesideItself
    <3>3. M \subseteq {first[o]}
      <4>1. first[o] \in {first[o]} /\ last[o] \in {first[o]}
        BY <2>4
      <4>2. M \in SUBSET InList /\ IsRun(next, prev, M, first[o], last[o])
            /\ first[o] \in M /\ last[o] \in M
        BY <2>1, <2>2 DEF IsRun
      <4> HIDE DEF M
      <4> QED
        BY ONLY <4>1, <4>2, <3>2, IInv, IsText(s), WithinLemma
    <3> QED
      BY <1>2, <2>1, <3>3 DEF OnlyOne
  <2>5. ASSUME first[o] # last[o]
        PROVE  CanDrop(e, owner, o, first, last)
    <3>1. first[o] = e => next[e] # NULL /\ owner[next[e]] = o
      BY <2>1, <2>2, <2>5 DEF IsRun, Mine
    <3>2. last[o] = e => prev[e] # NULL /\ owner[prev[e]] = o
      BY <2>1, <2>2, <2>5 DEF IsRun, Mine
    <3> QED
      BY <2>5, <3>1, <3>2 DEF CanDrop
  <2>6. CanDrop(e, owner, o, first, last) => first[o] # last[o]
    BY <1>2 DEF CanDrop
  <2> QED
    BY <2>3, <2>4, <2>5, <2>6
<1> QED
  BY <1>1, <1>2

\* Until the list is torn, DeleteEntry's assertions fail exactly for the only
\* entry that a function has, or, until an entry has strayed, a subsection: the
\* tests on the neighbours' owners never fail alone.
THEOREM AbortTheorem == Spec => []AbortOnlyWhenLast
PROOF
<1>1. Core /\ JInv => AbortOnlyWhenLast
  <2> SUFFICES ASSUME Core, JInv, torn = {}, NEW e \in InList
               PROVE  /\ CanDrop(e, entryFn, entryFn[e], fnFirst, fnLast)
                           <=> ~OnlyOne(e, entryFn)
                      /\ ~strayed =>
                           (CanDrop(e, entrySs, entrySs[e], ssFirst, ssLast)
                              <=> ~OnlyOne(e, entrySs))
    BY DEF AbortOnlyWhenLast
  <2>0. IInv /\ PathsInv /\ (~strayed => SubSectionsInv)
    BY MutualLemma DEF JInv, Sound
  <2>1. PICK s : IsText(s)
    BY <2>0 DEF PathsInv, TextInv
  <2>2. /\ NULL \notin Functions /\ NULL \notin SubSections
        /\ entryFn[e] \in Functions \cup {NULL}
        /\ entrySs[e] \in SubSections \cup {NULL}
    BY <2>0, LiveLemma, BoundsTypes
  <2>3. CanDrop(e, entryFn, entryFn[e], fnFirst, fnLast) <=> ~OnlyOne(e, entryFn)
    BY <2>0, <2>1, <2>2, AbortLemma DEF PathsInv
  <2>4. ~strayed => (CanDrop(e, entrySs, entrySs[e], ssFirst, ssLast)
                       <=> ~OnlyOne(e, entrySs))
    BY <2>0, <2>1, <2>2, AbortLemma DEF SubSectionsInv
  <2> QED
    BY <2>3, <2>4
<1> QED
  BY <1>1, PathsTheorem, PTL

-----------------------------------------------------------------------------
(* The pointer structure implements the sequence of entries.               *)

\* The walks from the heads in H are the paths of H.
LEMMA ChainSet ==
  ASSUME NEW nxt, NEW prv, NEW H,
         \A h \in H : \E p : IsPath(nxt, prv, p) /\ p # <<>> /\ Range(p) \subseteq H
                             /\ h \in Range(p),
         NEW q
  PROVE  q \in {Walk(nxt, e) : e \in {h \in H : prv[h] = NULL}}
           <=> IsPath(nxt, prv, q) /\ q # <<>> /\ Range(q) \subseteq H
PROOF
<1>1. ASSUME NEW e \in H, prv[e] = NULL
      PROVE  /\ IsPath(nxt, prv, Walk(nxt, e)) /\ Walk(nxt, e) # <<>>
             /\ Range(Walk(nxt, e)) \subseteq H
  <2>1. PICK p : IsPath(nxt, prv, p) /\ p # <<>> /\ Range(p) \subseteq H /\ e \in Range(p)
    OBVIOUS
  <2>2. Walk(nxt, e) = p
    BY <1>1, <2>1, HeadWalk
  <2> QED
    BY <2>1, <2>2
<1>2. ASSUME IsPath(nxt, prv, q), q # <<>>, Range(q) \subseteq H
      PROVE  q[1] \in H /\ prv[q[1]] = NULL /\ Walk(nxt, q[1]) = q
  <2>1. q[1] \in H
    BY <1>2, SomeEntry
  <2>2. prv[q[1]] = NULL
    BY <1>2 DEF IsPath
  <2>3. Walk(nxt, q[1]) = q
    BY <1>2, WalkLemma
  <2> QED
    BY <2>1, <2>2, <2>3
<1> QED
  BY <1>1, <1>2

\* The walks of the held chains are the held paths,
LEMMA ChainsAre ==
  ASSUME HeldPaths
  PROVE  \A q : q \in Chains <=> IsHeldPath(q)
PROOF
<1>1. \A h \in held : \E p : IsPath(next, prev, p) /\ p # <<>> /\ Range(p) \subseteq held
                             /\ h \in Range(p)
  BY DEF HeldPaths, IsHeldPath
<1> QED
  BY <1>1, ChainSet DEF Chains, IsHeldPath

\* and so they are after a step, whose prev_ pv2 may be mended on other entries.
LEMMA ChainsAreNext ==
  ASSUME NEW pv2, NewHeldPaths(pv2), \A h \in held' : pv2[h] = prev'[h]
  PROVE  \A q : q \in Chains' <=> NewHeldPath(pv2, q)
PROOF
<1>1. \A h \in held' : \E p : IsPath(next', pv2, p) /\ p # <<>>
                              /\ Range(p) \subseteq held' /\ h \in Range(p)
  BY DEF NewHeldPaths, NewHeldPath
<1>2. {h \in held' : prev'[h] = NULL} = {h \in held' : pv2[h] = NULL}
  OBVIOUS
<1>3. Chains' = {Walk(next', e) : e \in {h \in held' : pv2[h] = NULL}}
  BY ONLY <1>2 DEF Chains
<1>4. \A q : q \in {Walk(next', e) : e \in {h \in held' : pv2[h] = NULL}} <=>
               IsPath(next', pv2, q) /\ q # <<>> /\ Range(q) \subseteq held'
  BY ONLY <1>1, ChainSet
<1> QED
  BY ONLY <1>3, <1>4 DEF NewHeldPath

\* The same where nothing is mended.
LEMMA ListsNext ==
  ASSUME HeadInv', HeldPaths', NEW s, IsText(s)'
  PROVE  /\ Text' = s
         /\ \A q : q \in Chains' <=> IsHeldPath(q)'
PROOF
<1>1. NewHead(prev') /\ NewText(prev', s)
  BY DEF HeadInv, Mine, NewHead, IsText, NewText
<1>2. \A q : NewHeldPath(prev', q) <=> IsHeldPath(q)'
  BY DEF NewHeldPath, IsHeldPath
<1>3. NewHeldPaths(prev')
  BY <1>2 DEF NewHeldPaths, HeldPaths
<1>4. Text' = s
  BY <1>1, TextIsNext
<1>5. \A q : q \in Chains' <=> NewHeldPath(prev', q)
  BY <1>3, ChainsAreNext
<1> QED
  BY <1>2, <1>4, <1>5

\* A section is parsed into a sequence without repetition, and no chains.
LEMMA RefinedInit ==
  ASSUME Init
  PROVE  AbstractList!Init
PROOF
<1>0. torn = {} /\ HeadInv /\ TextInv
  BY InitLemma, InitJInv DEF JInv, Sound, PathsInv
<1>1. PICK s : IsText(s)
  BY <1>0 DEF TextInv
<1>2. Text = s
  BY <1>0, <1>1, TextIs
<1>3. s \in Seq(Entries)
  BY <1>1 DEF IsText, IsPath
<1>4. IsInjective(s)
  <2>1. \A i, j \in 1 .. Len(s) : s[i] = s[j] => i = j
    BY <1>1, PathOnce DEF IsText
  <2>2. DOMAIN s = 1 .. Len(s)
    BY <1>3
  <2> QED
    BY <2>1, <2>2 DEF IsInjective
<1>5. Chains = {}
  BY DEF Init, Chains
<1> QED
  BY <1>0, <1>2, <1>3, <1>4, <1>5
     DEF AbstractList!Init, AbstractList!IsInjective, IsInjective

\* Linking a chain is inserting it.
LEMMA RefinedInsert ==
  ASSUME IInv, PathsInv, HeadInv', torn = {}, torn' = {},
         NEW s, NEW i, NEW p, Inserts(s, i, p)
  PROVE  AbstractList!Insert
PROOF
<1>0. HeadInv /\ HeldPaths
  BY DEF PathsInv
<1>1. IsText(s) /\ IsHeldPath(p) /\ i \in 0 .. Len(s)
  BY DEF Inserts
<1>2. /\ IsText(Spliced(s, i, p))' /\ HeldPaths'
      /\ \A q : IsHeldPath(q)' <=> IsHeldPath(q) /\ q # p
  BY <1>0, InsertsLemma
<1>3. Text = s
  BY <1>0, <1>1, TextIs
<1>4. Text' = Spliced(s, i, p) /\ \A q : q \in Chains' <=> IsHeldPath(q)'
  BY <1>2, ListsNext
<1>5. \A q : q \in Chains <=> IsHeldPath(q)
  BY <1>0, ChainsAre
<1>6. p \in Chains /\ Chains' = Chains \ {p}
  BY <1>1, <1>2, <1>4, <1>5
<1> QED
  BY <1>1, <1>3, <1>4, <1>6 DEF AbstractList!Insert, AbstractList!With, Spliced

\* The chain's last entry, and no other of its entries, follows the anchor.
Tears(anchor, first, last) ==
  /\ next'[anchor] = last /\ next'[last] = next[anchor]
  /\ prev'[last] = anchor
  /\ next[anchor] # NULL => prev'[next[anchor]] = last
  /\ \A e \in Entries : e # last /\ e # anchor => next'[e] = next[e]
  /\ \A e \in Entries : e # last /\ e # first /\ e # next[anchor] => prev'[e] = prev[e]

\* What LinkAfter writes where it tears the list.
LEMMA TornWrites ==
  ASSUME IInv, NEW S \in SUBSET held, NEW first \in S, NEW last \in S,
         NEW anchor \in InList, LinkAfter(anchor, S, first, last),
         Relinks(entrySs[anchor], anchor, last, ssFirst)
  PROVE  Tears(anchor, first, last)
PROOF
<1> DEFINE R == Relinks(entrySs[anchor], anchor, last, ssFirst)
<1>1. /\ next' \in [Entries -> Ref(Entries)] /\ prev' \in [Entries -> Ref(Entries)]
      /\ \A e \in Entries :
           /\ next'[e] = IF e = anchor THEN (IF R THEN last ELSE first)
                         ELSE IF e = last THEN next[anchor] ELSE next[e]
           /\ prev'[e] = IF R /\ e = last THEN anchor
                         ELSE IF e = next[anchor] THEN last
                         ELSE IF e = first THEN anchor ELSE prev[e]
      /\ torn' = IF R THEN S \ {last} ELSE {}
  BY LinkAfterWrites
<1>2. R
  OBVIOUS
<1> HIDE DEF R
<1>3. /\ anchor \in Entries /\ last \in Entries /\ anchor # last /\ next[anchor] # last
      /\ next[anchor] # NULL => next[anchor] \in Entries
  BY LiveLemma
<1> QED
  BY ONLY <1>1, <1>2, <1>3 DEF Tears

\* So the section grows by that entry, and the chain is gone.
LEMMA TornPath ==
  ASSUME IInv, NEW S \in SUBSET held, NEW first \in S, NEW last \in S,
         NEW anchor \in InList, NEW s, IsText(s), next[last] = NULL,
         LinkAfter(anchor, S, first, last), torn' # {}
  PROVE  \E i \in 1 .. Len(s) : IsPath(next', prev', Spliced(s, i, <<last>>))
PROOF
<1> DEFINE pr == [prev EXCEPT ![last] = NULL]
           p == <<last>>
<1>re. Relinks(entrySs[anchor], anchor, last, ssFirst)
  BY DEF LinkAfter, Spoils
<1>1. PICK i \in 1 .. Len(s) : s[i] = anchor /\ next[anchor] = Place(s, i + 1)
  BY PlaceOf
<1>2. /\ InList \subseteq Entries /\ S \subseteq Entries /\ S \cap InList = {}
      /\ prev \in [Entries -> Ref(Entries)] /\ NULL \notin Entries
      /\ anchor \in Entries /\ last \in Entries
  BY LiveLemma
<1>3. Tears(anchor, first, last)
  BY <1>re, TornWrites
<1>4. pr[last] = NULL /\ \A e \in Entries : e # last => pr[e] = prev[e]
  BY <1>2
<1> HIDE DEF pr
<1>5. IsPath(next, prev, s) /\ s \in Seq(Entries) /\ Range(s) = InList /\ Len(s) \in Nat
  BY DEF IsText, IsPath
<1>6. \A e \in Range(s) : e \in Entries /\ e # last /\ e # first
  BY ONLY <1>2, <1>5, first \in S, last \in S
<1>7. IsPath(next, pr, s)
  <2>1. \A e \in Range(s) : next[e] = next[e] /\ pr[e] = prev[e]
    BY ONLY <1>4, <1>6
  <2> QED
    BY ONLY <1>5, <2>1, LocalLemma
<1>8. p \in Seq(Entries) /\ p # <<>> /\ Len(p) = 1 /\ p[1] = last /\ p[Len(p)] = last
  BY <1>2
<1>9. Range(p) = {last}
  BY DEF Range
<1> HIDE DEF p
<1>10. IsPath(next, pr, p)
  BY ONLY <1>4, <1>8, next[last] = NULL DEF IsPath
<1>11. i \in 0 .. Len(s) /\ Place(s, i) = anchor
  BY <1>1, <1>5 DEF Place
<1>12. i < Len(s) => s[i + 1] = next[anchor] /\ next[anchor] # NULL
  <2>1. i < Len(s) => i + 1 \in 1 .. Len(s) /\ s[i + 1] \in Entries
    BY <1>5
  <2> QED
    BY ONLY <2>1, <1>1, <1>2 DEF Place
<1>13. /\ next'[p[Len(p)]] = Place(s, i + 1)
       /\ prev'[p[1]] = Place(s, i)
       /\ i > 0 => next'[s[i]] = p[1]
       /\ i < Len(s) => prev'[s[i + 1]] = p[Len(p)]
  BY ONLY <1>1, <1>3, <1>8, <1>11, <1>12 DEF Tears
<1>14. /\ \A e \in Range(s) : e # Place(s, i) => next'[e] = next[e]
       /\ \A e \in Range(s) : e # Place(s, i + 1) => prev'[e] = pr[e]
  BY ONLY <1>1, <1>3, <1>4, <1>6, <1>11 DEF Tears
<1>15. /\ \A e \in Range(p) : e # p[Len(p)] => next'[e] = next[e]
       /\ \A e \in Range(p) : e # p[1] => prev'[e] = pr[e]
  BY ONLY <1>8, <1>9
<1>16. IsPath(next', prev', Spliced(s, i, p))
  BY ONLY <1>7, <1>8, <1>10, <1>11, <1>13, <1>14, <1>15, SplicePath
<1> QED
  BY <1>16 DEF p

\* Where LinkAfter tears the list, it inserts the last entry of a chain.
LEMMA RefinedInsertLast ==
  ASSUME IInv, PathsInv, torn = {}, NEW S \in SUBSET held, NEW first \in S, NEW last \in S,
         NEW anchor \in InList, Chain(S, first, last),
         LinkAfter(anchor, S, first, last), torn' # {}
  PROVE  AbstractList!InsertLast
PROOF
<1> DEFINE head == ssFirst[FirstSubSection]
<1>re. Relinks(entrySs[anchor], anchor, last, ssFirst)
  BY DEF LinkAfter, Spoils
<1>0. HeadInv /\ HeldPaths /\ TextInv
  BY DEF PathsInv
<1>1. PICK s : IsText(s)
  BY <1>0 DEF TextInv
<1>2. PICK p : IsHeldPath(p) /\ Range(p) = S /\ p[1] = first /\ p[Len(p)] = last
  BY <1>0, ChainLemma
<1>3. PICK i \in 1 .. Len(s) : IsPath(next', prev', Spliced(s, i, <<last>>))
  BY <1>1, TornPath DEF Chain
<1>4. Text = s
  BY <1>0, <1>1, TextIs
<1>5. Tears(anchor, first, last)
  BY <1>re, TornWrites
<1>6. /\ InList \subseteq Entries /\ held \subseteq Entries /\ held \cap InList = {}
      /\ NULL \notin Entries /\ last \in Entries /\ anchor \in InList
      /\ \A e \in InList : next[e] # NULL => prev[next[e]] = e /\ next[e] \in InList
  BY LiveLemma
<1>7. Text' = Spliced(s, i, <<last>>)
  <2>1. head \in InList /\ prev[head] = NULL
    BY <1>0 DEF HeadInv, Mine
  <2>2. prev'[head] = NULL
    BY <2>1, <1>5, <1>6 DEF Tears
  <2>3. IsPath(next, prev, s) /\ s \in Seq(Entries) /\ Range(s) = InList
    BY <1>1 DEF IsText, IsPath
  <2>4. <<last>> \in Seq(Entries) /\ Range(<<last>>) = {last} /\ i \in 0 .. Len(s)
    BY <1>6 DEF Range
  <2>5. Range(Spliced(s, i, <<last>>)) = InList \cup {last}
    <3>1. Range(Spliced(s, i, <<last>>)) = Range(s) \cup Range(<<last>>)
      BY ONLY <2>3, <2>4, SplicedRange
    <3> QED
      BY ONLY <3>1, <2>3, <2>4
  <2>6. Walk(next', head) = Spliced(s, i, <<last>>)
    <3>1. IF InList \cup {last} = {} THEN head = NULL
          ELSE head \in InList \cup {last} /\ prev'[head] = NULL
      BY <2>1, <2>2
    <3> QED
      BY ONLY <1>3, <2>5, <3>1, TextLemma
  <2>7. ssFirst' = ssFirst
    BY DEF LinkAfter
  <2> QED
    BY ONLY <2>6, <2>7 DEF Text
<1>8. held' = held \ Range(p) /\ \A e \in held' : next'[e] = next[e] /\ prev'[e] = prev[e]
  <2>1. held' = held \ S
    BY DEF LinkAfter
  <2>2. \A e \in held' : e \in Entries /\ e # last /\ e # first /\ e # anchor /\ e # next[anchor]
    BY <2>1, <1>6
  <2> QED
    BY <2>1, <2>2, <1>2, <1>5 DEF Tears
<1>9. (\A q : IsHeldPath(q)' <=> IsHeldPath(q) /\ q # p) /\ HeldPaths'
  BY <1>0, <1>2, <1>8, HeldLess
<1>10. \A q : q \in Chains <=> IsHeldPath(q)
  BY <1>0, ChainsAre
<1>11. \A q : q \in Chains' <=> IsHeldPath(q)'
  <2>1. \A q : NewHeldPath(prev', q) <=> IsHeldPath(q)'
    BY DEF NewHeldPath, IsHeldPath
  <2>2. NewHeldPaths(prev')
    BY <1>9, <2>1 DEF NewHeldPaths, HeldPaths
  <2> QED
    BY <2>1, <2>2, ChainsAreNext
<1>12. p \in Chains /\ Chains' = Chains \ {p}
  BY <1>2, <1>9, <1>10, <1>11
<1>13. \E e \in S : e # last
  BY DEF LinkAfter, Spoils
<1>14. Len(p) > 1 /\ AbstractList!Last(p) = last
  <2>1. p \in Seq(Entries) /\ p # <<>>
    BY <1>2 DEF IsHeldPath, IsPath
  <2>2. Len(p) \in Nat /\ Len(p) > 0
    BY <2>1
  <2>3. Len(p) = 1 => \A e \in S : e = last
    <3>1. \A e \in S : \E k \in 1 .. Len(p) : p[k] = e
      BY <2>1, <1>2, RangeLemma
    <3> QED
      BY ONLY <3>1, <1>2
  <2>4. Len(p) # 1
    BY ONLY <2>3, <1>13
  <2>5. AbstractList!Last(p) = p[Len(p)]
    BY DEF AbstractList!Last
  <2>6. Len(p) > 1
    <3>1. \A n \in Nat : n > 0 /\ n # 1 => n > 1
      OBVIOUS
    <3> QED
      BY ONLY <2>2, <2>4, <3>1
  <2> QED
    BY ONLY <2>5, <2>6, <1>2
<1> QED
  BY <1>3, <1>4, <1>7, <1>12, <1>14 DEF AbstractList!InsertLast, AbstractList!With, Spliced

\* Unlinking a run is taking it out, whether or not it tears the list.
LEMMA RefinedTakeOut ==
  ASSUME IInv, PathsInv, NEW S \in SUBSET InList, NEW first \in S, NEW last \in S,
         Run(S, first, last), prev[first] # NULL, Unlink(S, first, last)
  PROVE  AbstractList!TakeOut
PROOF
<1> DEFINE pv2 == UnlinkMended(first, last)
<1>0. HeadInv /\ HeldPaths /\ TextInv
  BY DEF PathsInv
<1>1. PICK s : IsText(s)
  BY <1>0 DEF TextInv
<1>2. /\ next'[last] = NULL /\ pv2[first] = NULL
      /\ Parted(pv2, prev[first], next[last], first, last)
      /\ \A e \in Entries \ torn' : pv2[e] = prev'[e]
      /\ torn' \subseteq InList \ S
  BY UnlinkParts
<1> HIDE DEF pv2
<1>3. PICK i, j : Takes(pv2, s, i, j) /\ Piece(s, i, j) = S
  BY <1>1, <1>2, UnlinkPath
<1>4. /\ i \in 1 .. Len(s) /\ j \in i .. Len(s)
      /\ InList' = InList \ S /\ held' = held \cup S
  BY <1>3 DEF Takes
<1>5. /\ NewText(pv2, Cut(s, i, j))
      /\ \A q : NewHeldPath(pv2, q) <=> IsHeldPath(q) \/ q = SubSeq(s, i, j)
      /\ NewHeldPaths(pv2)
  BY <1>0, <1>3, TakesLemma
<1>6. NewHead(pv2)
  <2>1. first # ssFirst[FirstSubSection]
    BY <1>0 DEF HeadInv
  <2>2. \A e \in S \ {first} : prev[e] \in S
    BY DEF Run
  <2>3. entrySs' = entrySs /\ ssFirst' = Move(ssFirst, entrySs[first], first, next[last])
    BY DEF Unlink, maps
  <2>4. \A e \in InList' : entrySs'[e] = entrySs[e]
    BY <2>3
  <2> QED
    BY ONLY <1>0, <1>2, <1>4, <2>1, <2>2, <2>3, <2>4, IInv, S \in SUBSET InList,
            first \in S, last \in S, PartedHead
<1>7. Text = s /\ Text' = Cut(s, i, j)
  BY <1>0, <1>1, <1>5, <1>6, TextIs, TextIsNext
<1>8. \A h \in held' : pv2[h] = prev'[h]
  <2>1. \A h \in held' : h \in Entries /\ h \notin torn'
    <3>1. held \subseteq Entries /\ InList \subseteq Entries /\ held \cap InList = {}
      BY LiveLemma
    <3> QED
      BY ONLY <3>1, <1>2, <1>4, S \in SUBSET InList
  <2> QED
    BY <2>1, <1>2
<1>9. /\ \A q : q \in Chains <=> IsHeldPath(q)
      /\ \A q : q \in Chains' <=> NewHeldPath(pv2, q)
  BY <1>0, <1>5, <1>8, ChainsAre, ChainsAreNext
<1>10. Chains' = Chains \cup {SubSeq(s, i, j)}
  BY <1>5, <1>9
<1> QED
  BY <1>4, <1>7, <1>10 DEF AbstractList!TakeOut, AbstractList!Without, Cut

\* Deleting an entry is deleting it, whether or not it tears the list.
LEMMA RefinedDelete ==
  ASSUME IInv, PathsInv, NEW e \in InList, DeleteEntry(e)
  PROVE  AbstractList!Delete
PROOF
<1> DEFINE pv2 == DeleteMended(e)
<1>0. HeadInv /\ HeldPaths /\ TextInv
  BY DEF PathsInv
<1>1. PICK s : IsText(s)
  BY <1>0 DEF TextInv
<1>2. next[e] # e /\ prev[e] # e
  BY <1>1, NotBesideItself DEF IsRun
<1>3. /\ Parted(pv2, prev[e], next[e], e, e)
      /\ \A h \in Entries \ torn' : pv2[h] = prev'[h]
      /\ torn' \subseteq InList \ {e}
  BY <1>2, DeleteParts
<1> HIDE DEF pv2
<1>4. PICK i : Drops(pv2, s, i) /\ s[i] = e
  BY <1>1, <1>3, DeletePath
<1>5. i \in 1 .. Len(s) /\ InList' = InList \ {e} /\ held' = held
  BY <1>4 DEF Drops
<1>6. /\ NewText(pv2, Cut(s, i, i))
      /\ \A q : NewHeldPath(pv2, q) <=> IsHeldPath(q)
      /\ NewHeldPaths(pv2)
  BY <1>0, <1>4, DropsLemma
<1>7. /\ InList \subseteq Entries /\ held \subseteq Entries /\ held \cap InList = {}
      /\ e \in Entries
  BY LiveLemma
<1>8. NewHead(pv2)
  <2>1. /\ e = ssFirst[FirstSubSection] =>
             next[e] \in InList \ {e} /\ entrySs[next[e]] = FirstSubSection
        /\ \A h \in {e} \ {e} : prev[h] \in {e}
    BY <1>0, DeleteHead
  <2>2. /\ ssFirst' = Move(ssFirst, entrySs[e], e, next[e])
        /\ entrySs' = [entrySs EXCEPT ![e] = NULL]
    BY DEF DeleteEntry
  <2>3. entrySs \in [Entries -> Ref(SubSections)]
    BY DEF IInv, TypeOK
  <2>4. \A h \in InList' : entrySs'[h] = entrySs[h]
    BY ONLY <1>5, <1>7, <2>2, <2>3
  <2>5. {e} \in SUBSET InList /\ e \in {e}
    OBVIOUS
  <2> QED
    BY ONLY <1>0, <1>3, <1>5, <2>1, <2>2, <2>4, <2>5, IInv, PartedHead
<1>9. Text = s /\ Text' = Cut(s, i, i)
  BY <1>0, <1>1, <1>6, <1>8, TextIs, TextIsNext
<1>10. \A h \in held' : pv2[h] = prev'[h]
  BY <1>3, <1>5, <1>7
<1>11. /\ \A q : q \in Chains <=> IsHeldPath(q)
       /\ \A q : q \in Chains' <=> NewHeldPath(pv2, q)
  BY <1>0, <1>6, <1>10, ChainsAre, ChainsAreNext
<1>12. Chains' = Chains
  BY <1>6, <1>11
<1> QED
  BY <1>5, <1>9, <1>12 DEF AbstractList!Delete, AbstractList!Without, Cut

\* Creating an entry makes a chain of one.
LEMMA RefinedCreate ==
  ASSUME IInv, PathsInv, HeadInv', torn = {}, NEW e \in Entries, NEW f \in Functions,
         Create(e, f)
  PROVE  AbstractList!Create
PROOF
<1>0. HeadInv /\ HeldPaths /\ TextInv
  BY DEF PathsInv
<1>1. PICK s : IsText(s)
  BY <1>0 DEF TextInv
<1>2. /\ IsText(s)' /\ HeldPaths' /\ e \notin InList
      /\ \A q : IsHeldPath(q)' <=> IsHeldPath(q) \/ q = <<e>>
  BY <1>0, <1>1, CreatePath
<1>3. Text = s /\ e \notin Range(s)
  BY <1>0, <1>1, <1>2, TextIs DEF IsText
<1>4. Text' = s /\ \A q : q \in Chains' <=> IsHeldPath(q)'
  BY <1>2, ListsNext
<1>5. \A q : q \in Chains <=> IsHeldPath(q)
  BY <1>0, ChainsAre
<1>6. Chains' = Chains \cup {<<e>>}
  BY <1>2, <1>4, <1>5
<1>7. torn' = torn
  BY DEF Create, past
<1> QED
  BY <1>3, <1>4, <1>6, <1>7 DEF AbstractList!Create, AbstractList!Range, Range

\* Every step of the pointer structure is a step of the sequence, or none.
LEMMA RefinedStep ==
  Core /\ JInv /\ JInv' /\ [Next]_vars => [AbstractList!Next]_(AbstractList!vars)
PROOF
<1> SUFFICES ASSUME Core, JInv, JInv', [Next]_vars
             PROVE  AbstractList!Next \/ UNCHANGED <<Text, Chains, torn>>
  BY DEF AbstractList!vars
<1>1. CASE UNCHANGED <<links, bounds, maps, held, past>>
  BY <1>1 DEF Text, Chains, Walk, links, bounds, maps, past
<1>2. CASE Next
  <2>0. torn = {} /\ IInv /\ PathsInv
    BY <1>2, MutualLemma DEF Next, JInv, Sound
  <2>1. torn' = {} => HeadInv'
    BY DEF JInv, Sound, PathsInv
  <2>2. PICK s : IsText(s)
    BY <2>0 DEF PathsInv, TextInv
  <2>3. HeldPaths
    BY <2>0 DEF PathsInv
  <2>4. CASE PassCreate
    <3>1. PICK e \in Fresh, f \in Functions : Create(e, f)
      BY <2>4 DEF PassCreate
    <3>2. e \in Entries /\ torn' = {}
      BY <3>1, <2>0, FreshAssumption DEF Create, past
    <3>3. AbstractList!Create
      BY <2>0, <2>1, <3>1, <3>2, RefinedCreate
    <3> QED
      BY <2>0, <3>3 DEF AbstractList!Next
  <2>5. CASE PassLinkBefore
    <3>1. PICK S \in SUBSET held : \E first, last \in S, anchor \in InList :
            Chain(S, first, last) /\ LinkBefore(anchor, S, first, last)
      BY <2>5 DEF PassLinkBefore
    <3>2. (\E i, p : Inserts(s, i, p)) /\ torn' = torn
      BY <2>0, <2>2, <2>3, <3>1, LinkBeforePath DEF LinkBefore
    <3>3. AbstractList!Insert
      BY <2>0, <2>1, <3>2, RefinedInsert
    <3> QED
      BY <2>0, <3>3 DEF AbstractList!Next
  <2>6. CASE PassLinkAfter
    <3>1. PICK S \in SUBSET held : \E first, last \in S, anchor \in InList :
            Chain(S, first, last) /\ LinkAfter(anchor, S, first, last)
      BY <2>6 DEF PassLinkAfter
    <3>2. PICK first \in S, last \in S, anchor \in InList :
            Chain(S, first, last) /\ LinkAfter(anchor, S, first, last)
      BY <3>1
    <3>3. CASE torn' = {}
      <4>1. \E i, p : Inserts(s, i, p)
        BY <2>0, <2>2, <2>3, <3>2, <3>3, LinkAfterPath
      <4>2. AbstractList!Insert
        BY <2>0, <2>1, <3>3, <4>1, RefinedInsert
      <4> QED
        BY <2>0, <4>2 DEF AbstractList!Next
    <3>4. CASE torn' # {}
      <4>1. AbstractList!InsertLast
        BY <2>0, <3>2, <3>4, RefinedInsertLast
      <4> QED
        BY <2>0, <4>1 DEF AbstractList!Next
    <3> QED
      BY <3>3, <3>4
  <2>7. CASE PassUnlink
    <3>1. PICK S \in SUBSET InList : \E first, last \in S :
            Run(S, first, last) /\ prev[first] # NULL /\ Unlink(S, first, last)
      BY <2>7 DEF PassUnlink
    <3>2. AbstractList!TakeOut
      BY <2>0, <3>1, RefinedTakeOut
    <3> QED
      BY <2>0, <3>2 DEF AbstractList!Next
  <2>8. CASE PassDelete
    <3>1. PICK e \in InList : DeleteEntry(e)
      BY <2>8 DEF PassDelete
    <3>2. AbstractList!Delete
      BY <2>0, <3>1, RefinedDelete
    <3> QED
      BY <2>0, <3>2 DEF AbstractList!Next
  <2>9. CASE PassDeleteAborts
    BY <2>9, <1>1 DEF PassDeleteAborts, DeleteEntryAborts
  <2> QED
    BY <1>2, <2>4, <2>5, <2>6, <2>7, <2>8, <2>9 DEF Next
<1> QED
  BY <1>1, <1>2 DEF vars

\* The pointers, edited by LinkBefore, LinkAfter, Unlink and DeleteEntry, are
\* an implementation of a sequence of entries and of chains held apart from it,
\* in the step that tears the list as well.
THEOREM RefinementTheorem == Spec => RefinesEntrySeq
PROOF
<1>1. Init => AbstractList!Init
  BY RefinedInit
<1>2. (Core /\ JInv) /\ (Core /\ JInv)' /\ [Next]_vars
        => [AbstractList!Next]_(AbstractList!vars)
  BY RefinedStep
<1> QED
  BY <1>1, <1>2, PathsTheorem, PTL DEF Spec, RefinesEntrySeq, AbstractList!Spec
=============================================================================
