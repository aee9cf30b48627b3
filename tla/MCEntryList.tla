---------------------------- MODULE MCEntryList ----------------------------
(***************************************************************************)
(* Three parsed sections for EntryList.  The last one is a function with a *)
(* table of jumps: the section is left in the middle of it, right after an *)
(* instruction, and entered again.                                         *)
(***************************************************************************)
EXTENDS EntryList, TLC

CONSTANTS f, g, u,                     \* functions; u is unnamed
          s1, s2,                      \* subsections
          lf, i1, i2, a, zf, d, lg, j1, zg,  \* parsed entries
          x                            \* the entry a pass may create

MCEntries == {lf, i1, i2, zf, d, lg, j1, zg, x, a}
MCFunctionSS == f :> s1 @@ g :> s2 @@ u :> s1
MCKind ==
  [e \in MCEntries |->
    CASE e \in {i1, i2, j1, x} -> "insn"
      [] e \in {lf, lg} -> "label"
      [] e = a -> "align"
      [] OTHER -> "directive"]

Owned(m) == [e \in MCEntries |-> IF e \in DOMAIN m THEN m[e] ELSE NULL]

\* f in one subsection, then g in the next one, which a section directive opens.
TwoSubSections ==
  [list |-> <<lf, i1, i2, zf, d, lg, zg>>,
   fn |-> Owned(lf :> f @@ i1 :> f @@ i2 :> f @@ zf :> f
                  @@ lg :> g @@ zg :> g),
   ss |-> Owned(lf :> s1 @@ i1 :> s1 @@ i2 :> s1 @@ zf :> s1
                  @@ d :> s2 @@ lg :> s2 @@ zg :> s2)]

\* An unnamed function that is one instruction, then f, in one subsection.
Unnamed ==
  [list |-> <<j1, lf, a, i1, zf>>,
   fn |-> Owned(j1 :> u @@ lf :> f @@ a :> f @@ i1 :> f @@ zf :> f),
   ss |-> Owned(j1 :> s1 @@ lf :> s1 @@ a :> s1 @@ i1 :> s1 @@ zf :> s1)]

\* f in two subsections, the first of which ends with an instruction
\* (tests/switches.o0.s); d is the second .text.
Spanning ==
  [list |-> <<lf, i1, d, j1, zf>>,
   fn |-> Owned(lf :> f @@ i1 :> f @@ d :> f @@ j1 :> f @@ zf :> f),
   ss |-> Owned(lf :> s1 @@ i1 :> s1
                  @@ d :> s2 @@ j1 :> s2 @@ zf :> s2)]

MCLayouts == {TwoSubSections, Unnamed, Spanning}
=============================================================================
