--------------------------- MODULE RelaxerProofs ---------------------------
(***************************************************************************)
(* What relaxing leaves behind, for sections of any number of entries of   *)
(* any sizes: jumps counted as short reach their targets by the offsets of *)
(* the map, alignments align, the opcodes are as they were and the sizes   *)
(* those of the first time, and the sweeps are no more than the jumps and  *)
(* two.                                                                    *)
(***************************************************************************)
EXTENDS Relaxer, FiniteSetTheorems, SequenceTheorems,
  WellFoundedInduction, TLAPS

\* Every nonempty set of natural numbers has a least element.
LEMMA LeastElement ==
  ASSUME NEW T, T \subseteq Nat, T # {}
  PROVE  \E x \in T : \A y \in T : x <= y
<1>1. \E x \in T : \A y \in T : ~ (<<y, x>> \in OpToRel(<, Nat))
  BY NatLessThanWellFounded, WFMin, Zenon
<1>2. \A x, y \in T : <<y, x>> \notin OpToRel(<, Nat) => x <= y
  BY DEF OpToRel
<1> QED BY <1>1, <1>2

-----------------------------------------------------------------------------
(* Labels.                                                                 *)

\* One more entry is one more label, or none.
LEMMA LabelsStep ==
  ASSUME NEW p, NEW n \in Nat
  PROVE  /\ IsFiniteSet(LabelsTo(p, n)) /\ Cardinality(LabelsTo(p, n)) \in Nat
         /\ Cardinality(LabelsTo(p, n + 1)) =
              Cardinality(LabelsTo(p, n)) + IF p[n + 1].kind = "label" THEN 1 ELSE 0
<1>1. LabelsTo(p, n) \subseteq 1 .. n /\ IsFiniteSet(1 .. n)
  BY FS_Interval DEF LabelsTo
<1>2. IsFiniteSet(LabelsTo(p, n)) /\ Cardinality(LabelsTo(p, n)) \in Nat
  BY <1>1, FS_Subset, FS_CardinalityType
<1>3. n + 1 \notin LabelsTo(p, n)
  BY DEF LabelsTo
<1>4. \A i : i \in 1 .. n + 1 <=> i \in 1 .. n \/ i = n + 1
  OBVIOUS
<1>5. LabelsTo(p, n + 1) =
        IF p[n + 1].kind = "label" THEN LabelsTo(p, n) \cup {n + 1} ELSE LabelsTo(p, n)
  BY <1>4 DEF LabelsTo
<1>6. CASE p[n + 1].kind = "label"
  <2>1. Cardinality(LabelsTo(p, n) \cup {n + 1}) = Cardinality(LabelsTo(p, n)) + 1
    BY <1>2, <1>3, FS_AddElement
  <2> QED BY <2>1, <1>2, <1>5, <1>6
<1> QED BY <1>2, <1>5, <1>6

\* Every label that a jump may have for its target is there.
LEMMA LabelLemma ==
  ASSUME NEW p, IsProgram(p), NEW j \in DOMAIN p, p[j].target # 0
  PROVE  /\ LabelAt(p, p[j].target) \in DOMAIN p
         /\ p[LabelAt(p, p[j].target)].kind = "label"
<1> DEFINE t == p[j].target
           D == {n \in 0 .. Len(p) : t <= Cardinality(LabelsTo(p, n))}
<1>1. Len(p) \in Nat /\ DOMAIN p = 1 .. Len(p) /\ t \in Nat \ {0}
  <2>1. Len(p) \in Nat /\ DOMAIN p = 1 .. Len(p) /\ p[j] \in EntryType
    BY DEF IsProgram
  <2>2. t \in Nat
    BY <2>1 DEF EntryType
  <2> QED BY <2>1, <2>2
<1>2. PICK n \in D : \A m \in D : n <= m
  <2>1. D \subseteq Nat /\ Len(p) \in D
    BY <1>1 DEF IsProgram
  <2> HIDE DEF D
  <2> QED BY ONLY <2>1, LeastElement
<1>3. n # 0
  <2>1. Cardinality(LabelsTo(p, 0)) = 0
    BY FS_EmptySet DEF LabelsTo
  <2>2. t <= Cardinality(LabelsTo(p, n))
    BY <1>2
  <2> HIDE DEF D, t
  <2> QED BY <2>1, <2>2, <1>1
<1>4. n - 1 \in Nat /\ n \in DOMAIN p /\ (n - 1) + 1 = n /\ n - 1 \in 0 .. Len(p) /\ n - 1 \notin D
  BY <1>1, <1>2, <1>3
<1>5. /\ Cardinality(LabelsTo(p, n - 1)) \in Nat
      /\ Cardinality(LabelsTo(p, n)) =
           Cardinality(LabelsTo(p, n - 1)) + IF p[n].kind = "label" THEN 1 ELSE 0
  BY ONLY <1>4, LabelsStep
<1>6. ~ t <= Cardinality(LabelsTo(p, n - 1)) /\ t <= Cardinality(LabelsTo(p, n))
  BY <1>2, <1>4
<1> HIDE DEF D, t
<1>7. p[n].kind = "label" /\ Cardinality(LabelsTo(p, n)) = t
  BY <1>1, <1>5, <1>6
<1>8. LabelAt(p, t) \in DOMAIN p /\ p[LabelAt(p, t)].kind = "label"
  BY ONLY <1>4, <1>7 DEF LabelAt
<1> QED BY <1>8 DEF t

-----------------------------------------------------------------------------
(* Fragments.                                                              *)

JumpKinds == {"jmp", "jcc"}
FragType ==
  [fix : Nat, oldFix : Nat, kind : {"end", "align"} \cup JumpKinds, entry : Nat,
   target : Nat, to : Nat \ {0}, max : Nat, state : {"small", "big", "waned"}]

\* The sizes of variable parts are numbers.
LEMMA VarType ==
  ASSUME NEW f \in FragType, NEW a \in Int
  PROVE  VarSize(f, a) \in Int
<1>1. Fill(a + f.fix, f.to, f.max) \in Int
  BY DEF Fill, FragType
<1>2. f.kind \in JumpKinds /\ f.state # "waned" => VarLength(f.kind, f.state) \in Int
  BY DEF VarLength, FragType, JumpKinds
<1> QED BY <1>1, <1>2 DEF VarSize, FragType, JumpKinds

\* Those of jumps.
LEMMA JumpSize ==
  ASSUME NEW f, f.kind \in JumpKinds, NEW a
  PROVE  /\ f.state = "waned" => VarSize(f, a) = 0
         /\ f.state = "small" => VarSize(f, a) = 1
         /\ f.state = "big" => VarSize(f, a) = VarLength(f.kind, "big") /\ VarSize(f, a) \in {4, 5}
<1>1. f.kind # "end" /\ f.kind # "align" /\ (f.kind = "jmp" \/ f.kind = "jcc")
  BY DEF JumpKinds
<1>2. f.state = "waned" => VarSize(f, a) = 0
  BY <1>1 DEF VarSize
<1>3. f.state # "waned" => VarSize(f, a) = VarLength(f.kind, f.state)
  <2> DEFINE n == VarLength(f.kind, f.state)
             m == Fill(a + f.fix, f.to, f.max)
  <2>1. VarSize(f, a) = CASE f.state = "waned" \/ f.kind = "end" -> 0
                          [] f.kind = "align" -> m [] OTHER -> n
    BY DEF VarSize
  <2> HIDE DEF n, m
  <2>2. f.state # "waned" => VarSize(f, a) = n
    BY ONLY <2>1, <1>1
  <2> QED BY <2>2 DEF n
<1>4. f.state = "small" => VarLength(f.kind, f.state) = 1
  BY DEF VarLength
<1>5. f.kind = "jmp" => VarLength(f.kind, "big") = 4
  BY DEF VarLength
<1>6. f.kind = "jcc" => VarLength(f.kind, "big") = 5
  BY DEF VarLength
<1> QED BY <1>1, <1>2, <1>3, <1>4, <1>5, <1>6

\* at has the addresses of the fragments fs.
IsLayout(fs, at) ==
  /\ at \in [1 .. Len(fs) -> Int]
  /\ at[1] = 0
  /\ \A k \in 1 .. Len(fs) - 1 : at[k + 1] = at[k] + fs[k].fix + VarSize(fs[k], at[k])

IsAt(f, n, fs) ==
  f = [k \in 1 .. n |-> IF k = 1 THEN 0
                        ELSE f[k - 1] + fs[k - 1].fix + VarSize(fs[k - 1], f[k - 1])]

\* The recursion of Layout has a solution.
LEMMA AtExists ==
  ASSUME NEW fs, NEW N \in Nat
  PROVE  \E f : IsAt(f, N, fs)
<1> DEFINE D == {n \in Nat : ~ \E f : IsAt(f, n, fs)}
<1> SUFFICES ASSUME D # {} PROVE FALSE
  OBVIOUS
<1>1. PICK n \in D : \A m \in D : n <= m
  <2>1. D \subseteq Nat /\ D # {}
    OBVIOUS
  <2> HIDE DEF D
  <2> QED BY ONLY <2>1, LeastElement
<1>2. CASE n = 0
  <2>1. IsAt([k \in 1 .. 0 |-> 0], 0, fs)
    BY DEF IsAt
  <2> QED BY <2>1, <1>1, <1>2
<1>3. CASE n # 0
  <2>1. n - 1 \in Nat /\ n - 1 \notin D
    BY <1>1, <1>3
  <2>2. PICK f : IsAt(f, n - 1, fs)
    BY <2>1
  <2> DEFINE last == IF n = 1 THEN 0 ELSE f[n - 1] + fs[n - 1].fix + VarSize(fs[n - 1], f[n - 1])
             g == [k \in 1 .. n |-> IF k = n THEN last ELSE f[k]]
  <2>3. \A k \in 1 .. n - 1 :
          f[k] = IF k = 1 THEN 0 ELSE f[k - 1] + fs[k - 1].fix + VarSize(fs[k - 1], f[k - 1])
    BY ONLY <2>1, <2>2 DEF IsAt
  <2>4. ASSUME NEW k \in 1 .. n
        PROVE  g[k] = IF k = 1 THEN 0 ELSE g[k - 1] + fs[k - 1].fix + VarSize(fs[k - 1], g[k - 1])
    <3>1. CASE k = n /\ k # 1
      <4>1. k - 1 \in 1 .. n /\ k - 1 # n /\ g[k - 1] = f[k - 1] /\ g[k] = last
        BY <3>1, <2>1
      <4>2. last = f[k - 1] + fs[k - 1].fix + VarSize(fs[k - 1], f[k - 1])
        BY <3>1
      <4> HIDE DEF g, last
      <4> QED BY <4>1, <4>2, <3>1
    <3>2. CASE k # n /\ k # 1
      <4>1. k \in 1 .. n - 1 /\ k - 1 \in 1 .. n /\ k - 1 # n /\ g[k] = f[k] /\ g[k - 1] = f[k - 1]
        BY <3>2, <2>1
      <4> HIDE DEF g
      <4> QED BY <4>1, <2>3, <3>2
    <3>3. CASE k = 1
      <4>1. k = n => g[k] = 0
        BY <3>3
      <4>2. k # n => k \in 1 .. n - 1 /\ g[k] = f[k]
        BY <2>1
      <4> HIDE DEF g
      <4> QED BY <4>1, <4>2, <2>3, <3>3
    <3> QED BY <3>1, <3>2, <3>3
  <2>5. IsAt(g, n, fs)
    <3>1. g = [k \in 1 .. n |-> g[k]]
      OBVIOUS
    <3> HIDE DEF g
    <3> QED BY ONLY <3>1, <2>4 DEF IsAt
  <2> QED BY <2>5, <1>1
<1> QED BY <1>2, <1>3

\* Layout gives the addresses.
LEMMA LayoutLemma ==
  ASSUME NEW fs \in Seq(FragType), Len(fs) >= 1
  PROVE  IsLayout(fs, Layout(fs))
<1> DEFINE N == Len(fs)
           at == Layout(fs)
<1>1. N \in Nat /\ N >= 1 /\ \A k \in 1 .. N : fs[k] \in FragType
  OBVIOUS
<1>2. IsAt(at, N, fs)
  <2>1. at = CHOOSE f : IsAt(f, N, fs)
    BY DEF Layout, IsAt
  <2> HIDE DEF at, N
  <2> QED BY ONLY <2>1, <1>1, AtExists
<1> HIDE DEF at, N
<1>3. /\ DOMAIN at = 1 .. N /\ at = [k \in 1 .. N |-> at[k]]
      /\ \A k \in 1 .. N :
           at[k] = IF k = 1 THEN 0 ELSE at[k - 1] + fs[k - 1].fix + VarSize(fs[k - 1], at[k - 1])
  BY ONLY <1>2 DEF IsAt
<1>4. \A k \in 1 .. N - 1 : at[k + 1] = at[k] + fs[k].fix + VarSize(fs[k], at[k])
  <2> TAKE k \in 1 .. N - 1
  <2>1. k + 1 \in 1 .. N /\ k + 1 # 1 /\ (k + 1) - 1 = k
    BY <1>1
  <2> QED BY ONLY <2>1, <1>3
<1>5. at[1] = 0
  <2>1. 1 \in 1 .. N
    BY <1>1
  <2> QED BY <2>1, <1>3
<1>6. \A k \in 1 .. N : at[k] \in Int
  <2> DEFINE D == {k \in 1 .. N : at[k] \notin Int}
  <2> SUFFICES ASSUME D # {} PROVE FALSE
    OBVIOUS
  <2>1. PICK k \in D : \A m \in D : k <= m
    <3>1. D \subseteq Nat /\ D # {}
      OBVIOUS
    <3> HIDE DEF D
    <3> QED BY ONLY <3>1, LeastElement
  <2>2. k # 1
    BY <2>1, <1>5
  <2>3. k - 1 \in 1 .. N - 1 /\ k - 1 \in 1 .. N /\ k - 1 \notin D /\ (k - 1) + 1 = k
    BY <2>1, <2>2, <1>1
  <2>4. at[k - 1] \in Int /\ fs[k - 1] \in FragType
    BY <2>3, <1>1
  <2>5. fs[k - 1].fix \in Int /\ VarSize(fs[k - 1], at[k - 1]) \in Int
    <3>1. VarSize(fs[k - 1], at[k - 1]) \in Int
      BY ONLY <2>4, VarType
    <3> QED BY ONLY <3>1, <2>4 DEF FragType
  <2>6. at[k] = at[k - 1] + fs[k - 1].fix + VarSize(fs[k - 1], at[k - 1])
    BY <2>3, <1>4
  <2> QED BY <2>1, <2>4, <2>5, <2>6
<1>7. at \in [1 .. N -> Int]
  BY ONLY <1>3, <1>6
<1> QED BY <1>4, <1>5, <1>7 DEF IsLayout, N, at

\* There is one layout.
LEMMA LayoutUnique ==
  ASSUME NEW fs, Len(fs) \in Nat, NEW a, NEW b, IsLayout(fs, a), IsLayout(fs, b)
  PROVE  a = b
<1> DEFINE N == Len(fs)
<1>1. /\ a \in [1 .. N -> Int] /\ a[1] = 0
      /\ \A k \in 1 .. N - 1 : a[k + 1] = a[k] + fs[k].fix + VarSize(fs[k], a[k])
      /\ b \in [1 .. N -> Int] /\ b[1] = 0
      /\ \A k \in 1 .. N - 1 : b[k + 1] = b[k] + fs[k].fix + VarSize(fs[k], b[k])
      /\ N \in Nat
  BY DEF IsLayout
<1> DEFINE D == {k \in 1 .. N : a[k] # b[k]}
<1> HIDE DEF N
<1>2. D = {}
  <2> SUFFICES ASSUME D # {} PROVE FALSE
    OBVIOUS
  <2>1. PICK k \in D : \A m \in D : k <= m
    <3>1. D \subseteq Nat /\ D # {}
      OBVIOUS
    <3> HIDE DEF D
    <3> QED BY ONLY <3>1, LeastElement
  <2>2. k # 1
    BY <2>1, <1>1
  <2>3. k - 1 \in 1 .. N - 1 /\ k - 1 \in 1 .. N /\ k - 1 \notin D /\ (k - 1) + 1 = k
    BY <2>1, <2>2, <1>1
  <2>4. a[k - 1] = b[k - 1]
    BY <2>3
  <2>5. /\ a[k] = a[k - 1] + fs[k - 1].fix + VarSize(fs[k - 1], a[k - 1])
        /\ b[k] = b[k - 1] + fs[k - 1].fix + VarSize(fs[k - 1], b[k - 1])
    BY <2>3, <1>1
  <2>6. a[k] = b[k]
    BY ONLY <2>4, <2>5
  <2> QED BY <2>1, <2>6
<1>3. \A k \in 1 .. N : a[k] = b[k]
  BY <1>2
<1> QED BY ONLY <1>1, <1>3

-----------------------------------------------------------------------------
(* What BuildFragments makes of a section.                                 *)

\* An entry whose size depends on where the others are.
Variable(e) == IsJump(e) \/ e.kind = "align"

\* The size of an entry before relaxing.
BaseSize(e) ==
  IF e.kind \in {"bytes", "float"} THEN e.size ELSE IF IsJump(e) THEN 1 ELSE 0

IsLast(f) == f.kind = "end" /\ f.entry = 0 /\ f.target = 0

\* Fragment f ends with entry i.
Ends(p, f, i) ==
  /\ f.entry = i /\ f.kind = p[i].kind
  /\ f.target = p[i].target /\ f.to = p[i].to /\ f.max = p[i].max

\* Entry i is at offset o of fragment k, and the next one at offset q of fragment l.
Placed(p, fs, syms, i, k, o, l, q) ==
  /\ p[i].kind = "bytes" => l = k /\ q = o + p[i].size
  /\ p[i].kind = "float" => l = k /\ q = o
  /\ p[i].kind = "label" => l = k /\ q = o /\ syms[i] = <<k, o>>
  /\ Variable(p[i]) => l = k + 1 /\ q = 0 /\ Ends(p, fs[k], i)
                        /\ fs[k].oldFix = o + BaseSize(p[i])

\* The fragments of the first n entries; the entry after the i-th begins at
\* offset off[i] of fragment at[i].
Describes(p, n, fs, syms, szs, at, off) ==
  /\ at \in [0 .. n -> Nat] /\ off \in [0 .. n -> Nat]
  /\ at[0] = 1 /\ off[0] = 0
  /\ \A i \in 0 .. n : at[i] \in 1 .. Len(fs)
  /\ at[n] = Len(fs) /\ off[n] = fs[Len(fs)].oldFix
  /\ IsLast(fs[Len(fs)])
  /\ \A i \in 1 .. n : /\ Placed(p, fs, syms, i, at[i - 1], off[i - 1], at[i], off[i])
                       /\ szs[i] = BaseSize(p[i])
  /\ \A k \in 1 .. Len(fs) - 1 : \E i \in 1 .. n : Variable(p[i]) /\ at[i - 1] = k

\* fs2, with symbols and sizes, is fs with one more entry, which begins at offset
\* o of the last fragment; what comes after it begins at offset q of its last.
GoesOn(p, n, fs, syms, szs, o, fs2, syms2, szs2, q) ==
  /\ q \in Nat /\ q = fs2[Len(fs2)].oldFix
  /\ Len(fs2) \in {Len(fs), Len(fs) + 1}
  /\ \A k \in 1 .. Len(fs) - 1 : fs2[k] = fs[k]
  /\ \A i \in 1 .. n : syms2[i] = syms[i] /\ szs2[i] = szs[i]
  /\ szs2[n + 1] = BaseSize(p[n + 1])
  /\ Placed(p, fs2, syms2, n + 1, Len(fs), o, Len(fs2), q)
  /\ IsLast(fs2[Len(fs2)])
  /\ Len(fs2) = Len(fs) + 1 => Variable(p[n + 1])

\* One more entry.
LEMMA DescribesStep ==
  ASSUME NEW p, NEW n \in Nat, NEW fs, NEW syms, NEW szs, NEW at, NEW off,
         Describes(p, n, fs, syms, szs, at, off), Len(fs) \in Nat \ {0},
         NEW fs2, NEW syms2, NEW szs2, NEW q,
         GoesOn(p, n, fs, syms, szs, off[n], fs2, syms2, szs2, q)
  PROVE  \E at2, off2 : Describes(p, n + 1, fs2, syms2, szs2, at2, off2)
<1>0. /\ q \in Nat /\ q = fs2[Len(fs2)].oldFix
      /\ Len(fs2) \in {Len(fs), Len(fs) + 1}
      /\ \A k \in 1 .. Len(fs) - 1 : fs2[k] = fs[k]
      /\ \A i \in 1 .. n : syms2[i] = syms[i] /\ szs2[i] = szs[i]
      /\ szs2[n + 1] = BaseSize(p[n + 1])
      /\ Placed(p, fs2, syms2, n + 1, Len(fs), off[n], Len(fs2), q)
      /\ IsLast(fs2[Len(fs2)])
      /\ Len(fs2) = Len(fs) + 1 => Variable(p[n + 1])
  BY DEF GoesOn
<1> USE <1>0
<1> DEFINE L == Len(fs)
           M == Len(fs2)
           at2 == [i \in 0 .. n + 1 |-> IF i = n + 1 THEN M ELSE at[i]]
           off2 == [i \in 0 .. n + 1 |-> IF i = n + 1 THEN q ELSE off[i]]
<1>1. /\ L \in Nat \ {0} /\ M \in {L, L + 1} /\ M \in Nat \ {0} /\ L <= M
      /\ \A i \in 0 .. n : at[i] \in 1 .. L /\ off[i] \in Nat
      /\ at[0] = 1 /\ off[0] = 0 /\ at[n] = L
  BY DEF Describes
<1>2. /\ \A i \in 0 .. n : i \in 0 .. n + 1 /\ i # n + 1
      /\ n + 1 \in 0 .. n + 1 /\ 0 \in 0 .. n /\ n \in 0 .. n /\ (n + 1) - 1 = n
      /\ \A i \in 0 .. n + 1 : i \in 0 .. n \/ i = n + 1
      /\ \A i \in 1 .. n + 1 : i \in 1 .. n \/ i = n + 1
      /\ \A i \in 1 .. n : i \in 0 .. n /\ i - 1 \in 0 .. n /\ i \in 1 .. n + 1
  OBVIOUS
<1> HIDE DEF L, M
<1>3. /\ \A i \in 0 .. n : at2[i] = at[i] /\ off2[i] = off[i]
      /\ at2[n + 1] = M /\ off2[n + 1] = q
      /\ DOMAIN at2 = 0 .. n + 1 /\ DOMAIN off2 = 0 .. n + 1
      /\ at2 = [i \in 0 .. n + 1 |-> at2[i]] /\ off2 = [i \in 0 .. n + 1 |-> off2[i]]
  BY <1>2
<1> HIDE DEF at2, off2
<1>4. \A i \in 0 .. n + 1 : at2[i] \in 1 .. M /\ at2[i] \in Nat /\ off2[i] \in Nat
  <2> TAKE i \in 0 .. n + 1
  <2>1. CASE i \in 0 .. n
    <3>1. at2[i] = at[i] /\ off2[i] = off[i] /\ at[i] \in 1 .. L /\ off[i] \in Nat
      BY <2>1, <1>1, <1>3
    <3> QED BY ONLY <3>1, <1>1
  <2>2. CASE i = n + 1
    BY ONLY <2>2, <1>0, <1>1, <1>3
  <2> QED BY <2>1, <2>2, <1>2
<1>5. at2 \in [0 .. n + 1 -> Nat] /\ off2 \in [0 .. n + 1 -> Nat]
  BY ONLY <1>3, <1>4
<1>6. at2[0] = 1 /\ off2[0] = 0
  BY <1>1, <1>2, <1>3
<1>7. ASSUME NEW i \in 1 .. n + 1
      PROVE  /\ Placed(p, fs2, syms2, i, at2[i - 1], off2[i - 1], at2[i], off2[i])
             /\ szs2[i] = BaseSize(p[i])
  <2>1. CASE i = n + 1
    <3>1. Placed(p, fs2, syms2, n + 1, at2[n], off2[n], at2[n + 1], off2[n + 1])
      BY <1>1, <1>2, <1>3 DEF L, M
    <3> QED BY <3>1, <2>1, <1>2
  <2>2. CASE i \in 1 .. n
    <3>1. /\ Placed(p, fs, syms, i, at[i - 1], off[i - 1], at[i], off[i])
          /\ szs[i] = BaseSize(p[i])
      BY <2>2 DEF Describes
    <3>2. /\ at2[i - 1] = at[i - 1] /\ off2[i - 1] = off[i - 1]
          /\ at2[i] = at[i] /\ off2[i] = off[i]
          /\ syms2[i] = syms[i] /\ szs2[i] = szs[i]
      BY <2>2, <1>2, <1>3
    <3>3. Variable(p[i]) => fs2[at[i - 1]] = fs[at[i - 1]]
      <4>1. Variable(p[i]) => at[i] = at[i - 1] + 1
        BY <3>1 DEF Placed
      <4>2. at[i] \in 1 .. L /\ at[i - 1] \in 1 .. L
        BY <2>2, <1>1, <1>2
      <4>3. Variable(p[i]) => at[i - 1] \in 1 .. L - 1
        BY <4>1, <4>2, <1>1
      <4> QED BY <4>3 DEF L
    <3> QED BY ONLY <3>1, <3>2, <3>3 DEF Placed
  <2> QED BY <2>1, <2>2, <1>2
<1>8. ASSUME NEW k \in 1 .. M - 1
      PROVE  \E i \in 1 .. n + 1 : Variable(p[i]) /\ at2[i - 1] = k
  <2>1. CASE k \in 1 .. L - 1
    <3>1. PICK i \in 1 .. n : Variable(p[i]) /\ at[i - 1] = k
      BY <2>1 DEF Describes, L
    <3>2. i - 1 \in 0 .. n /\ i \in 1 .. n + 1
      BY <1>2
    <3> QED BY <3>1, <3>2, <1>3
  <2>2. CASE k \notin 1 .. L - 1
    <3>1. k = L /\ M = L + 1
      BY <2>2, <1>1
    <3>2. Variable(p[n + 1])
      BY <3>1 DEF L, M
    <3>3. at2[(n + 1) - 1] = k /\ n + 1 \in 1 .. n + 1
      <4>1. at2[n] = k
        BY ONLY <3>1, <1>1, <1>2, <1>3
      <4> QED BY ONLY <4>1, <1>2
    <3> QED BY ONLY <3>2, <3>3
  <2> QED BY <2>1, <2>2
<1>9. Describes(p, n + 1, fs2, syms2, szs2, at2, off2)
  BY <1>3, <1>4, <1>5, <1>6, <1>7, <1>8 DEF Describes, M
<1> QED BY <1>9

\* What has been built of the first n entries.
IsBuilt(p, n, b) ==
  /\ b = [frags |-> b.frags, sizes |-> b.sizes, symbols |-> b.symbols]
  /\ b.frags \in Seq(FragType) /\ Len(b.frags) # 0
  /\ b.sizes \in [DOMAIN p -> Nat] /\ DOMAIN b.symbols = DOMAIN p
  /\ \A i \in DOMAIN p : i > n => b.sizes[i] = 0
  /\ \A k \in 1 .. Len(b.frags) : b.frags[k].state = "small" /\ b.frags[k].fix = b.frags[k].oldFix
  /\ \E at, off : Describes(p, n, b.frags, b.symbols, b.sizes, at, off)

LEMMA NothingIsBuilt ==
  ASSUME NEW p, IsProgram(p)
  PROVE  IsBuilt(p, 0, NothingBuilt(p))
<1> DEFINE b == NothingBuilt(p)
           fs == Append(<<>>, NewFragment)
<1>1. NewFragment \in FragType
  BY DEF NewFragment, FragType
<1>2. fs \in Seq(FragType) /\ Len(fs) = 1 /\ Len(fs) # 0 /\ fs[1] = NewFragment
  <2>1. <<>> \in Seq(FragType) /\ Len(<<>>) = 0
    OBVIOUS
  <2> QED BY ONLY <2>1, <1>1, AppendProperties
<1>3. b.frags = fs
  BY DEF NothingBuilt
<1>4. /\ b = [frags |-> b.frags, sizes |-> b.sizes, symbols |-> b.symbols]
      /\ b.sizes \in [DOMAIN p -> Nat] /\ DOMAIN b.symbols = DOMAIN p
      /\ \A i \in DOMAIN p : i > 0 => b.sizes[i] = 0
  BY DEF NothingBuilt
<1> HIDE DEF b, fs
<1>5. \A k \in 1 .. Len(b.frags) : b.frags[k].state = "small" /\ b.frags[k].fix = b.frags[k].oldFix
  BY <1>2, <1>3 DEF NewFragment
<1>6. Describes(p, 0, b.frags, b.symbols, b.sizes, [i \in 0 .. 0 |-> 1], [i \in 0 .. 0 |-> 0])
  <2> DEFINE at == [i \in 0 .. 0 |-> 1]
             off == [i \in 0 .. 0 |-> 0]
  <2>1. at \in [0 .. 0 -> Nat] /\ off \in [0 .. 0 -> Nat] /\ at[0] = 1 /\ off[0] = 0
    OBVIOUS
  <2>2. IsLast(fs[1]) /\ fs[1].oldFix = 0
    BY <1>2 DEF NewFragment, IsLast
  <2>3. \A i \in 0 .. 0 : at[i] \in 1 .. Len(fs)
    BY <1>2, <2>1
  <2> HIDE DEF at, off
  <2>4. Describes(p, 0, fs, b.symbols, b.sizes, at, off)
    BY ONLY <2>1, <2>2, <2>3, <1>2 DEF Describes
  <2> QED BY <2>4, <1>3 DEF at, off
<1>7. b.frags \in Seq(FragType) /\ Len(b.frags) # 0
  BY ONLY <1>2, <1>3, Zenon
<1> QED BY ONLY <1>4, <1>5, <1>6, <1>7 DEF IsBuilt, b

\* Fragments that go on, or end.
LEMMA GrownIs ==
  ASSUME NEW f \in FragType, NEW n \in Nat, IsLast(f), f.state = "small", f.fix = f.oldFix
  PROVE  /\ Grown(f, n) \in FragType /\ IsLast(Grown(f, n))
         /\ Grown(f, n).state = "small" /\ Grown(f, n).fix = Grown(f, n).oldFix
         /\ Grown(f, n).oldFix = f.oldFix + n
<1> DEFINE g == [f EXCEPT !.fix = f.fix + n]
<1>1. f.fix + n \in Nat /\ f.oldFix + n \in Nat
  BY DEF FragType
<1>2. g \in FragType /\ g.oldFix = f.oldFix
  <2>1. g \in FragType
    BY ONLY <1>1, f \in FragType DEF FragType
  <2>2. g.oldFix = f.oldFix
    BY DEF FragType
  <2> QED BY ONLY <2>1, <2>2
<1>3. Grown(f, n) = [g EXCEPT !.oldFix = g.oldFix + n]
  BY Zenon DEF Grown
<1>5. [g EXCEPT !.oldFix = g.oldFix + n] \in FragType
  <2> HIDE DEF g
  <2> QED BY ONLY <1>1, <1>2 DEF FragType
<1>4. /\ Grown(f, n).fix = f.fix + n /\ Grown(f, n).oldFix = f.oldFix + n
      /\ Grown(f, n).state = f.state /\ Grown(f, n).kind = f.kind
      /\ Grown(f, n).entry = f.entry /\ Grown(f, n).target = f.target
  BY DEF Grown, FragType
<1> QED BY <1>3, <1>4, <1>5 DEF IsLast

LEMMA EndedIs ==
  ASSUME NEW f \in FragType, NEW p, NEW i \in Nat, p[i] \in EntryType, Variable(p[i]),
         f.state = "small", f.fix = f.oldFix
  PROVE  /\ Ended(f, i, p[i], p[i].kind) \in FragType /\ Ends(p, Ended(f, i, p[i], p[i].kind), i)
         /\ Ended(f, i, p[i], p[i].kind).state = "small"
         /\ Ended(f, i, p[i], p[i].kind).fix = Ended(f, i, p[i], p[i].kind).oldFix
         /\ Ended(f, i, p[i], p[i].kind).oldFix = f.oldFix
<1> DEFINE e == p[i]
           f1 == [f EXCEPT !.kind = e.kind]
           f2 == [f1 EXCEPT !.entry = i]
           f3 == [f2 EXCEPT !.target = e.target]
           f4 == [f3 EXCEPT !.to = e.to]
           f5 == [f4 EXCEPT !.max = e.max]
<1>1. /\ e.kind \in {"end", "align"} \cup JumpKinds /\ e.target \in Nat
      /\ e.to \in Nat \ {0} /\ e.max \in Nat
  BY DEF EntryType, Variable, IsJump, JumpKinds
<1>2. Ended(f, i, e, e.kind) = f5
  BY Zenon DEF Ended
<1> HIDE DEF e
<1>3. f1 \in FragType
  BY ONLY <1>1, f \in FragType DEF FragType
<1> HIDE DEF f1
<1>4. f2 \in FragType
  BY ONLY <1>3, i \in Nat DEF FragType
<1> HIDE DEF f2
<1>5. f3 \in FragType
  BY ONLY <1>4, <1>1 DEF FragType
<1> HIDE DEF f3
<1>6. f4 \in FragType
  BY ONLY <1>5, <1>1 DEF FragType
<1> HIDE DEF f4
<1>7. f5 \in FragType
  BY ONLY <1>6, <1>1 DEF FragType
<1> HIDE DEF f5
<1>8. /\ f1.fix = f.fix /\ f1.oldFix = f.oldFix /\ f1.state = f.state /\ f1.kind = e.kind
  BY DEF FragType, f1
<1>9. /\ f2.fix = f1.fix /\ f2.oldFix = f1.oldFix /\ f2.state = f1.state
      /\ f2.kind = f1.kind /\ f2.entry = i
  BY <1>3 DEF FragType, f2
<1>10. /\ f3.fix = f2.fix /\ f3.oldFix = f2.oldFix /\ f3.state = f2.state
       /\ f3.kind = f2.kind /\ f3.entry = f2.entry /\ f3.target = e.target
  BY <1>4 DEF FragType, f3
<1>11. /\ f4.fix = f3.fix /\ f4.oldFix = f3.oldFix /\ f4.state = f3.state
       /\ f4.kind = f3.kind /\ f4.entry = f3.entry /\ f4.target = f3.target /\ f4.to = e.to
  BY <1>5 DEF FragType, f4
<1>12. /\ f5.fix = f4.fix /\ f5.oldFix = f4.oldFix /\ f5.state = f4.state
       /\ f5.kind = f4.kind /\ f5.entry = f4.entry /\ f5.target = f4.target
       /\ f5.to = f4.to /\ f5.max = e.max
  BY <1>6 DEF FragType, f5
<1>13. Ends(p, f5, i)
  BY <1>8, <1>9, <1>10, <1>11, <1>12 DEF Ends, e
<1> QED BY <1>2, <1>7, <1>8, <1>9, <1>10, <1>11, <1>12, <1>13 DEF e

\* The last fragment goes on.
LEMMA StepInside ==
  ASSUME NEW p, IsProgram(p), NEW n \in Nat, n + 1 \in DOMAIN p,
         NEW b, IsBuilt(p, n, b), NEW c, NEW s \in Nat, ~Variable(p[n + 1]),
         c = [frags |-> c.frags, sizes |-> c.sizes, symbols |-> c.symbols],
         LET L == Len(b.frags) IN c.frags = [b.frags EXCEPT ![L] = Grown(b.frags[L], s)],
         c.sizes = [b.sizes EXCEPT ![n + 1] = BaseSize(p[n + 1])],
         DOMAIN c.symbols = DOMAIN p, \A i \in 1 .. n : c.symbols[i] = b.symbols[i],
         p[n + 1].kind = "bytes" => s = p[n + 1].size,
         p[n + 1].kind # "bytes" => s = 0,
         p[n + 1].kind = "label" =>
           c.symbols[n + 1] = <<Len(b.frags), b.frags[Len(b.frags)].fix>>
  PROVE  IsBuilt(p, n + 1, c)
<1> DEFINE fs == b.frags
           gs == c.frags
           L == Len(fs)
           e == p[n + 1]
<1>1. PICK at, off : Describes(p, n, b.frags, b.symbols, b.sizes, at, off)
  BY DEF IsBuilt
<1>2. /\ fs \in Seq(FragType) /\ L \in Nat \ {0} /\ L \in 1 .. L
      /\ fs[L] \in FragType /\ fs[L].state = "small" /\ fs[L].fix = fs[L].oldFix
      /\ \A k \in 1 .. L : fs[k].state = "small" /\ fs[k].fix = fs[k].oldFix
  BY DEF IsBuilt
<1>3. IsLast(fs[L]) /\ off[n] = fs[L].oldFix
  BY <1>1 DEF Describes
<1>4. /\ Grown(fs[L], s) \in FragType /\ IsLast(Grown(fs[L], s))
      /\ Grown(fs[L], s).state = "small" /\ Grown(fs[L], s).fix = Grown(fs[L], s).oldFix
      /\ Grown(fs[L], s).oldFix = fs[L].oldFix + s
  BY ONLY <1>2, <1>3, GrownIs, s \in Nat
<1>5. gs = [fs EXCEPT ![L] = Grown(fs[L], s)]
  OBVIOUS
<1>6. e \in EntryType
  BY DEF IsProgram
<1> HIDE DEF fs, gs, L, e
<1>7. /\ gs \in Seq(FragType) /\ Len(gs) = L
      /\ \A k \in 1 .. L : gs[k] = IF k = L THEN Grown(fs[L], s) ELSE fs[k]
  <2> DEFINE h == Grown(fs[L], s)
  <2>1. h \in FragType /\ gs = [fs EXCEPT ![L] = h]
    BY <1>4, <1>5
  <2>2. Len(fs) = L
    BY DEF L
  <2> HIDE DEF h
  <2>3. /\ gs \in Seq(FragType) /\ Len(gs) = L
        /\ \A k \in 1 .. L : gs[k] = IF k = L THEN h ELSE fs[k]
    BY ONLY <2>1, <2>2, <1>2, ExceptSeq
  <2> QED BY <2>3 DEF h
<1>8. \A k \in 1 .. L : gs[k].state = "small" /\ gs[k].fix = gs[k].oldFix
  <2> TAKE k \in 1 .. L
  <2>1. CASE k = L
    BY ONLY <2>1, <1>4, <1>7
  <2>2. CASE k # L
    BY ONLY <2>2, <1>2, <1>7
  <2> QED BY <2>1, <2>2
<1>9. /\ BaseSize(e) \in Nat /\ Len(gs) \in {L, L + 1}
      /\ gs[L] = Grown(fs[L], s) /\ \A k \in 1 .. L - 1 : gs[k] = fs[k]
  <2>1. BaseSize(e) \in Nat
    BY <1>6 DEF BaseSize, EntryType
  <2>2. \A k \in 1 .. L - 1 : k \in 1 .. L /\ k # L
    BY <1>2
  <2>3. gs[L] = Grown(fs[L], s)
    BY ONLY <1>2, <1>7
  <2> QED BY ONLY <2>1, <2>2, <2>3, <1>7
<1>10. c.sizes[n + 1] = BaseSize(e) /\ \A i \in 1 .. n : c.sizes[i] = b.sizes[i]
  <2>1. b.sizes \in [DOMAIN p -> Nat] /\ DOMAIN p = 1 .. Len(p) /\ Len(p) \in Nat
    BY DEF IsBuilt, IsProgram
  <2> QED BY <2>1 DEF e
<1>11. c.sizes \in [DOMAIN p -> Nat] /\ \A j \in DOMAIN p : j > n + 1 => c.sizes[j] = 0
  <2>1. /\ b.sizes \in [DOMAIN p -> Nat] /\ \A j \in DOMAIN p : j > n => b.sizes[j] = 0
        /\ DOMAIN p = 1 .. Len(p) /\ Len(p) \in Nat
    BY DEF IsBuilt, IsProgram
  <2>2. c.sizes \in [DOMAIN p -> Nat]
    BY <2>1, <1>9 DEF e
  <2>3. \A j \in DOMAIN p : j > n + 1 => c.sizes[j] = 0
    BY <2>1
  <2> QED BY <2>2, <2>3
<1>12. Placed(p, gs, c.symbols, n + 1, L, off[n], L, off[n] + s)
  <2>1. e.kind = "bytes" => s = e.size
    BY DEF e
  <2>2. e.kind # "bytes" => s = 0
    BY DEF e
  <2>3. e.kind = "label" => c.symbols[n + 1] = <<L, fs[L].fix>>
    BY DEF e, fs, L
  <2>4. ~Variable(e)
    BY DEF e
  <2>5. off[n] \in Nat /\ off[n] = fs[L].fix /\ off[n] + 0 = off[n]
    BY <1>2, <1>3 DEF FragType
  <2>6. e.kind = "float" \/ e.kind = "label" => off[n] + s = off[n]
    BY <2>2, <2>5
  <2>7. e.kind = "label" => c.symbols[n + 1] = <<L, off[n]>>
    BY <2>3, <2>5
  <2> QED BY <2>1, <2>4, <2>6, <2>7 DEF Placed, e
<1>13. off[n] + s \in Nat /\ off[n] + s = gs[Len(gs)].oldFix /\ IsLast(gs[Len(gs)])
  <2>1. fs[L].oldFix \in Nat
    BY <1>2 DEF FragType
  <2> QED BY <2>1, <1>3, <1>4, <1>7, <1>9
<1>14. \E at2, off2 : Describes(p, n + 1, gs, c.symbols, c.sizes, at2, off2)
  <2> DEFINE q == off[n] + s
             z == c.symbols
             zb == b.symbols
             y == c.sizes
             yb == b.sizes
  <2>1. Describes(p, n, fs, zb, yb, at, off) /\ Len(fs) \in Nat \ {0} /\ Len(fs) = L
    BY <1>1, <1>2 DEF fs, L
  <2>2. \A i \in 1 .. n : z[i] = zb[i] /\ y[i] = yb[i]
    BY <1>10
  <2>3. q \in Nat /\ q = gs[Len(gs)].oldFix /\ IsLast(gs[Len(gs)])
    BY <1>13
  <2>4. y[n + 1] = BaseSize(p[n + 1])
    BY <1>10 DEF e
  <2>5. Len(gs) # L + 1
    BY <1>2, <1>7
  <2>6. Placed(p, gs, z, n + 1, Len(fs), off[n], Len(gs), q)
    BY <1>12, <1>7, <2>1
  <2>7. /\ Len(gs) \in {Len(fs), Len(fs) + 1} /\ \A k \in 1 .. Len(fs) - 1 : gs[k] = fs[k]
        /\ Len(gs) = Len(fs) + 1 => Variable(p[n + 1])
    BY <1>9, <2>1, <2>5
  <2> HIDE DEF q, z, zb, y, yb
  <2> SUFFICES \E at2, off2 : Describes(p, n + 1, gs, z, y, at2, off2)
    BY DEF z, y
  <2>8. GoesOn(p, n, fs, zb, yb, off[n], gs, z, y, q)
    BY ONLY <2>2, <2>3, <2>4, <2>6, <2>7 DEF GoesOn
  <2> QED BY ONLY <2>1, <2>8, n \in Nat, DescribesStep
<1>15. /\ c = [frags |-> c.frags, sizes |-> c.sizes, symbols |-> c.symbols]
       /\ DOMAIN c.symbols = DOMAIN p
  OBVIOUS
<1>16. Len(gs) # 0
  BY ONLY <1>2, <1>7
<1> QED BY ONLY <1>7, <1>8, <1>16, <1>11, <1>14, <1>15 DEF IsBuilt, gs

LEMMA NewIs == NewFragment \in FragType /\ IsLast(NewFragment)
               /\ NewFragment.state = "small" /\ NewFragment.fix = 0 /\ NewFragment.oldFix = 0
BY DEF NewFragment, FragType, IsLast

\* The last fragment, with the bytes of the entry in fs1, ends with it.
LEMMA StepBehind ==
  ASSUME NEW p, IsProgram(p), NEW n \in Nat, n + 1 \in DOMAIN p,
         NEW b, IsBuilt(p, n, b), NEW c, Variable(p[n + 1]),
         c = [frags |-> c.frags, sizes |-> c.sizes, symbols |-> c.symbols],
         NEW fs1 \in Seq(FragType), Len(fs1) = Len(b.frags),
         \A k \in 1 .. Len(b.frags) - 1 : fs1[k] = b.frags[k],
         fs1[Len(fs1)].state = "small", fs1[Len(fs1)].fix = fs1[Len(fs1)].oldFix,
         fs1[Len(fs1)].oldFix = b.frags[Len(b.frags)].oldFix + BaseSize(p[n + 1]),
         LET L == Len(fs1)
         IN  c.frags = Append([fs1 EXCEPT ![L] = Ended(fs1[L], n + 1, p[n + 1], p[n + 1].kind)],
                              NewFragment),
         c.sizes = [b.sizes EXCEPT ![n + 1] = BaseSize(p[n + 1])],
         DOMAIN c.symbols = DOMAIN p, \A i \in 1 .. n : c.symbols[i] = b.symbols[i]
  PROVE  IsBuilt(p, n + 1, c)
<1> DEFINE fs == b.frags
           gs == c.frags
           L == Len(fs)
           e == p[n + 1]
           h == Ended(fs1[L], n + 1, e, e.kind)
           hs == [fs1 EXCEPT ![L] = h]
<1>1. PICK at, off : Describes(p, n, b.frags, b.symbols, b.sizes, at, off)
  BY DEF IsBuilt
<1>2. /\ fs \in Seq(FragType) /\ L \in Nat \ {0} /\ L \in 1 .. L
      /\ fs[L] \in FragType
      /\ \A k \in 1 .. L : fs[k].state = "small" /\ fs[k].fix = fs[k].oldFix
  BY DEF IsBuilt
<1>3. IsLast(fs[L]) /\ off[n] = fs[L].oldFix /\ off[n] \in Nat
  BY <1>1, <1>2 DEF Describes, FragType
<1>4. e \in EntryType /\ Variable(e)
  BY DEF IsProgram
<1>5. Len(fs1) = L /\ fs1[L] \in FragType /\ n + 1 \in Nat /\ \A k \in 1 .. L - 1 : fs1[k] = fs[k]
  <2>1. Len(fs1) = L
    OBVIOUS
  <2>2. fs1[L] \in FragType
    BY <1>2, <2>1, ElementOfSeq
  <2> QED BY <2>1, <2>2
<1>6. /\ h \in FragType /\ Ends(p, h, n + 1) /\ h.state = "small" /\ h.fix = h.oldFix
      /\ h.oldFix = off[n] + BaseSize(e)
  <2>1. /\ fs1[L].state = "small" /\ fs1[L].fix = fs1[L].oldFix
        /\ fs1[L].oldFix = fs[L].oldFix + BaseSize(e)
    BY <1>5
  <2>2. p[n + 1] \in EntryType /\ Variable(p[n + 1])
    BY <1>4
  <2>3. /\ h \in FragType /\ Ends(p, h, n + 1) /\ h.state = "small" /\ h.fix = h.oldFix
        /\ h.oldFix = fs1[L].oldFix
    BY ONLY <1>5, <2>1, <2>2, EndedIs
  <2> HIDE DEF h
  <2> QED BY ONLY <2>1, <2>3, <1>3
<1>7. gs = Append(hs, NewFragment)
  BY <1>5
<1> HIDE DEF fs, gs, L, e, h
<1>8. /\ hs \in Seq(FragType) /\ Len(hs) = L
      /\ \A k \in 1 .. L : hs[k] = IF k = L THEN h ELSE fs1[k]
  BY ONLY <1>2, <1>5, <1>6, ExceptSeq, fs1 \in Seq(FragType)
<1> HIDE DEF hs
<1>9. /\ gs \in Seq(FragType) /\ Len(gs) = L + 1
      /\ \A k \in 1 .. L : gs[k] = hs[k]
      /\ gs[L + 1] = NewFragment
  BY ONLY <1>7, <1>8, NewIs, AppendProperties
<1>10. gs[L] = h /\ \A k \in 1 .. L - 1 : gs[k] = fs[k]
  <2>1. gs[L] = h
    BY ONLY <1>2, <1>8, <1>9
  <2>2. ASSUME NEW k \in 1 .. L - 1 PROVE gs[k] = fs[k]
    <3>1. k \in 1 .. L /\ k # L
      BY <1>2
    <3> QED BY ONLY <3>1, <1>5, <1>8, <1>9, <2>2
  <2> QED BY ONLY <2>1, <2>2
<1>11. \A k \in 1 .. L + 1 : gs[k].state = "small" /\ gs[k].fix = gs[k].oldFix
  <2> TAKE k \in 1 .. L + 1
  <2>1. CASE k = L
    BY ONLY <2>1, <1>6, <1>10
  <2>2. CASE k = L + 1
    BY ONLY <2>2, <1>9, NewIs
  <2>3. CASE k # L /\ k # L + 1
    <3>1. k \in 1 .. L - 1 /\ k \in 1 .. L
      BY <2>3, <1>2
    <3> QED BY ONLY <3>1, <1>2, <1>10
  <2> QED BY <2>1, <2>2, <2>3
<1>12. BaseSize(e) \in Nat
  BY <1>4 DEF BaseSize, EntryType
<1>13. c.sizes[n + 1] = BaseSize(e) /\ \A i \in 1 .. n : c.sizes[i] = b.sizes[i]
  <2>1. b.sizes \in [DOMAIN p -> Nat] /\ DOMAIN p = 1 .. Len(p) /\ Len(p) \in Nat
    BY DEF IsBuilt, IsProgram
  <2> QED BY <2>1 DEF e
<1>14. c.sizes \in [DOMAIN p -> Nat] /\ \A j \in DOMAIN p : j > n + 1 => c.sizes[j] = 0
  <2>1. /\ b.sizes \in [DOMAIN p -> Nat] /\ \A j \in DOMAIN p : j > n => b.sizes[j] = 0
        /\ DOMAIN p = 1 .. Len(p) /\ Len(p) \in Nat
    BY DEF IsBuilt, IsProgram
  <2>2. c.sizes \in [DOMAIN p -> Nat]
    BY <2>1, <1>12 DEF e
  <2>3. \A j \in DOMAIN p : j > n + 1 => c.sizes[j] = 0
    BY <2>1
  <2> QED BY <2>2, <2>3
<1>15. Placed(p, gs, c.symbols, n + 1, L, off[n], L + 1, 0)
  <2>1. e.kind \notin {"bytes", "float", "label"}
    BY <1>4 DEF Variable, IsJump
  <2> QED BY <2>1, <1>6, <1>10 DEF Placed, e
<1>16. \E at2, off2 : Describes(p, n + 1, gs, c.symbols, c.sizes, at2, off2)
  <2> DEFINE z == c.symbols
             zb == b.symbols
             y == c.sizes
             yb == b.sizes
  <2>1. Describes(p, n, fs, zb, yb, at, off) /\ Len(fs) \in Nat \ {0} /\ Len(fs) = L
    BY <1>1, <1>2 DEF fs, L
  <2>2. \A i \in 1 .. n : z[i] = zb[i] /\ y[i] = yb[i]
    BY <1>13
  <2>3. 0 \in Nat /\ 0 = gs[Len(gs)].oldFix /\ IsLast(gs[Len(gs)])
    BY <1>9, NewIs
  <2>4. y[n + 1] = BaseSize(p[n + 1]) /\ Variable(p[n + 1])
    BY <1>13, <1>4 DEF e
  <2>6. Placed(p, gs, z, n + 1, Len(fs), off[n], Len(gs), 0)
    BY <1>15, <1>9, <2>1
  <2>7. /\ Len(gs) \in {Len(fs), Len(fs) + 1} /\ \A k \in 1 .. Len(fs) - 1 : gs[k] = fs[k]
    BY <1>9, <1>10, <2>1
  <2> HIDE DEF z, zb, y, yb
  <2> SUFFICES \E at2, off2 : Describes(p, n + 1, gs, z, y, at2, off2)
    BY DEF z, y
  <2>8. GoesOn(p, n, fs, zb, yb, off[n], gs, z, y, 0)
    BY ONLY <2>2, <2>3, <2>4, <2>6, <2>7 DEF GoesOn
  <2> QED BY ONLY <2>1, <2>8, n \in Nat, DescribesStep
<1>17. /\ c = [frags |-> c.frags, sizes |-> c.sizes, symbols |-> c.symbols]
       /\ DOMAIN c.symbols = DOMAIN p
  OBVIOUS
<1>18. Len(gs) # 0 /\ 1 .. Len(gs) = 1 .. L + 1
  BY ONLY <1>2, <1>9
<1> QED BY ONLY <1>9, <1>11, <1>18, <1>14, <1>16, <1>17 DEF IsBuilt, gs

\* What the parts of BuildEntry do to the fields of b.
IsRecord(b) == b = [frags |-> b.frags, sizes |-> b.sizes, symbols |-> b.symbols]
WithFrags(b, fs) == [frags |-> fs, sizes |-> b.sizes, symbols |-> b.symbols]

LEMMA GrowIs ==
  ASSUME NEW b, IsRecord(b), NEW n
  PROVE  LET L == Len(b.frags)
         IN  Grow(b, n) = WithFrags(b, [b.frags EXCEPT ![L] = Grown(b.frags[L], n)])
<1> DEFINE L == Len(b.frags)
           fs == [b.frags EXCEPT ![L] = Grown(b.frags[L], n)]
<1>1. Grow(b, n) = [b EXCEPT !.frags = fs]
  BY Zenon DEF Grow
<1> HIDE DEF fs
<1>2. [b EXCEPT !.frags = fs] = WithFrags(b, fs)
  BY DEF IsRecord, WithFrags
<1> QED BY <1>1, <1>2 DEF fs

LEMMA EndFragmentIs ==
  ASSUME NEW b, IsRecord(b), NEW i, NEW e, NEW kind
  PROVE  LET L == Len(b.frags)
         IN  EndFragment(b, i, e, kind) =
               WithFrags(b, Append([b.frags EXCEPT ![L] = Ended(b.frags[L], i, e, kind)],
                                   NewFragment))
<1> DEFINE L == Len(b.frags)
           fs == Append([b.frags EXCEPT ![L] = Ended(b.frags[L], i, e, kind)], NewFragment)
<1>1. EndFragment(b, i, e, kind) = [b EXCEPT !.frags = fs]
  BY Zenon DEF EndFragment
<1> HIDE DEF fs
<1>2. [b EXCEPT !.frags = fs] = WithFrags(b, fs)
  BY DEF IsRecord, WithFrags
<1> QED BY <1>1, <1>2 DEF fs

LEMMA SizedIs ==
  ASSUME NEW b, IsRecord(b), NEW i, NEW n
  PROVE  /\ IsRecord(Sized(b, i, n)) /\ Sized(b, i, n).frags = b.frags
         /\ Sized(b, i, n).sizes = [b.sizes EXCEPT ![i] = n] /\ Sized(b, i, n).symbols = b.symbols
<1> DEFINE y == [b.sizes EXCEPT ![i] = n]
<1>1. Sized(b, i, n) = [b EXCEPT !.sizes = y]
  BY Zenon DEF Sized
<1> HIDE DEF y
<1>2. [b EXCEPT !.sizes = y] = [frags |-> b.frags, sizes |-> y, symbols |-> b.symbols]
  BY DEF IsRecord
<1>3. Sized(b, i, n) = [frags |-> b.frags, sizes |-> y, symbols |-> b.symbols]
  BY <1>1, <1>2
<1> QED BY ONLY <1>3 DEF IsRecord, y

LEMMA LabelledIs ==
  ASSUME NEW b, IsRecord(b), NEW i
  PROVE  /\ IsRecord(Labelled(b, i))
         /\ Labelled(b, i).frags = b.frags /\ Labelled(b, i).sizes = b.sizes
         /\ Labelled(b, i).symbols =
              [b.symbols EXCEPT ![i] = <<Len(b.frags), b.frags[Len(b.frags)].fix>>]
<1> DEFINE y == [b.symbols EXCEPT ![i] = <<Len(b.frags), b.frags[Len(b.frags)].fix>>]
<1>1. Labelled(b, i) = [b EXCEPT !.symbols = y]
  BY Zenon DEF Labelled
<1> HIDE DEF y
<1>2. [b EXCEPT !.symbols = y] = [frags |-> b.frags, sizes |-> b.sizes, symbols |-> y]
  BY DEF IsRecord
<1>3. Labelled(b, i) = [frags |-> b.frags, sizes |-> b.sizes, symbols |-> y]
  BY <1>1, <1>2
<1> QED BY ONLY <1>3 DEF IsRecord, y

\* What BuildEntry makes of entry i.
LEMMA BuildEntryIs ==
  ASSUME NEW p, NEW ops, NEW b, NEW i, p[i] \in EntryType, ops[i] = "short"
  PROVE  LET e == p[i]
             c == BuildEntry(p, ops, b, i)
         IN  \/ e.kind = "bytes" /\ c = Grow(Sized(b, i, e.size), e.size)
             \/ e.kind = "float" /\ c = Sized(b, i, e.size)
             \/ e.kind = "label" /\ c = Labelled(b, i)
             \/ IsJump(e) /\ c = EndFragment(Grow(Sized(b, i, 1), 1), i, e, e.kind)
             \/ e.kind = "align" /\ c = EndFragment(Sized(b, i, 0), i, e, e.kind)
<1> DEFINE e == p[i]
           c == BuildEntry(p, ops, b, i)
<1>1. e.kind \in {"bytes", "float", "label", "align", "jmp", "jcc"}
  BY DEF EntryType
<1>2. IsJump(e) => JumpKind(p, ops, i) = e.kind
  BY DEF JumpKind, IsJump
<1>3. CASE e.kind = "bytes"
  BY <1>3 DEF BuildEntry, IsJump
<1>4. CASE e.kind = "float"
  BY <1>4 DEF BuildEntry, IsJump
<1>5. CASE e.kind = "label"
  BY <1>5 DEF BuildEntry, IsJump
<1>6. CASE e.kind \in {"jmp", "jcc"}
  BY <1>2, <1>6 DEF BuildEntry, IsJump
<1>7. CASE e.kind = "align"
  BY <1>7 DEF BuildEntry, IsJump
<1> QED BY <1>1, <1>3, <1>4, <1>5, <1>6, <1>7

\* Growing by nothing changes nothing.
LEMMA GrownByNone ==
  ASSUME NEW fs \in Seq(FragType), NEW k \in 1 .. Len(fs)
  PROVE  [fs EXCEPT ![k] = Grown(fs[k], 0)] = fs
<1> DEFINE f == fs[k]
<1>1. f \in FragType
  OBVIOUS
<1> HIDE DEF f
<1>2. f.fix + 0 = f.fix /\ f.oldFix + 0 = f.oldFix
  <2>1. f.fix \in Nat /\ f.oldFix \in Nat
    BY ONLY <1>1 DEF FragType
  <2> QED BY ONLY <2>1
<1> DEFINE g == [f EXCEPT !.fix = f.fix + 0]
<1>3. g = f
  BY <1>1, <1>2 DEF FragType
<1>4. Grown(f, 0) = [g EXCEPT !.oldFix = g.oldFix + 0]
  BY Zenon DEF Grown
<1> HIDE DEF g
<1>5. Grown(f, 0) = f
  BY <1>1, <1>2, <1>3, <1>4 DEF FragType
<1>6. [fs EXCEPT ![k] = fs[k]] = fs
  OBVIOUS
<1> QED BY <1>5, <1>6 DEF f

\* What has been built stays built.
LEMMA BuildStep ==
  ASSUME NEW p, IsProgram(p), NEW ops, NEW n \in Nat, n + 1 \in DOMAIN p,
         NEW b, IsBuilt(p, n, b), ops[n + 1] = "short"
  PROVE  IsBuilt(p, n + 1, BuildEntry(p, ops, b, n + 1))
<1> DEFINE i == n + 1
           e == p[i]
           c == BuildEntry(p, ops, b, i)
           fs == b.frags
           L == Len(fs)
<1>1. IsRecord(b)
  BY DEF IsBuilt, IsRecord
<1>2. e \in EntryType
  BY DEF IsProgram
<1>3. /\ fs \in Seq(FragType) /\ L \in Nat \ {0} /\ L \in 1 .. L /\ fs[L] \in FragType
      /\ fs[L].state = "small" /\ fs[L].fix = fs[L].oldFix
      /\ DOMAIN b.symbols = DOMAIN p
      /\ b.sizes \in [DOMAIN p -> Nat] /\ b.sizes[i] = 0
  BY DEF IsBuilt
<1>4. IsLast(fs[L])
  BY DEF IsBuilt, Describes
<1>5. DOMAIN p = 1 .. Len(p) /\ Len(p) \in Nat /\ i \in DOMAIN p /\ \A j \in 1 .. n : j # i
  BY DEF IsProgram
<1>6. \/ e.kind = "bytes" /\ c = Grow(Sized(b, i, e.size), e.size)
      \/ e.kind = "float" /\ c = Sized(b, i, e.size)
      \/ e.kind = "label" /\ c = Labelled(b, i)
      \/ IsJump(e) /\ c = EndFragment(Grow(Sized(b, i, 1), 1), i, e, e.kind)
      \/ e.kind = "align" /\ c = EndFragment(Sized(b, i, 0), i, e, e.kind)
  <2>1. ops[i] = "short" /\ p[i] \in EntryType
    BY <1>2
  <2> QED BY ONLY <2>1, BuildEntryIs
<1>7. e.size \in Nat
  BY <1>2 DEF EntryType
<1>8. [fs EXCEPT ![L] = Grown(fs[L], 0)] = fs
  BY <1>3, GrownByNone
<1> DEFINE Inside(m) ==
             /\ e.kind \in {"bytes", "float", "label"}
             /\ m = IF e.kind = "bytes" THEN e.size ELSE 0
             /\ IsRecord(c) /\ c.frags = [fs EXCEPT ![L] = Grown(fs[L], m)]
             /\ c.sizes = [b.sizes EXCEPT ![i] = BaseSize(e)]
             /\ DOMAIN c.symbols = DOMAIN p /\ \A j \in 1 .. n : c.symbols[j] = b.symbols[j]
             /\ e.kind = "label" => c.symbols[i] = <<L, fs[L].fix>>
           Behind(fs1) ==
             /\ Variable(e) /\ Len(fs1) = L
             /\ \A k \in 1 .. L - 1 : fs1[k] = fs[k]
             /\ fs1[L].state = "small" /\ fs1[L].fix = fs1[L].oldFix
             /\ fs1[L].oldFix = fs[L].oldFix + BaseSize(e)
             /\ IsRecord(c)
             /\ c.frags = Append([fs1 EXCEPT ![L] = Ended(fs1[L], i, e, e.kind)], NewFragment)
             /\ c.sizes = [b.sizes EXCEPT ![i] = BaseSize(e)] /\ c.symbols = b.symbols
<1>9. ASSUME NEW m \in Nat, Inside(m)
      PROVE  IsBuilt(p, n + 1, c)
  <2>1. c = [frags |-> c.frags, sizes |-> c.sizes, symbols |-> c.symbols]
    BY <1>9 DEF IsRecord
  <2>2. ~Variable(p[n + 1])
    BY <1>9 DEF Variable, IsJump
  <2>3. /\ p[n + 1].kind = "bytes" => m = p[n + 1].size
        /\ p[n + 1].kind # "bytes" => m = 0
        /\ p[n + 1].kind = "label" =>
             c.symbols[n + 1] = <<Len(b.frags), b.frags[Len(b.frags)].fix>>
    BY <1>9
  <2>4. /\ c.frags = [b.frags EXCEPT ![Len(b.frags)] = Grown(b.frags[Len(b.frags)], m)]
        /\ c.sizes = [b.sizes EXCEPT ![n + 1] = BaseSize(p[n + 1])]
        /\ DOMAIN c.symbols = DOMAIN p /\ \A j \in 1 .. n : c.symbols[j] = b.symbols[j]
    BY <1>9
  <2> HIDE DEF c
  <2> DEFINE K == Len(b.frags)
  <2>5. c.frags = [b.frags EXCEPT ![K] = Grown(b.frags[K], m)]
    BY <2>4
  <2> QED BY ONLY <2>1, <2>2, <2>3, <2>4, <2>5, StepInside, m \in Nat, IsProgram(p),
             n \in Nat, n + 1 \in DOMAIN p, IsBuilt(p, n, b)
<1>10. ASSUME NEW fs1 \in Seq(FragType), Behind(fs1)
       PROVE  IsBuilt(p, n + 1, c)
  <2>1. c = [frags |-> c.frags, sizes |-> c.sizes, symbols |-> c.symbols]
    BY <1>10 DEF IsRecord
  <2>2. DOMAIN c.symbols = DOMAIN p /\ \A j \in 1 .. n : c.symbols[j] = b.symbols[j]
    BY <1>3, <1>10
  <2>3. /\ c.frags = Append([fs1 EXCEPT ![Len(fs1)] =
                               Ended(fs1[Len(fs1)], n + 1, p[n + 1], p[n + 1].kind)],
                            NewFragment)
        /\ c.sizes = [b.sizes EXCEPT ![n + 1] = BaseSize(p[n + 1])]
        /\ Variable(p[n + 1]) /\ Len(fs1) = Len(b.frags)
        /\ \A k \in 1 .. Len(b.frags) - 1 : fs1[k] = b.frags[k]
        /\ fs1[Len(fs1)].state = "small" /\ fs1[Len(fs1)].fix = fs1[Len(fs1)].oldFix
        /\ fs1[Len(fs1)].oldFix = b.frags[Len(b.frags)].oldFix + BaseSize(p[n + 1])
    BY <1>10
  <2> HIDE DEF c
  <2> QED BY <2>1, <2>2, <2>3, <1>10, StepBehind
<1>11. \A m : /\ IsRecord(Sized(b, i, m)) /\ Sized(b, i, m).frags = fs
              /\ Sized(b, i, m).sizes = [b.sizes EXCEPT ![i] = m]
              /\ Sized(b, i, m).symbols = b.symbols
  BY ONLY <1>1, SizedIs DEF fs
<1>12. BaseSize(e) = IF e.kind \in {"bytes", "float"} THEN e.size ELSE IF IsJump(e) THEN 1 ELSE 0
  BY DEF BaseSize
<1> SUFFICES IsBuilt(p, n + 1, c)
  OBVIOUS
<1> HIDE DEF c, e, L, i, Inside, Behind
<1>13. CASE e.kind = "bytes"
  <2> DEFINE d == Sized(b, i, e.size)
             gs == [fs EXCEPT ![L] = Grown(fs[L], e.size)]
  <2>1. IsRecord(d) /\ d.frags = fs /\ d.sizes = [b.sizes EXCEPT ![i] = e.size]
        /\ d.symbols = b.symbols
    BY ONLY <1>11
  <2>2. c = Grow(d, e.size)
    BY ONLY <1>6, <1>13 DEF IsJump
  <2> HIDE DEF d
  <2>3. c = WithFrags(d, gs)
    BY ONLY <2>1, <2>2, GrowIs DEF L
  <2> HIDE DEF gs
  <2>4. c.frags = gs /\ c.sizes = d.sizes /\ c.symbols = d.symbols /\ IsRecord(c)
    BY ONLY <2>3 DEF IsRecord, WithFrags
  <2>5. BaseSize(e) = e.size
    BY ONLY <1>12, <1>13
  <2>6. Inside(e.size)
    BY ONLY <2>1, <2>4, <2>5, <1>3, <1>13 DEF gs, Inside
  <2> QED BY ONLY <2>6, <1>7, <1>9
<1>14. CASE e.kind = "float"
  <2>1. c = Sized(b, i, e.size)
    BY ONLY <1>6, <1>14 DEF IsJump
  <2>2. BaseSize(e) = e.size
    BY ONLY <1>12, <1>14
  <2>3. IsRecord(c) /\ c.frags = fs /\ c.sizes = [b.sizes EXCEPT ![i] = e.size]
        /\ c.symbols = b.symbols
    BY ONLY <2>1, <1>11
  <2>4. Inside(0)
    BY ONLY <2>2, <2>3, <1>3, <1>8, <1>14 DEF Inside
  <2> QED BY <2>4, <1>9
<1>15. CASE e.kind = "label"
  <2>1. c = Labelled(b, i)
    BY ONLY <1>6, <1>15 DEF IsJump
  <2>2. BaseSize(e) = 0
    BY ONLY <1>12, <1>15 DEF IsJump
  <2>3. IsRecord(c) /\ c.frags = fs /\ c.sizes = b.sizes
        /\ c.symbols = [b.symbols EXCEPT ![i] = <<L, fs[L].fix>>]
    BY ONLY <2>1, <1>1, LabelledIs DEF L
  <2>4. b.sizes = [b.sizes EXCEPT ![i] = BaseSize(e)]
    BY <2>2, <1>3
  <2>5. DOMAIN c.symbols = DOMAIN p /\ \A j \in 1 .. n : c.symbols[j] = b.symbols[j]
    BY <2>3, <1>3, <1>5
  <2>6. c.symbols[i] = <<L, fs[L].fix>>
    BY <2>3, <1>3, <1>5
  <2>7. Inside(0)
    BY ONLY <2>3, <2>4, <2>5, <2>6, <1>8, <1>15 DEF Inside
  <2> QED BY <2>7, <1>9
<1>16. CASE IsJump(e)
  <2> DEFINE d == Sized(b, i, 1)
             h == Grown(fs[L], 1)
             gs == [fs EXCEPT ![L] = h]
             g == Grow(d, 1)
  <2>1. IsRecord(d) /\ d.frags = fs /\ d.sizes = [b.sizes EXCEPT ![i] = 1]
        /\ d.symbols = b.symbols
    BY ONLY <1>11
  <2>2. c = EndFragment(g, i, e, e.kind)
    BY ONLY <1>6, <1>16 DEF IsJump
  <2> HIDE DEF d
  <2>3. g = WithFrags(d, gs)
    BY ONLY <2>1, GrowIs DEF L
  <2>4. /\ h \in FragType /\ h.state = "small" /\ h.fix = h.oldFix
        /\ h.oldFix = fs[L].oldFix + 1
    BY ONLY <1>3, <1>4, GrownIs
  <2> HIDE DEF h, g
  <2>5. /\ gs \in Seq(FragType) /\ Len(gs) = L /\ gs[L] = h
        /\ \A k \in 1 .. L - 1 : gs[k] = fs[k]
    <3>1. /\ gs \in Seq(FragType) /\ Len(gs) = L
          /\ \A k \in 1 .. L : gs[k] = IF k = L THEN h ELSE fs[k]
      BY ONLY <2>4, <1>3, ExceptSeq DEF L
    <3>2. \A k \in 1 .. L - 1 : k \in 1 .. L /\ k # L
      BY <1>3
    <3> HIDE DEF gs
    <3> QED BY ONLY <3>1, <3>2, <1>3
  <2> HIDE DEF gs
  <2>6. IsRecord(g) /\ g.frags = gs /\ g.sizes = d.sizes /\ g.symbols = d.symbols
    BY ONLY <2>3 DEF IsRecord, WithFrags
  <2> DEFINE hs == Append([gs EXCEPT ![L] = Ended(gs[L], i, e, e.kind)], NewFragment)
  <2>7. c = WithFrags(g, hs)
    <3>1. c = WithFrags(g, Append([g.frags EXCEPT ![Len(g.frags)] =
                                     Ended(g.frags[Len(g.frags)], i, e, e.kind)],
                                  NewFragment))
      BY ONLY <2>2, <2>6, EndFragmentIs
    <3>2. g.frags = gs /\ Len(gs) = L
      BY <2>5, <2>6
    <3> QED BY ONLY <3>1, <3>2
  <2> HIDE DEF hs
  <2>8. IsRecord(c) /\ c.frags = hs /\ c.sizes = g.sizes /\ c.symbols = g.symbols
    BY ONLY <2>7 DEF IsRecord, WithFrags
  <2>9. BaseSize(e) = 1 /\ Variable(e)
    BY ONLY <1>12, <1>16 DEF Variable, IsJump
  <2>10. /\ c.frags = Append([gs EXCEPT ![L] = Ended(gs[L], i, e, e.kind)], NewFragment)
         /\ c.sizes = [b.sizes EXCEPT ![i] = BaseSize(e)] /\ c.symbols = b.symbols
    BY ONLY <2>1, <2>6, <2>8, <2>9 DEF hs
  <2>11. Behind(gs)
    BY ONLY <2>4, <2>5, <2>8, <2>9, <2>10 DEF Behind
  <2> QED BY ONLY <2>5, <2>11, <1>10
<1>17. CASE e.kind = "align"
  <2> DEFINE d == Sized(b, i, 0)
             hs == Append([fs EXCEPT ![L] = Ended(fs[L], i, e, e.kind)], NewFragment)
  <2>1. IsRecord(d) /\ d.frags = fs /\ d.sizes = [b.sizes EXCEPT ![i] = 0]
        /\ d.symbols = b.symbols
    BY ONLY <1>11
  <2>2. c = EndFragment(d, i, e, e.kind)
    BY ONLY <1>6, <1>17 DEF IsJump
  <2> HIDE DEF d
  <2>3. c = WithFrags(d, hs)
    <3>1. c = WithFrags(d, Append([d.frags EXCEPT ![Len(d.frags)] =
                                     Ended(d.frags[Len(d.frags)], i, e, e.kind)],
                                  NewFragment))
      BY ONLY <2>1, <2>2, EndFragmentIs
    <3>2. d.frags = fs /\ Len(fs) = L
      BY <2>1 DEF L
    <3> QED BY ONLY <3>1, <3>2
  <2> HIDE DEF hs
  <2>4. IsRecord(c) /\ c.frags = hs /\ c.sizes = d.sizes /\ c.symbols = d.symbols
    BY ONLY <2>3 DEF IsRecord, WithFrags
  <2>5. BaseSize(e) = 0 /\ Variable(e)
    BY ONLY <1>12, <1>17 DEF Variable, IsJump
  <2>6. fs[L].oldFix = fs[L].oldFix + 0
    BY <1>3 DEF FragType
  <2>7. /\ c.frags = Append([fs EXCEPT ![L] = Ended(fs[L], i, e, e.kind)], NewFragment)
        /\ c.sizes = [b.sizes EXCEPT ![i] = BaseSize(e)] /\ c.symbols = b.symbols
        /\ fs[L].oldFix = fs[L].oldFix + BaseSize(e)
    BY ONLY <2>1, <2>4, <2>5, <2>6 DEF hs
  <2>8. Len(fs) = L
    BY DEF L
  <2>9. Behind(fs)
    BY ONLY <2>4, <2>5, <2>7, <2>8, <1>3 DEF Behind
  <2> QED BY ONLY <2>9, <1>3, <1>10
<1> QED BY ONLY <1>6, <1>13, <1>14, <1>15, <1>16, <1>17

\* The steps of BuildFragments.
IsBuilding(u, n, p, ops) ==
  u = [i \in 0 .. n |-> IF i = 0 THEN NothingBuilt(p) ELSE BuildEntry(p, ops, u[i - 1], i)]

LEMMA BuildingExists ==
  ASSUME NEW p, NEW ops, NEW N \in Nat
  PROVE  \E u : IsBuilding(u, N, p, ops)
<1> DEFINE D == {n \in Nat : ~ \E u : IsBuilding(u, n, p, ops)}
<1> SUFFICES ASSUME D # {} PROVE FALSE
  OBVIOUS
<1>1. PICK n \in D : \A m \in D : n <= m
  <2>1. D \subseteq Nat /\ D # {}
    OBVIOUS
  <2> HIDE DEF D
  <2> QED BY ONLY <2>1, LeastElement
<1>2. CASE n = 0
  <2> DEFINE u == [i \in 0 .. 0 |-> NothingBuilt(p)]
  <2>1. IsBuilding(u, 0, p, ops)
    BY DEF IsBuilding
  <2> QED BY <2>1, <1>1, <1>2
<1>3. CASE n # 0
  <2>1. n - 1 \in Nat /\ n - 1 \notin D
    BY <1>1, <1>3
  <2>2. PICK u : IsBuilding(u, n - 1, p, ops)
    BY <2>1
  <2> DEFINE last == BuildEntry(p, ops, u[n - 1], n)
             v == [i \in 0 .. n |-> IF i = n THEN last ELSE u[i]]
  <2>3. \A i \in 0 .. n - 1 :
          u[i] = IF i = 0 THEN NothingBuilt(p) ELSE BuildEntry(p, ops, u[i - 1], i)
    BY ONLY <2>1, <2>2 DEF IsBuilding
  <2>4. ASSUME NEW i \in 0 .. n
        PROVE  v[i] = IF i = 0 THEN NothingBuilt(p) ELSE BuildEntry(p, ops, v[i - 1], i)
    <3>1. CASE i = n
      <4>1. i - 1 \in 0 .. n /\ i - 1 # n /\ v[i - 1] = u[i - 1] /\ v[i] = last /\ i # 0
        BY <3>1, <2>1, <1>3
      <4>2. last = BuildEntry(p, ops, u[i - 1], i)
        BY <3>1
      <4> HIDE DEF v, last
      <4> QED BY <4>1, <4>2
    <3>2. CASE i # n
      <4>1. i \in 0 .. n - 1 /\ v[i] = u[i]
        BY <3>2, <2>1
      <4>2. i # 0 => i - 1 \in 0 .. n /\ i - 1 # n /\ v[i - 1] = u[i - 1]
        BY <3>2, <2>1
      <4> HIDE DEF v
      <4> QED BY <4>1, <4>2, <2>3
    <3> QED BY <3>1, <3>2
  <2>5. IsBuilding(v, n, p, ops)
    <3>1. v = [i \in 0 .. n |-> v[i]]
      OBVIOUS
    <3> HIDE DEF v
    <3> QED BY ONLY <3>1, <2>4 DEF IsBuilding
  <2> QED BY <2>5, <1>1
<1> QED BY <1>2, <1>3

\* BuildFragments describes the section.
LEMMA BuiltLemma ==
  ASSUME NEW p, IsProgram(p), NEW ops, \A i \in DOMAIN p : ops[i] = "short"
  PROVE  IsBuilt(p, Len(p), Built(p, ops))
<1> DEFINE N == Len(p)
           u == CHOOSE v : IsBuilding(v, N, p, ops)
<1>1. N \in Nat /\ DOMAIN p = 1 .. N
  BY DEF IsProgram
<1>2. Built(p, ops) = u[N]
  BY Zenon DEF Built, IsBuilding
<1>3. IsBuilding(u, N, p, ops)
  <2> HIDE DEF N
  <2> QED BY ONLY <1>1, BuildingExists
<1> HIDE DEF u, N
<1>4. \A i \in 0 .. N :
        u[i] = IF i = 0 THEN NothingBuilt(p) ELSE BuildEntry(p, ops, u[i - 1], i)
  BY ONLY <1>3 DEF IsBuilding
<1> DEFINE D == {i \in 0 .. N : ~IsBuilt(p, i, u[i])}
<1>5. D = {}
  <2> SUFFICES ASSUME D # {} PROVE FALSE
    OBVIOUS
  <2>1. PICK n \in D : \A m \in D : n <= m
    <3>1. D \subseteq Nat /\ D # {}
      BY <1>1
    <3> HIDE DEF D
    <3> QED BY ONLY <3>1, LeastElement
  <2>2. n # 0
    BY <2>1, <1>4, NothingIsBuilt
  <2>3. n - 1 \in Nat /\ n - 1 \in 0 .. N /\ n - 1 \notin D /\ (n - 1) + 1 = n /\ n \in DOMAIN p
    BY <2>1, <2>2, <1>1
  <2>4. IsBuilt(p, n - 1, u[n - 1])
    BY <2>3
  <2>5. ops[(n - 1) + 1] = "short" /\ (n - 1) + 1 \in DOMAIN p
    BY <2>3
  <2>6. IsBuilt(p, (n - 1) + 1, BuildEntry(p, ops, u[n - 1], (n - 1) + 1))
    BY ONLY <2>3, <2>4, <2>5, IsProgram(p), BuildStep
  <2>7. u[n] = BuildEntry(p, ops, u[n - 1], n)
    BY <2>1, <2>2, <1>4
  <2>8. IsBuilt(p, n, u[n])
    BY ONLY <2>3, <2>6, <2>7
  <2> QED BY <2>1, <2>8
<1>6. IsBuilt(p, N, u[N])
  BY <1>1, <1>5
<1> QED BY <1>2, <1>6 DEF N

-----------------------------------------------------------------------------
(* One sweep.                                                              *)

\* The state of a fragment after the sweep: a jump may become long.
LEMMA NextIs ==
  ASSUME NEW f \in FragType, NEW aim
  PROVE  /\ NextState(f, aim) \in {"small", "big", "waned"}
         /\ NextState(f, aim) # f.state =>
              f.kind \in JumpKinds /\ f.state = "small" /\ NextState(f, aim) = "big"
BY DEF NextState, FragType, JumpKinds

\* f in another state.
In(f, s) == [f EXCEPT !.state = s]

LEMMA InIs ==
  ASSUME NEW f \in FragType, NEW s \in {"small", "big", "waned"}
  PROVE  /\ In(f, s) \in FragType /\ In(f, s).state = s
         /\ In(f, s).fix = f.fix /\ In(f, s).oldFix = f.oldFix /\ In(f, s).kind = f.kind
         /\ In(f, s).entry = f.entry /\ In(f, s).target = f.target
         /\ In(f, s).to = f.to /\ In(f, s).max = f.max
         /\ s = f.state => In(f, s) = f
<1>1. In(f, s) \in FragType
  BY DEF In, FragType
<1>2. s = f.state => In(f, s) = f
  BY DEF In, FragType
<1>3. /\ In(f, s).state = s
      /\ In(f, s).fix = f.fix /\ In(f, s).oldFix = f.oldFix /\ In(f, s).kind = f.kind
      /\ In(f, s).entry = f.entry /\ In(f, s).target = f.target
      /\ In(f, s).to = f.to /\ In(f, s).max = f.max
  BY DEF In, FragType
<1> QED BY <1>1, <1>2, <1>3

IsSweep(g, n, p, syms, fs, was) ==
  g = [k \in 0 .. n |->
         IF k = 0 THEN [stretch |-> 0, at |-> was, frags |-> fs]
                  ELSE SweepFrag(p, syms, fs, was, g[k - 1], k)]

LEMMA SweepExists ==
  ASSUME NEW p, NEW syms, NEW fs, NEW was, NEW N \in Nat
  PROVE  \E g : IsSweep(g, N, p, syms, fs, was)
<1> DEFINE start == [stretch |-> 0, at |-> was, frags |-> fs]
           Step(b, k) == SweepFrag(p, syms, fs, was, b, k)
           D == {n \in Nat : ~ \E g : IsSweep(g, n, p, syms, fs, was)}
<1>0. \A g, n : IsSweep(g, n, p, syms, fs, was) <=>
                  g = [k \in 0 .. n |-> IF k = 0 THEN start ELSE Step(g[k - 1], k)]
  BY DEF IsSweep
<1> HIDE DEF start, Step
<1> SUFFICES ASSUME D # {} PROVE FALSE
  OBVIOUS
<1>1. PICK n \in D : \A m \in D : n <= m
  <2>1. D \subseteq Nat /\ D # {}
    OBVIOUS
  <2> HIDE DEF D
  <2> QED BY ONLY <2>1, LeastElement
<1>2. CASE n = 0
  <2> DEFINE u == [k \in 0 .. 0 |-> start]
  <2>1. u = [k \in 0 .. 0 |-> IF k = 0 THEN start ELSE Step(u[k - 1], k)]
    OBVIOUS
  <2>2. IsSweep(u, 0, p, syms, fs, was)
    BY ONLY <1>0, <2>1
  <2> QED BY <2>2, <1>1, <1>2
<1>3. CASE n # 0
  <2>1. n - 1 \in Nat /\ n - 1 \notin D
    BY <1>1, <1>3
  <2>2. PICK u : IsSweep(u, n - 1, p, syms, fs, was)
    BY <2>1
  <2> DEFINE last == Step(u[n - 1], n)
             v == [k \in 0 .. n |-> IF k = n THEN last ELSE u[k]]
  <2>3. \A k \in 0 .. n - 1 : u[k] = IF k = 0 THEN start ELSE Step(u[k - 1], k)
    <3>1. u = [k \in 0 .. n - 1 |-> IF k = 0 THEN start ELSE Step(u[k - 1], k)]
      BY ONLY <2>2, <1>0
    <3> QED BY ONLY <2>1, <3>1
  <2>4. ASSUME NEW k \in 0 .. n
        PROVE  v[k] = IF k = 0 THEN start ELSE Step(v[k - 1], k)
    <3>1. CASE k = n
      <4>1. k - 1 \in 0 .. n /\ k - 1 # n /\ v[k - 1] = u[k - 1] /\ v[k] = last /\ k # 0
        BY <3>1, <2>1, <1>3
      <4>2. last = Step(u[k - 1], k)
        BY <3>1
      <4> HIDE DEF v, last
      <4> QED BY <4>1, <4>2
    <3>2. CASE k # n
      <4>1. k \in 0 .. n - 1 /\ v[k] = u[k]
        BY <3>2, <2>1
      <4>2. k # 0 => k - 1 \in 0 .. n /\ k - 1 # n /\ v[k - 1] = u[k - 1]
        BY <3>2, <2>1
      <4> HIDE DEF v
      <4> QED BY <4>1, <4>2, <2>3
    <3> QED BY <3>1, <3>2
  <2>5. IsSweep(v, n, p, syms, fs, was)
    <3>1. v = [k \in 0 .. n |-> v[k]]
      OBVIOUS
    <3> HIDE DEF v
    <3>2. v = [k \in 0 .. n |-> IF k = 0 THEN start ELSE Step(v[k - 1], k)]
      BY ONLY <3>1, <2>4
    <3> QED BY ONLY <3>2, <1>0
  <2> QED BY <2>5, <1>1
<1> QED BY <1>2, <1>3

\* What the sweep has done when it comes to fragment k + 1.
SweepsTo(p, syms, fs, was, g, k) ==
  /\ g[k].stretch \in Int /\ g[k].at \in [1 .. Len(fs) -> Int]
  /\ g[k].frags \in Seq(FragType) /\ Len(g[k].frags) = Len(fs)
  /\ \A j \in 1 .. Len(fs) : j > k => g[k].at[j] = was[j] /\ g[k].frags[j] = fs[j]
  /\ \A j \in 1 .. k :
       /\ g[k].at[j] = was[j] + g[j - 1].stretch
       /\ g[k].frags[j] =
            In(fs[j], NextState(fs[j], Aim(p, syms, fs[j], j, was[j] + g[j - 1].stretch,
                                           g[j - 1].stretch, g[j].at)))
       /\ g[j].stretch = g[j - 1].stretch +
            (VarSize(g[k].frags[j], was[j] + g[j - 1].stretch) - VarSize(fs[j], was[j]))

LEMMA SweepStep ==
  ASSUME NEW p, NEW syms, NEW fs \in Seq(FragType), NEW was \in [1 .. Len(fs) -> Int],
         NEW g, NEW k \in 1 .. Len(fs), SweepsTo(p, syms, fs, was, g, k - 1),
         g[k] = SweepFrag(p, syms, fs, was, g[k - 1], k)
  PROVE  SweepsTo(p, syms, fs, was, g, k)
<1> DEFINE N == Len(fs)
           f == fs[k]
           b == g[k - 1]
           a == was[k] + b.stretch
           at == [b.at EXCEPT ![k] = a]
           aim == Aim(p, syms, f, k, a, b.stretch, at)
           new == In(f, NextState(f, aim))
           hs == [b.frags EXCEPT ![k] = new]
           growth == VarSize(new, a) - VarSize(f, was[k])
<1>1. /\ N \in Nat /\ k \in 1 .. N /\ f \in FragType /\ was[k] \in Int
      /\ k - 1 \in Nat /\ (k - 1) + 1 = k
  OBVIOUS
<1>2. /\ b.stretch \in Int /\ b.at \in [1 .. N -> Int]
      /\ b.frags \in Seq(FragType) /\ Len(b.frags) = N
      /\ \A j \in 1 .. N : j > k - 1 => b.at[j] = was[j] /\ b.frags[j] = fs[j]
  BY DEF SweepsTo
<1>3. \A j \in 1 .. k - 1 :
       /\ b.at[j] = was[j] + g[j - 1].stretch
       /\ b.frags[j] =
            In(fs[j], NextState(fs[j], Aim(p, syms, fs[j], j, was[j] + g[j - 1].stretch,
                                           g[j - 1].stretch, g[j].at)))
       /\ g[j].stretch = g[j - 1].stretch +
            (VarSize(b.frags[j], was[j] + g[j - 1].stretch) - VarSize(fs[j], was[j]))
  BY DEF SweepsTo
<1>4. g[k] = [stretch |-> b.stretch + growth, at |-> at, frags |-> hs]
  BY Zenon DEF SweepFrag, In
<1> HIDE DEF b, N, f
<1>5. a \in Int /\ at \in [1 .. N -> Int] /\ at[k] = a /\ \A j \in 1 .. N : j # k => at[j] = b.at[j]
  BY ONLY <1>1, <1>2
<1> HIDE DEF at, aim, a
<1>6. new \in FragType
  <2>1. NextState(f, aim) \in {"small", "big", "waned"}
    BY ONLY <1>1, NextIs
  <2> QED BY ONLY <1>1, <2>1, InIs
<1> HIDE DEF new
<1>7. /\ hs \in Seq(FragType) /\ Len(hs) = N
      /\ \A j \in 1 .. N : hs[j] = IF j = k THEN new ELSE b.frags[j]
  BY ONLY <1>1, <1>2, <1>6, ExceptSeq
<1> HIDE DEF hs
<1>8. growth \in Int
  <2>1. VarSize(new, a) \in Int /\ VarSize(f, was[k]) \in Int
    BY ONLY <1>1, <1>5, <1>6, VarType
  <2> QED BY <2>1
<1> HIDE DEF growth
<1>9. g[k].stretch = b.stretch + growth /\ g[k].at = at /\ g[k].frags = hs
  BY ONLY <1>4
<1>10. g[k].stretch \in Int /\ g[k].at \in [1 .. N -> Int] /\ g[k].frags \in Seq(FragType)
       /\ Len(g[k].frags) = N
  BY ONLY <1>2, <1>5, <1>7, <1>8, <1>9
<1>11. ASSUME NEW j \in 1 .. N, j > k
       PROVE  g[k].at[j] = was[j] /\ g[k].frags[j] = fs[j]
  <2>1. j # k /\ j > k - 1
    BY <1>1, <1>11
  <2> QED BY ONLY <2>1, <1>2, <1>5, <1>7, <1>9, j \in 1 .. N
<1>12. ASSUME NEW j \in 1 .. k
       PROVE  /\ g[k].at[j] = was[j] + g[j - 1].stretch
              /\ g[k].frags[j] =
                   In(fs[j], NextState(fs[j], Aim(p, syms, fs[j], j, was[j] + g[j - 1].stretch,
                                                  g[j - 1].stretch, g[j].at)))
              /\ g[j].stretch = g[j - 1].stretch +
                   (VarSize(g[k].frags[j], was[j] + g[j - 1].stretch) - VarSize(fs[j], was[j]))
  <2>1. CASE j = k
    <3>1. g[k].at[k] = was[k] + b.stretch
      BY ONLY <1>5, <1>9 DEF a
    <3>2. g[k].frags[k] = new
      BY ONLY <1>1, <1>7, <1>9
    <3>3. new = In(fs[k], NextState(fs[k], Aim(p, syms, fs[k], k, was[k] + b.stretch,
                                               b.stretch, g[k].at)))
      BY ONLY <1>9 DEF new, aim, a, f
    <3>4. g[k].stretch = b.stretch + (VarSize(new, was[k] + b.stretch) - VarSize(fs[k], was[k]))
      BY ONLY <1>9 DEF growth, a, f
    <3> QED BY ONLY <2>1, <3>1, <3>2, <3>3, <3>4 DEF b
  <2>2. CASE j # k
    <3>1. j \in 1 .. k - 1 /\ j \in 1 .. N
      BY <2>2, <1>1
    <3>2. g[k].at[j] = b.at[j] /\ g[k].frags[j] = b.frags[j]
      BY ONLY <2>2, <3>1, <1>5, <1>7, <1>9
    <3> QED BY ONLY <3>1, <3>2, <1>3
  <2> QED BY <2>1, <2>2
<1> QED BY ONLY <1>10, <1>11, <1>12 DEF SweepsTo, N

\* A fragment after a sweep is as it was, or its jump has become long.
Raised(f, g) ==
  g = f \/ (f.kind \in JumpKinds /\ f.state = "small" /\ g = In(f, "big"))

\* No jump has to be made long.
Settled(p, syms, fs, at) ==
  \A k \in 1 .. Len(fs) :
    NextState(fs[k], Aim(p, syms, fs[k], k, at[k], 0, at)) = fs[k].state

\* r is what a sweep makes of the fragments fs at their addresses.
IsSwept(p, syms, fs, was, r) ==
  /\ r.frags \in Seq(FragType) /\ Len(r.frags) = Len(fs)
  /\ \A k \in 1 .. Len(fs) : Raised(fs[k], r.frags[k])
  /\ IsLayout(r.frags, r.at)
  /\ r.at = was <=> Settled(p, syms, fs, was)
  /\ r.at = was => r.frags = fs
  /\ r.at # was => \E k \in 1 .. Len(fs) : r.frags[k] # fs[k]

\* A sweep goes over the fragments.
LEMMA SweepGoes ==
  ASSUME NEW p, NEW syms, NEW fs \in Seq(FragType), Len(fs) >= 1,
         NEW was \in [1 .. Len(fs) -> Int]
  PROVE  \E g : /\ Swept(p, syms, fs, was) = g[Len(fs)]
                /\ g[0] = [stretch |-> 0, at |-> was, frags |-> fs]
                /\ \A k \in 0 .. Len(fs) : SweepsTo(p, syms, fs, was, g, k)
<1> DEFINE N == Len(fs)
           g == CHOOSE h : IsSweep(h, N, p, syms, fs, was)
<1>1. N \in Nat /\ N >= 1
  OBVIOUS
<1>2. Swept(p, syms, fs, was) = g[N]
  BY Zenon DEF Swept, IsSweep
<1>3. IsSweep(g, N, p, syms, fs, was)
  <2> HIDE DEF N
  <2> QED BY ONLY <1>1, SweepExists
<1> HIDE DEF g
<1>4. /\ g[0] = [stretch |-> 0, at |-> was, frags |-> fs]
      /\ \A k \in 1 .. N : g[k] = SweepFrag(p, syms, fs, was, g[k - 1], k)
  <2>1. \A k \in 0 .. N : g[k] = IF k = 0 THEN [stretch |-> 0, at |-> was, frags |-> fs]
                                 ELSE SweepFrag(p, syms, fs, was, g[k - 1], k)
    BY ONLY <1>3 DEF IsSweep
  <2>2. 0 \in 0 .. N /\ \A k \in 1 .. N : k \in 0 .. N /\ k # 0
    BY ONLY <1>1
  <2> QED BY ONLY <2>1, <2>2
<1> DEFINE D == {k \in 0 .. N : ~SweepsTo(p, syms, fs, was, g, k)}
<1>5. D = {}
  <2> SUFFICES ASSUME D # {} PROVE FALSE
    OBVIOUS
  <2>1. PICK k \in D : \A m \in D : k <= m
    <3>1. D \subseteq Nat /\ D # {}
      BY <1>1
    <3> HIDE DEF D
    <3> QED BY ONLY <3>1, LeastElement
  <2>2. SweepsTo(p, syms, fs, was, g, 0)
    <3>1. g[0].stretch = 0 /\ g[0].at = was /\ g[0].frags = fs
      BY ONLY <1>4
    <3> QED BY <3>1 DEF SweepsTo
  <2>3. k \in 1 .. N /\ k - 1 \notin D /\ k - 1 \in 0 .. N
    BY <2>1, <2>2, <1>1
  <2>4. SweepsTo(p, syms, fs, was, g, k - 1)
    BY <2>3
  <2>5. SweepsTo(p, syms, fs, was, g, k)
    BY <2>3, <2>4, <1>4, SweepStep
  <2> QED BY <2>1, <2>5
<1> QED BY <1>2, <1>4, <1>5 DEF N

\* What a sweep does: the addresses are again those of the fragments, and
\* they stay only if no jump has to become long.
LEMMA SweepLemma ==
  ASSUME NEW p, NEW syms, NEW fs \in Seq(FragType), Len(fs) >= 1,
         NEW was, IsLayout(fs, was), fs[Len(fs)].kind = "end"
  PROVE  IsSwept(p, syms, fs, was, Swept(p, syms, fs, was))
<1> DEFINE N == Len(fs)
           r == Swept(p, syms, fs, was)
           Stays(k) == NextState(fs[k], Aim(p, syms, fs[k], k, was[k], 0, was)) = fs[k].state
<1>0. N \in Nat /\ N >= 1 /\ was \in [1 .. N -> Int] /\ \A k \in 1 .. N : fs[k] \in FragType
  BY DEF IsLayout
<1>1. PICK g : /\ r = g[N] /\ g[0] = [stretch |-> 0, at |-> was, frags |-> fs]
               /\ \A k \in 0 .. N : SweepsTo(p, syms, fs, was, g, k)
  BY <1>0, SweepGoes
<1> HIDE DEF r
<1>2. /\ r.frags \in Seq(FragType) /\ Len(r.frags) = N /\ r.at \in [1 .. N -> Int]
      /\ \A j \in 1 .. N :
          /\ r.at[j] = was[j] + g[j - 1].stretch
          /\ r.frags[j] =
               In(fs[j], NextState(fs[j], Aim(p, syms, fs[j], j, was[j] + g[j - 1].stretch,
                                              g[j - 1].stretch, g[j].at)))
          /\ g[j].stretch = g[j - 1].stretch +
               (VarSize(r.frags[j], was[j] + g[j - 1].stretch) - VarSize(fs[j], was[j]))
  <2>1. SweepsTo(p, syms, fs, was, g, N)
    BY <1>0, <1>1
  <2> QED BY <2>1, <1>1 DEF SweepsTo
<1>3. \A k \in 0 .. N : /\ g[k].stretch \in Int /\ g[k].at \in [1 .. N -> Int]
                        /\ \A j \in 1 .. N : j > k => g[k].at[j] = was[j]
                        /\ \A j \in 1 .. k : g[k].at[j] = was[j] + g[j - 1].stretch
  BY <1>1 DEF SweepsTo
<1>4. g[0].stretch = 0
  BY ONLY <1>1
<1> HIDE DEF N
<1>5. \A k \in 1 .. N : Raised(fs[k], r.frags[k])
  <2> TAKE k \in 1 .. N
  <2> DEFINE s == NextState(fs[k], Aim(p, syms, fs[k], k, was[k] + g[k - 1].stretch,
                                       g[k - 1].stretch, g[k].at))
  <2>1. fs[k] \in FragType /\ r.frags[k] = In(fs[k], s)
    BY ONLY <1>0, <1>2
  <2>2. /\ s \in {"small", "big", "waned"}
        /\ s # fs[k].state => fs[k].kind \in JumpKinds /\ fs[k].state = "small" /\ s = "big"
    BY ONLY <2>1, NextIs
  <2> HIDE DEF s
  <2>3. s = fs[k].state => In(fs[k], s) = fs[k]
    BY ONLY <2>1, <2>2, InIs
  <2> QED BY ONLY <2>1, <2>2, <2>3 DEF Raised
<1>6. \A k \in 1 .. N : r.frags[k].fix = fs[k].fix /\ r.frags[k] \in FragType
  <2> TAKE k \in 1 .. N
  <2>1. In(fs[k], "big").fix = fs[k].fix
    BY ONLY <1>0, InIs
  <2> QED BY ONLY <2>1, <1>2, <1>5 DEF Raised
<1>7. IsLayout(r.frags, r.at)
  <2>1. r.at[1] = 0
    <3>1. 1 \in 1 .. N /\ 1 - 1 = 0 /\ was[1] = 0
      BY <1>0 DEF IsLayout
    <3> QED BY ONLY <3>1, <1>2, <1>4
  <2>2. ASSUME NEW k \in 1 .. N - 1
        PROVE  r.at[k + 1] = r.at[k] + r.frags[k].fix + VarSize(r.frags[k], r.at[k])
    <3>1. k \in 1 .. N /\ k + 1 \in 1 .. N /\ (k + 1) - 1 = k /\ k \in 0 .. N /\ k - 1 \in 0 .. N
      BY ONLY <1>0
    <3>2. was[k + 1] = was[k] + fs[k].fix + VarSize(fs[k], was[k])
      BY DEF IsLayout, N
    <3>3. r.at[k + 1] = was[k + 1] + g[k].stretch /\ r.at[k] = was[k] + g[k - 1].stretch
      BY ONLY <3>1, <1>2
    <3>4. g[k].stretch = g[k - 1].stretch + (VarSize(r.frags[k], r.at[k]) - VarSize(fs[k], was[k]))
      BY ONLY <3>1, <3>3, <1>2
    <3>5. /\ was[k] \in Int /\ g[k - 1].stretch \in Int /\ fs[k].fix \in Int
          /\ r.frags[k].fix = fs[k].fix /\ r.at[k] \in Int
      <4>1. was[k] \in Int /\ r.at[k] \in Int /\ fs[k] \in FragType
        BY ONLY <3>1, <1>0, <1>2
      <4>2. g[k - 1].stretch \in Int
        BY ONLY <3>1, <1>3
      <4>3. r.frags[k].fix = fs[k].fix
        BY ONLY <3>1, <1>6
      <4> QED BY ONLY <4>1, <4>2, <4>3 DEF FragType
    <3>6. VarSize(r.frags[k], r.at[k]) \in Int /\ VarSize(fs[k], was[k]) \in Int
      BY ONLY <3>1, <3>5, <1>0, <1>6, VarType
    <3> DEFINE was0 == was[k]
               was1 == was[k + 1]
               g0 == g[k - 1].stretch
               g1 == g[k].stretch
               at0 == r.at[k]
               x == fs[k].fix
               v0 == VarSize(fs[k], was[k])
               v1 == VarSize(r.frags[k], r.at[k])
    <3>7. was1 = was0 + x + v0 /\ r.at[k + 1] = was1 + g1 /\ at0 = was0 + g0
          /\ g1 = g0 + (v1 - v0) /\ r.frags[k].fix = x
      BY ONLY <3>2, <3>3, <3>4, <3>5
    <3>8. was0 \in Int /\ g0 \in Int /\ x \in Int /\ at0 \in Int /\ v0 \in Int /\ v1 \in Int
      BY ONLY <3>5, <3>6
    <3>9. r.at[k + 1] = at0 + r.frags[k].fix + v1
      <4> HIDE DEF was0, was1, g0, g1, at0, x, v0, v1
      <4> QED BY ONLY <3>7, <3>8
    <3> QED BY <3>9
  <2> QED BY ONLY <2>1, <2>2, <1>2 DEF IsLayout
<1>8. ASSUME \A k \in 0 .. N - 1 : g[k].stretch = 0
      PROVE  \A k \in 1 .. N : g[k].at = was /\ r.at[k] = was[k]
  <2> TAKE k \in 1 .. N
  <2>1. k \in 0 .. N /\ k - 1 \in 0 .. N - 1
    BY ONLY <1>0
  <2>2. r.at[k] = was[k]
    <3>1. r.at[k] = was[k] + g[k - 1].stretch
      BY ONLY <1>2
    <3>2. g[k - 1].stretch = 0 /\ was[k] \in Int
      BY ONLY <2>1, <1>0, <1>8
    <3> QED BY ONLY <3>1, <3>2
  <2>3. \A j \in 1 .. N : g[k].at[j] = was[j]
    <3> TAKE j \in 1 .. N
    <3>1. CASE j > k
      BY ONLY <3>1, <2>1, <1>3
    <3>2. CASE ~ j > k
      <4>1. j \in 1 .. k /\ j - 1 \in 0 .. N - 1 /\ was[j] \in Int
        BY ONLY <3>2, <1>0
      <4>2. g[k].at[j] = was[j] + g[j - 1].stretch
        BY ONLY <4>1, <2>1, <1>3
      <4>3. g[j - 1].stretch = 0
        BY ONLY <4>1, <1>8
      <4> QED BY ONLY <4>1, <4>2, <4>3
    <3> QED BY <3>1, <3>2
  <2>4. g[k].at = was
    <3>1. g[k].at \in [1 .. N -> Int] /\ was \in [1 .. N -> Int]
      BY ONLY <2>1, <1>0, <1>3
    <3> DEFINE h == g[k].at
    <3>2. h \in [1 .. N -> Int] /\ \A j \in 1 .. N : h[j] = was[j]
      BY ONLY <2>3, <3>1
    <3> HIDE DEF h
    <3>3. [j \in 1 .. N |-> h[j]] = [j \in 1 .. N |-> was[j]]
      BY ONLY <3>2
    <3>4. h = [j \in 1 .. N |-> h[j]] /\ was = [j \in 1 .. N |-> was[j]]
      BY ONLY <3>1, <3>2
    <3>5. h = was
      BY ONLY <3>3, <3>4
    <3> QED BY <3>5 DEF h
  <2> QED BY ONLY <2>2, <2>4
<1>9. ASSUME \A k \in 0 .. N - 1 : g[k].stretch = 0, NEW k \in 1 .. N
      PROVE  r.frags[k] = In(fs[k], NextState(fs[k], Aim(p, syms, fs[k], k, was[k], 0, was)))
  <2>1. k - 1 \in 0 .. N - 1 /\ was[k] \in Int
    BY ONLY <1>0
  <2>2. g[k - 1].stretch = 0 /\ was[k] + g[k - 1].stretch = was[k]
    BY ONLY <2>1, <1>9
  <2>3. g[k].at = was
    BY ONLY <1>8, <1>9
  <2>4. r.frags[k] = In(fs[k], NextState(fs[k], Aim(p, syms, fs[k], k, was[k] + g[k - 1].stretch,
                                              g[k - 1].stretch, g[k].at)))
    BY ONLY <1>2
  <2> QED BY ONLY <2>2, <2>3, <2>4
<1>10. ASSUME r.at = was
       PROVE  r.frags = fs /\ \A k \in 1 .. N : Stays(k)
  <2>1. \A k \in 0 .. N - 1 : g[k].stretch = 0
    <3> TAKE k \in 0 .. N - 1
    <3>1. k + 1 \in 1 .. N /\ (k + 1) - 1 = k /\ was[k + 1] \in Int /\ g[k].stretch \in Int
      BY ONLY <1>0, <1>3
    <3>2. was[k + 1] = was[k + 1] + g[k].stretch
      BY ONLY <3>1, <1>2, <1>10
    <3> QED BY ONLY <3>1, <3>2
  <2>2. ASSUME NEW k \in 1 .. N
        PROVE  Stays(k) /\ r.frags[k] = fs[k]
    <3> DEFINE s == NextState(fs[k], Aim(p, syms, fs[k], k, was[k], 0, was))
    <3>1. fs[k] \in FragType /\ r.frags[k] = In(fs[k], s)
      BY <1>0, <1>9, <2>1
    <3>2. /\ s \in {"small", "big", "waned"}
          /\ s # fs[k].state => fs[k].kind \in JumpKinds /\ fs[k].state = "small" /\ s = "big"
      BY ONLY <3>1, NextIs
    <3> HIDE DEF s
    <3>3. s = fs[k].state
      <4>1. CASE k = N
        BY ONLY <4>1, <3>2, fs[Len(fs)].kind = "end" DEF N, JumpKinds
      <4>2. CASE k # N
        <5>1. k \in 0 .. N - 1 /\ k - 1 \in 0 .. N - 1 /\ was[k] \in Int
          BY ONLY <4>2, <1>0
        <5>2. g[k].stretch = 0 /\ g[k - 1].stretch = 0
          BY ONLY <5>1, <2>1
        <5>3. VarSize(r.frags[k], was[k]) \in Int /\ VarSize(fs[k], was[k]) \in Int
          BY ONLY <5>1, <3>1, <1>6, VarType
        <5>4. g[k].stretch = g[k - 1].stretch +
               (VarSize(r.frags[k], was[k] + g[k - 1].stretch) - VarSize(fs[k], was[k]))
          BY ONLY <1>2
        <5>5. was[k] + g[k - 1].stretch = was[k]
          BY ONLY <5>1, <5>2
        <5>6. VarSize(r.frags[k], was[k]) = VarSize(fs[k], was[k])
          BY ONLY <5>2, <5>3, <5>4, <5>5
        <5>7. /\ In(fs[k], "big").kind = fs[k].kind /\ In(fs[k], "big").state = "big"
          BY ONLY <3>1, InIs
        <5>8. ASSUME s # fs[k].state PROVE FALSE
          <6>1. /\ r.frags[k].kind = fs[k].kind /\ r.frags[k].state = "big"
                /\ fs[k].kind \in JumpKinds /\ fs[k].state = "small"
            BY ONLY <5>7, <5>8, <3>1, <3>2
          <6>2. VarSize(r.frags[k], was[k]) \in {4, 5} /\ VarSize(fs[k], was[k]) = 1
            BY ONLY <6>1, JumpSize
          <6> QED BY ONLY <6>2, <5>6
        <5> QED BY <5>8
      <4> QED BY <4>1, <4>2
    <3>4. In(fs[k], s) = fs[k]
      BY ONLY <3>1, <3>2, <3>3, InIs
    <3> QED BY ONLY <3>1, <3>3, <3>4 DEF s
  <2>3. r.frags = fs
    <3>1. \A k \in 1 .. Len(fs) : r.frags[k] = fs[k]
      BY <2>2 DEF N
    <3> QED BY ONLY <3>1, <1>2, fs \in Seq(FragType), SeqEqual DEF N
  <2> QED BY ONLY <2>2, <2>3
<1>11. ASSUME \A k \in 1 .. N : Stays(k)
       PROVE  r.at = was
  <2> DEFINE D == {k \in 0 .. N : g[k].stretch # 0}
  <2>1. D = {}
    <3> SUFFICES ASSUME D # {} PROVE FALSE
      OBVIOUS
    <3>1. PICK k \in D : \A m \in D : k <= m
      <4>1. D \subseteq Nat /\ D # {}
        BY <1>0
      <4> HIDE DEF D
      <4> QED BY ONLY <4>1, LeastElement
    <3>2. k # 0 /\ k \in 0 .. N /\ g[k].stretch # 0
      BY <3>1, <1>4
    <3>3. k \in 1 .. N /\ \A m \in 0 .. k - 1 : m \in 0 .. N /\ m \notin D
      BY <3>1, <3>2, <1>0
    <3>4. \A m \in 0 .. k - 1 : g[m].stretch = 0
      BY <3>3
    <3> HIDE DEF D, Stays
    <3>5. g[k].at = was
      <4>1. \A j \in 1 .. N : g[k].at[j] = was[j]
        <5> TAKE j \in 1 .. N
        <5>1. CASE j > k
          BY ONLY <5>1, <3>2, <1>3
        <5>2. CASE ~ j > k
          <6>1. j \in 1 .. k /\ j - 1 \in 0 .. k - 1 /\ was[j] \in Int
            BY ONLY <5>2, <3>3, <1>0
          <6>2. g[k].at[j] = was[j] + g[j - 1].stretch
            BY ONLY <6>1, <3>2, <1>3
          <6>3. g[j - 1].stretch = 0
            BY ONLY <6>1, <3>4
          <6> QED BY ONLY <6>1, <6>2, <6>3
        <5> QED BY <5>1, <5>2
      <4>2. g[k].at \in [1 .. N -> Int] /\ was \in [1 .. N -> Int]
        BY ONLY <3>2, <1>0, <1>3
      <4> DEFINE h == g[k].at
      <4>3. h \in [1 .. N -> Int] /\ \A j \in 1 .. N : h[j] = was[j]
        BY ONLY <4>1, <4>2
      <4> HIDE DEF h
      <4>4. [j \in 1 .. N |-> h[j]] = [j \in 1 .. N |-> was[j]]
        BY ONLY <4>3
      <4>5. h = [j \in 1 .. N |-> h[j]] /\ was = [j \in 1 .. N |-> was[j]]
        BY ONLY <4>2, <4>3
      <4>6. h = was
        BY ONLY <4>4, <4>5
      <4> QED BY <4>6 DEF h
    <3>6. k - 1 \in 0 .. k - 1 /\ was[k] \in Int /\ fs[k] \in FragType
      BY ONLY <3>3, <1>0
    <3>7. g[k - 1].stretch = 0 /\ was[k] + g[k - 1].stretch = was[k]
      BY ONLY <3>4, <3>6
    <3>8. r.frags[k] = In(fs[k], NextState(fs[k], Aim(p, syms, fs[k], k, was[k], 0, was)))
      <4>1. r.frags[k] =
               In(fs[k], NextState(fs[k], Aim(p, syms, fs[k], k, was[k] + g[k - 1].stretch,
                                              g[k - 1].stretch, g[k].at)))
        BY ONLY <3>3, <1>2
      <4> QED BY ONLY <4>1, <3>5, <3>7
    <3>9. r.frags[k] = fs[k]
      <4>1. NextState(fs[k], Aim(p, syms, fs[k], k, was[k], 0, was)) = fs[k].state
        BY <3>3, <1>11 DEF Stays
      <4>2. fs[k].state \in {"small", "big", "waned"}
        BY ONLY <3>6 DEF FragType
      <4> QED BY ONLY <4>1, <4>2, <3>6, <3>8, InIs
    <3>10. g[k].stretch = g[k - 1].stretch +
               (VarSize(r.frags[k], was[k] + g[k - 1].stretch) - VarSize(fs[k], was[k]))
      BY ONLY <3>3, <1>2
    <3>11. VarSize(fs[k], was[k]) \in Int
      BY ONLY <3>6, VarType
    <3>12. g[k].stretch = 0
      BY ONLY <3>7, <3>9, <3>10, <3>11
    <3> QED BY ONLY <3>2, <3>12
  <2>2. \A k \in 0 .. N - 1 : g[k].stretch = 0
    BY <2>1, <1>0
  <2>3. \A k \in 1 .. N : r.at[k] = was[k]
    BY <2>2, <1>8
  <2> QED BY ONLY <2>3, <1>0, <1>2
<1>12. ASSUME r.at # was
       PROVE  \E k \in 1 .. N : r.frags[k] # fs[k]
  <2> SUFFICES ASSUME \A k \in 1 .. N : r.frags[k] = fs[k] PROVE FALSE
    OBVIOUS
  <2>1. r.frags = fs
    BY <1>2, SeqEqual DEF N
  <2>2. IsLayout(fs, r.at) /\ Len(fs) \in Nat
    BY <2>1, <1>7
  <2>3. r.at = was
    BY ONLY <2>2, IsLayout(fs, was), LayoutUnique
  <2> QED BY <2>3, <1>12
<1>13. r.at = was <=> Settled(p, syms, fs, was)
  BY <1>10, <1>11 DEF Settled, N
<1> HIDE DEF Stays
<1>14. IsSwept(p, syms, fs, was, r)
  BY <1>2, <1>5, <1>7, <1>10, <1>12, <1>13 DEF IsSwept, N
<1> QED BY <1>14 DEF r

-----------------------------------------------------------------------------
(* What Go reads off the addresses.                                        *)

\* Fragment f is what gas has made so far of g, which is as it was built.
Evolved(g, f) ==
  /\ f.oldFix = g.oldFix /\ f.kind = g.kind /\ f.entry = g.entry
  /\ f.target = g.target /\ f.to = g.to /\ f.max = g.max
  /\ f.state = "big" => f.kind \in JumpKinds
  /\ f.state = "waned" => /\ f.kind \in JumpKinds /\ f.target = 0
                          /\ f.fix = f.oldFix + VarLength(f.kind, "big")
  /\ f.state # "waned" => f.fix = f.oldFix

AllEvolved(b, fs) ==
  /\ fs \in Seq(FragType) /\ Len(fs) = Len(b.frags)
  /\ \A k \in 1 .. Len(fs) : Evolved(b.frags[k], fs[k])

\* Sweeping is over.
Measurable(p, b, fs, at) ==
  /\ AllEvolved(b, fs)
  /\ \A k \in 1 .. Len(fs) : ~OutOfReach(fs[k])
  /\ IsLayout(fs, at)
  /\ Settled(p, b.symbols, fs, at)

RelaxedOf(fs, at, k) == (at[k + 1] - at[k] - fs[k].fix) + (fs[k].fix - fs[k].oldFix)
SizesOf(p, fs, at, szs) ==
  [i \in DOMAIN p |->
     IF \E k \in DOMAIN fs : fs[k].entry = i
       THEN szs[i] + RelaxedOf(fs, at, CHOOSE k \in DOMAIN fs : fs[k].entry = i)
       ELSE szs[i]]

\* Size n of entry i, which begins at offset o of fragment k.
IsSize(p, fs, at, i, k, o, n) ==
  /\ ~Variable(p[i]) => n = BaseSize(p[i])
  /\ Variable(p[i]) =>
       /\ k + 1 \in 1 .. Len(fs) /\ Ends(p, fs[k], i) /\ fs[k].oldFix = o + BaseSize(p[i])
       /\ n = BaseSize(p[i]) + VarSize(fs[k], at[k]) + (fs[k].fix - fs[k].oldFix)

\* The fragment that an entry ends is the one that was built for it.
LEMMA SizesLemma ==
  ASSUME NEW p, IsProgram(p), NEW b, NEW fs, AllEvolved(b, fs), NEW at, IsLayout(fs, at),
         NEW pl, NEW off, Describes(p, Len(p), b.frags, b.symbols, b.sizes, pl, off),
         NEW i \in 1 .. Len(p)
  PROVE  IsSize(p, fs, at, i, pl[i - 1], off[i - 1], SizesOf(p, fs, at, b.sizes)[i])
<1> DEFINE N == Len(p)
           L == Len(fs)
           k == pl[i - 1]
           n == SizesOf(p, fs, at, b.sizes)[i]
<1>1. /\ N \in Nat /\ i \in 1 .. N /\ DOMAIN p = 1 .. N
      /\ L \in Nat /\ DOMAIN fs = 1 .. L /\ L = Len(b.frags)
      /\ \A j \in 1 .. L : fs[j] \in FragType /\ Evolved(b.frags[j], fs[j])
  BY DEF IsProgram, AllEvolved
<1>2. /\ pl \in [0 .. N -> Nat] /\ off \in [0 .. N -> Nat]
      /\ \A j \in 0 .. N : pl[j] \in 1 .. L
      /\ IsLast(b.frags[L])
      /\ \A j \in 1 .. N : /\ Placed(p, b.frags, b.symbols, j, pl[j - 1], off[j - 1], pl[j], off[j])
                           /\ b.sizes[j] = BaseSize(p[j])
      /\ \A m \in 1 .. L - 1 : \E j \in 1 .. N : Variable(p[j]) /\ pl[j - 1] = m
  BY <1>1 DEF Describes
<1>3. /\ at \in [1 .. L -> Int]
      /\ \A m \in 1 .. L - 1 : at[m + 1] = at[m] + fs[m].fix + VarSize(fs[m], at[m])
  BY DEF IsLayout
<1> HIDE DEF N, L
<1>4. \A m \in 1 .. L : /\ fs[m].entry = b.frags[m].entry /\ fs[m].oldFix = b.frags[m].oldFix
                        /\ \A j : Ends(p, b.frags[m], j) => Ends(p, fs[m], j)
  BY ONLY <1>1 DEF Evolved, Ends
<1>5. ASSUME NEW j \in 1 .. N, Variable(p[j])
      PROVE  /\ pl[j - 1] \in 1 .. L - 1 /\ Ends(p, fs[pl[j - 1]], j)
             /\ fs[pl[j - 1]].oldFix = off[j - 1] + BaseSize(p[j]) /\ fs[pl[j - 1]].entry = j
  <2>1. /\ pl[j] = pl[j - 1] + 1 /\ Ends(p, b.frags[pl[j - 1]], j)
        /\ b.frags[pl[j - 1]].oldFix = off[j - 1] + BaseSize(p[j])
    BY ONLY <1>2, <1>5 DEF Placed
  <2>2. pl[j] \in 1 .. L /\ pl[j - 1] \in 1 .. L
    <3>1. j \in 0 .. N /\ j - 1 \in 0 .. N
      BY ONLY <1>1
    <3> QED BY ONLY <3>1, <1>2
  <2>3. pl[j - 1] \in 1 .. L - 1
    BY ONLY <2>1, <2>2, <1>1
  <2>4. Ends(p, fs[pl[j - 1]], j) /\ fs[pl[j - 1]].oldFix = b.frags[pl[j - 1]].oldFix
    BY ONLY <2>1, <2>2, <1>4
  <2> QED BY ONLY <2>1, <2>3, <2>4 DEF Ends
<1>6. ASSUME NEW m \in 1 .. L, fs[m].entry = i
      PROVE  Variable(p[i]) /\ m = k
  <2>1. m # L
    <3>1. b.frags[L].entry = 0
      BY ONLY <1>2 DEF IsLast
    <3>2. m = L => fs[m].entry = 0
      BY ONLY <3>1, <1>4
    <3> QED BY ONLY <3>2, <1>1, <1>6
  <2>2. m \in 1 .. L - 1
    BY ONLY <2>1, <1>1
  <2>3. PICK j \in 1 .. N : Variable(p[j]) /\ pl[j - 1] = m
    BY ONLY <2>2, <1>2
  <2>4. fs[m].entry = j
    BY <2>3, <1>5
  <2> QED BY <2>3, <2>4, <1>6
<1>7. n = IF \E m \in 1 .. L : fs[m].entry = i
            THEN b.sizes[i] + RelaxedOf(fs, at, CHOOSE m \in 1 .. L : fs[m].entry = i)
            ELSE b.sizes[i]
  BY <1>1 DEF SizesOf
<1>8. b.sizes[i] = BaseSize(p[i])
  BY ONLY <1>1, <1>2
<1>9. CASE ~Variable(p[i])
  <2>1. n = b.sizes[i]
    BY <1>6, <1>7, <1>9
  <2> QED BY <2>1, <1>8, <1>9 DEF IsSize
<1>10. CASE Variable(p[i])
  <2>1. k \in 1 .. L - 1 /\ Ends(p, fs[k], i) /\ fs[k].entry = i /\ fs[k].oldFix = off[i - 1] + BaseSize(p[i])
    BY <1>1, <1>5, <1>10
  <2>2. k \in 1 .. L /\ k + 1 \in 1 .. L
    BY ONLY <2>1, <1>1
  <2>3. (CHOOSE m \in 1 .. L : fs[m].entry = i) = k
    BY <2>1, <2>2, <1>6
  <2>4. n = BaseSize(p[i]) + RelaxedOf(fs, at, k)
    BY ONLY <2>1, <2>2, <2>3, <1>7, <1>8
  <2>5. at[k + 1] = at[k] + fs[k].fix + VarSize(fs[k], at[k])
    BY ONLY <2>1, <1>3
  <2>6. at[k] \in Int /\ fs[k] \in FragType
    BY ONLY <2>2, <1>1, <1>3
  <2>7. VarSize(fs[k], at[k]) \in Int
    BY ONLY <2>6, VarType
  <2>8. BaseSize(p[i]) \in Nat
    BY <1>1, <1>10 DEF BaseSize, Variable, IsJump
  <2>9. RelaxedOf(fs, at, k) = VarSize(fs[k], at[k]) + (fs[k].fix - fs[k].oldFix)
    <3>1. fs[k].fix \in Int /\ fs[k].oldFix \in Int
      BY ONLY <2>6 DEF FragType
    <3>2. RelaxedOf(fs, at, k) = (at[k + 1] - at[k] - fs[k].fix) + (fs[k].fix - fs[k].oldFix)
      BY ONLY Zenon DEF RelaxedOf
    <3> HIDE DEF k
    <3> QED BY ONLY <3>1, <3>2, <2>5, <2>6, <2>7
  <2>10. n = BaseSize(p[i]) + VarSize(fs[k], at[k]) + (fs[k].fix - fs[k].oldFix)
    <3>1. fs[k].fix \in Int /\ fs[k].oldFix \in Int
      BY ONLY <2>6 DEF FragType
    <3> DEFINE v == VarSize(fs[k], at[k])
               d == fs[k].fix - fs[k].oldFix
    <3>2. n = BaseSize(p[i]) + (v + d)
      BY ONLY <2>4, <2>9
    <3>3. v \in Int /\ d \in Int
      BY ONLY <2>7, <3>1
    <3> HIDE DEF v, d
    <3>4. n = BaseSize(p[i]) + v + d
      BY ONLY <3>2, <3>3, <2>8
    <3> QED BY ONLY <3>4 DEF v, d
  <2> QED BY <1>10, <2>1, <2>2, <2>10 DEF IsSize, L
<1> QED BY <1>9, <1>10

\* Each entry begins where the one before it ends.
IsOffsets(f, n, s) == f = [i \in 1 .. n |-> IF i = 1 THEN 0 ELSE f[i - 1] + s[i - 1]]

LEMMA OffsetsExist ==
  ASSUME NEW s, NEW N \in Nat
  PROVE  \E f : IsOffsets(f, N, s)
<1> DEFINE D == {n \in Nat : ~ \E f : IsOffsets(f, n, s)}
<1> SUFFICES ASSUME D # {} PROVE FALSE
  OBVIOUS
<1>1. PICK n \in D : \A m \in D : n <= m
  <2>1. D \subseteq Nat /\ D # {}
    OBVIOUS
  <2> HIDE DEF D
  <2> QED BY ONLY <2>1, LeastElement
<1>2. CASE n = 0
  <2>1. IsOffsets([k \in 1 .. 0 |-> 0], 0, s)
    BY DEF IsOffsets
  <2> QED BY <2>1, <1>1, <1>2
<1>3. CASE n # 0
  <2>1. n - 1 \in Nat /\ n - 1 \notin D
    BY <1>1, <1>3
  <2>2. PICK f : IsOffsets(f, n - 1, s)
    BY <2>1
  <2> DEFINE last == IF n = 1 THEN 0 ELSE f[n - 1] + s[n - 1]
             g == [k \in 1 .. n |-> IF k = n THEN last ELSE f[k]]
  <2>3. \A k \in 1 .. n - 1 : f[k] = IF k = 1 THEN 0 ELSE f[k - 1] + s[k - 1]
    BY ONLY <2>1, <2>2 DEF IsOffsets
  <2>4. ASSUME NEW k \in 1 .. n
        PROVE  g[k] = IF k = 1 THEN 0 ELSE g[k - 1] + s[k - 1]
    <3>1. CASE k = n /\ k # 1
      <4>1. k - 1 \in 1 .. n /\ k - 1 # n /\ g[k - 1] = f[k - 1] /\ g[k] = last
        BY <3>1, <2>1
      <4>2. last = f[k - 1] + s[k - 1]
        BY <3>1
      <4> HIDE DEF g, last
      <4> QED BY <4>1, <4>2, <3>1
    <3>2. CASE k # n /\ k # 1
      <4>1. k \in 1 .. n - 1 /\ k - 1 \in 1 .. n /\ k - 1 # n /\ g[k] = f[k] /\ g[k - 1] = f[k - 1]
        BY <3>2, <2>1
      <4> HIDE DEF g
      <4> QED BY <4>1, <2>3, <3>2
    <3>3. CASE k = 1
      <4>1. k = n => g[k] = 0
        BY <3>3
      <4>2. k # n => k \in 1 .. n - 1 /\ g[k] = f[k]
        BY <2>1
      <4> HIDE DEF g
      <4> QED BY <4>1, <4>2, <2>3, <3>3
    <3> QED BY <3>1, <3>2, <3>3
  <2>5. IsOffsets(g, n, s)
    <3>1. g = [k \in 1 .. n |-> g[k]]
      OBVIOUS
    <3> HIDE DEF g
    <3> QED BY ONLY <3>1, <2>4 DEF IsOffsets
  <2> QED BY <2>5, <1>1
<1> QED BY <1>2, <1>3

LEMMA OffsetsLemma ==
  ASSUME NEW s, Len(s) \in Nat
  PROVE  \A i \in 1 .. Len(s) :
           OffsetsOf(s)[i] = IF i = 1 THEN 0 ELSE OffsetsOf(s)[i - 1] + s[i - 1]
<1> DEFINE N == Len(s)
           at == OffsetsOf(s)
<1>1. at = CHOOSE f : IsOffsets(f, N, s)
  BY DEF OffsetsOf, IsOffsets
<1> HIDE DEF at, N
<1>2. IsOffsets(at, N, s)
  <2>1. N \in Nat
    BY DEF N
  <2> QED BY ONLY <2>1, <1>1, OffsetsExist
<1>3. \A i \in 1 .. N : at[i] = IF i = 1 THEN 0 ELSE at[i - 1] + s[i - 1]
  BY ONLY <1>2 DEF IsOffsets
<1> QED BY <1>3 DEF at, N

FloatsIn(p) == \E i \in DOMAIN p : p[i].kind = "float"

\* The offset in the map is the address of the fragment and the offset in it.
LEMMA PlacesLemma ==
  ASSUME NEW p, IsProgram(p), ~FloatsIn(p), NEW b, NEW fs, AllEvolved(b, fs),
         NEW at, IsLayout(fs, at),
         NEW pl, NEW off, Describes(p, Len(p), b.frags, b.symbols, b.sizes, pl, off)
  PROVE  LET offs == OffsetsOf(SizesOf(p, fs, at, b.sizes)) IN
         \A i \in 1 .. Len(p) : offs[i] \in Int /\ offs[i] = at[pl[i - 1]] + off[i - 1]
<1> DEFINE N == Len(p)
           L == Len(fs)
           szs == SizesOf(p, fs, at, b.sizes)
           offs == OffsetsOf(szs)
           D == {i \in 1 .. N : ~(offs[i] \in Int /\ offs[i] = at[pl[i - 1]] + off[i - 1])}
<1>1. /\ N \in Nat /\ DOMAIN p = 1 .. N /\ L \in Nat /\ L = Len(b.frags)
      /\ \A j \in 1 .. L : fs[j] \in FragType
      /\ \A i \in 1 .. N : p[i] \in EntryType
  BY DEF IsProgram, AllEvolved
<1>2. /\ pl \in [0 .. N -> Nat] /\ off \in [0 .. N -> Nat] /\ pl[0] = 1 /\ off[0] = 0
      /\ \A j \in 0 .. N : pl[j] \in 1 .. L
      /\ \A j \in 1 .. N : Placed(p, b.frags, b.symbols, j, pl[j - 1], off[j - 1], pl[j], off[j])
  BY <1>1 DEF Describes
<1>3. /\ at \in [1 .. L -> Int] /\ at[1] = 0
      /\ \A m \in 1 .. L - 1 : at[m + 1] = at[m] + fs[m].fix + VarSize(fs[m], at[m])
  BY DEF IsLayout
<1>4. \A i \in 1 .. N : IsSize(p, fs, at, i, pl[i - 1], off[i - 1], szs[i])
  BY SizesLemma
<1>5. \A i \in 1 .. N : offs[i] = IF i = 1 THEN 0 ELSE offs[i - 1] + szs[i - 1]
  <2>1. DOMAIN szs = 1 .. N /\ szs = [i \in 1 .. N |-> szs[i]]
    BY <1>1 DEF SizesOf
  <2> HIDE DEF szs, N
  <2>2. Len(szs) = N
    BY ONLY <2>1, <1>1
  <2> QED BY ONLY <2>2, <1>1, OffsetsLemma
<1> HIDE DEF N, L, szs, offs
<1>6. D = {}
  <2> SUFFICES ASSUME D # {} PROVE FALSE
    OBVIOUS
  <2>1. PICK i \in D : \A m \in D : i <= m
    <3>1. D \subseteq Nat /\ D # {}
      OBVIOUS
    <3> HIDE DEF D
    <3> QED BY ONLY <3>1, LeastElement
  <2>2. i # 1
    <3>1. i = 1 => i \in 1 .. N /\ i - 1 = 0
      BY <2>1
    <3>2. i = 1 => offs[i] = 0 /\ at[pl[i - 1]] + off[i - 1] = 0
      BY ONLY <3>1, <1>2, <1>3, <1>5
    <3> QED BY <3>2, <2>1
  <2> DEFINE h == i - 1
             k == pl[h - 1]
             o == off[h - 1]
  <2>3. /\ h \in 1 .. N /\ h \in 0 .. N /\ h - 1 \in 0 .. N /\ i \in 1 .. N
        /\ h \notin D /\ offs[i] = offs[h] + szs[h]
    BY <2>1, <2>2, <1>1, <1>5
  <2>4. offs[h] \in Int /\ offs[h] = at[k] + o
    BY <2>3
  <2>5. k \in 1 .. L /\ o \in Nat /\ pl[h] \in 1 .. L /\ off[h] \in Nat /\ p[h] \in EntryType
    BY ONLY <2>3, <1>1, <1>2
  <2>6. /\ Placed(p, b.frags, b.symbols, h, k, o, pl[h], off[h])
        /\ IsSize(p, fs, at, h, k, o, szs[h])
    BY ONLY <2>3, <1>2, <1>4
  <2>7. p[h].kind # "float"
    BY <2>3, <1>1 DEF FloatsIn
  <2>8. at[k] \in Int /\ fs[k] \in FragType
    BY ONLY <2>5, <1>1, <1>3
  <2> HIDE DEF h, k, o, D
  <2>9. CASE Variable(p[h])
    <3>1. /\ k + 1 \in 1 .. L /\ fs[k].oldFix = o + BaseSize(p[h])
          /\ szs[h] = BaseSize(p[h]) + VarSize(fs[k], at[k]) + (fs[k].fix - fs[k].oldFix)
      BY ONLY <2>6, <2>9 DEF IsSize, L
    <3>2. pl[h] = k + 1 /\ off[h] = 0
      BY ONLY <2>6, <2>9 DEF Placed
    <3>3. at[k + 1] = at[k] + fs[k].fix + VarSize(fs[k], at[k])
      <4>1. k \in 1 .. L - 1
        BY ONLY <3>1, <2>5, <1>1
      <4> QED BY ONLY <4>1, <1>3
    <3>4. VarSize(fs[k], at[k]) \in Int /\ fs[k].fix \in Int /\ fs[k].oldFix \in Int
      <4>1. VarSize(fs[k], at[k]) \in Int
        BY ONLY <2>8, VarType
      <4> QED BY ONLY <4>1, <2>8 DEF FragType
    <3>5. BaseSize(p[h]) \in Int
      BY ONLY <2>9 DEF BaseSize, Variable, IsJump
    <3>6. at[pl[h]] + off[h] = at[k] + fs[k].fix + VarSize(fs[k], at[k])
      <4>1. at[k + 1] \in Int
        BY ONLY <3>1, <1>3
      <4> QED BY ONLY <4>1, <3>2, <3>3
    <3>7. offs[i] = at[k] + o + (BaseSize(p[h]) + VarSize(fs[k], at[k]) + (fs[k].fix - fs[k].oldFix))
      BY ONLY <2>3, <2>4, <3>1
    <3>8. offs[i] = at[k] + fs[k].fix + VarSize(fs[k], at[k])
      BY ONLY <3>1, <3>4, <3>5, <3>7, <2>5, <2>8
    <3>9. offs[i] \in Int
      BY ONLY <3>8, <3>4, <2>8
    <3> QED BY <2>1, <3>6, <3>8, <3>9 DEF D, h
  <2>10. CASE ~Variable(p[h])
    <3>1. szs[h] = BaseSize(p[h])
      BY ONLY <2>6, <2>10 DEF IsSize
    <3>2. p[h].kind = "bytes" \/ p[h].kind = "label"
      BY ONLY <2>5, <2>7, <2>10 DEF EntryType, Variable, IsJump
    <3>3. p[h].kind = "bytes" => BaseSize(p[h]) = p[h].size
      BY DEF BaseSize
    <3>4. p[h].kind = "label" => BaseSize(p[h]) = 0
      BY DEF BaseSize, IsJump
    <3>5. pl[h] = k /\ off[h] = o + szs[h]
      BY ONLY <3>1, <3>2, <3>3, <3>4, <2>5, <2>6 DEF Placed
    <3>6. p[h].size \in Nat
      BY ONLY <2>5 DEF EntryType
    <3>7. szs[h] \in Int
      BY ONLY <3>1, <3>2, <3>3, <3>4, <3>6
    <3>8. offs[i] \in Int /\ offs[i] = at[pl[h]] + off[h]
      BY ONLY <3>5, <3>7, <2>3, <2>4, <2>5, <2>8
    <3> QED BY <2>1, <3>8 DEF D, h
  <2> QED BY <2>9, <2>10
<1>7. \A i \in 1 .. N : offs[i] \in Int /\ offs[i] = at[pl[i - 1]] + off[i - 1]
  BY <1>6
<1> QED BY <1>7 DEF offs, szs, N

\* JumpsReach and AlignsAlign of the sizes and offsets.
Reached(p, szs, offs) ==
  \A i \in DOMAIN p :
    IsJump(p[i]) =>
      IF szs[i] = 2
        THEN /\ p[i].target # 0
             /\ ~FloatsIn(p) => offs[LabelAt(p, p[i].target)] - (offs[i] + 2) \in -128 .. 127
        ELSE szs[i] = 1 + VarLength(p[i].kind, "big")
Aligned(p, szs, offs) ==
  ~FloatsIn(p) =>
    \A i \in DOMAIN p : p[i].kind = "align" => szs[i] = Fill(offs[i], p[i].to, p[i].max)

LEMMA MeasuredLemma ==
  ASSUME NEW p, IsProgram(p), NEW b, IsBuilt(p, Len(p), b),
         NEW fs, NEW at, Measurable(p, b, fs, at)
  PROVE  LET szs == SizesOf(p, fs, at, b.sizes)
             offs == OffsetsOf(szs)
         IN  Reached(p, szs, offs) /\ Aligned(p, szs, offs)
<1> DEFINE N == Len(p)
           L == Len(fs)
           szs == SizesOf(p, fs, at, b.sizes)
           offs == OffsetsOf(szs)
<1>1. PICK pl, off : Describes(p, N, b.frags, b.symbols, b.sizes, pl, off)
  BY DEF IsBuilt
<1>2. /\ AllEvolved(b, fs) /\ IsLayout(fs, at)
      /\ \A k \in 1 .. L : ~OutOfReach(fs[k])
      /\ \A k \in 1 .. L :
           NextState(fs[k], Aim(p, b.symbols, fs[k], k, at[k], 0, at)) = fs[k].state
  BY DEF Measurable, Settled
<1>3. /\ N \in Nat /\ DOMAIN p = 1 .. N /\ L \in Nat /\ L = Len(b.frags)
      /\ \A j \in 1 .. L : fs[j] \in FragType /\ Evolved(b.frags[j], fs[j])
      /\ \A i \in 1 .. N : p[i] \in EntryType
      /\ \A j \in 1 .. L : b.frags[j].state = "small"
  BY <1>2 DEF IsProgram, AllEvolved, IsBuilt
<1>4. /\ pl \in [0 .. N -> Nat] /\ off \in [0 .. N -> Nat]
      /\ \A j \in 0 .. N : pl[j] \in 1 .. L
      /\ \A j \in 1 .. N : Placed(p, b.frags, b.symbols, j, pl[j - 1], off[j - 1], pl[j], off[j])
  BY <1>1, <1>3 DEF Describes
<1>5. at \in [1 .. L -> Int]
  BY <1>2 DEF IsLayout
<1>6. \A i \in 1 .. N : IsSize(p, fs, at, i, pl[i - 1], off[i - 1], szs[i])
  BY <1>1, <1>2, SizesLemma
<1>7. ~FloatsIn(p) => \A i \in 1 .. N : offs[i] \in Int /\ offs[i] = at[pl[i - 1]] + off[i - 1]
  BY <1>1, <1>2, PlacesLemma
<1> HIDE DEF N, L, szs, offs
<1>8. ASSUME NEW i \in 1 .. N, IsJump(p[i])
      PROVE  IF szs[i] = 2
               THEN /\ p[i].target # 0
                    /\ ~FloatsIn(p) => offs[LabelAt(p, p[i].target)] - (offs[i] + 2) \in -128 .. 127
               ELSE szs[i] = 1 + VarLength(p[i].kind, "big")
  <2> DEFINE k == pl[i - 1]
             o == off[i - 1]
             f == fs[k]
  <2>1. /\ i - 1 \in 0 .. N /\ k \in 1 .. L /\ o \in Nat /\ f \in FragType
        /\ Evolved(b.frags[k], f) /\ ~OutOfReach(f) /\ at[k] \in Int
    <3>1. i - 1 \in 0 .. N
      BY ONLY <1>3
    <3>2. k \in 1 .. L /\ o \in Nat
      BY ONLY <3>1, <1>4
    <3> QED BY ONLY <3>1, <3>2, <1>2, <1>3, <1>5
  <2>2. /\ Ends(p, f, i) /\ f.oldFix = o + BaseSize(p[i])
        /\ szs[i] = BaseSize(p[i]) + VarSize(f, at[k]) + (f.fix - f.oldFix)
    BY <1>6, <1>8 DEF IsSize, Variable
  <2>3. NextState(f, Aim(p, b.symbols, f, k, at[k], 0, at)) = f.state
    BY ONLY <2>1, <1>2
  <2> HIDE DEF f, k, o
  <2>4. f.kind \in JumpKinds /\ f.kind = p[i].kind /\ f.target = p[i].target
    BY ONLY <2>2, <1>8 DEF Ends, IsJump, JumpKinds
  <2>5. BaseSize(p[i]) = 1
    BY ONLY <1>8 DEF BaseSize, IsJump
  <2>6. f.fix \in Nat /\ f.oldFix \in Nat /\ f.state \in {"small", "big", "waned"}
    BY ONLY <2>1 DEF FragType
  <2>7. VarLength(f.kind, "big") \in {4, 5} /\ VarLength(f.kind, "big") = VarLength(p[i].kind, "big")
    BY ONLY <2>4 DEF VarLength
  <2>8. CASE f.state = "waned"
    <3>1. VarSize(f, at[k]) = 0 /\ f.fix = f.oldFix + VarLength(f.kind, "big")
      BY ONLY <2>1, <2>4, <2>8, JumpSize DEF Evolved
    <3>2. szs[i] = 1 + VarLength(p[i].kind, "big") /\ szs[i] # 2
      BY ONLY <3>1, <2>2, <2>5, <2>6, <2>7
    <3> QED BY ONLY <3>2
  <2>9. CASE f.state = "big"
    <3>1. VarSize(f, at[k]) = VarLength(f.kind, "big") /\ f.fix = f.oldFix
      <4>1. f.fix = f.oldFix
        BY ONLY <2>1, <2>9 DEF Evolved
      <4> QED BY ONLY <4>1, <2>4, <2>9, JumpSize
    <3>2. szs[i] = 1 + VarLength(p[i].kind, "big") /\ szs[i] # 2
      BY ONLY <3>1, <2>2, <2>5, <2>6, <2>7
    <3> QED BY ONLY <3>2
  <2>10. CASE f.state = "small"
    <3>1. VarSize(f, at[k]) = 1 /\ f.fix = f.oldFix
      <4>1. f.fix = f.oldFix
        BY ONLY <2>1, <2>10 DEF Evolved
      <4> QED BY ONLY <4>1, <2>4, <2>10, JumpSize
    <3>2. szs[i] = 2
      BY ONLY <3>1, <2>2, <2>5, <2>6
    <3>3. p[i].target # 0
      BY ONLY <2>1, <2>4, <2>10 DEF OutOfReach, JumpKinds
    <3>4. ASSUME ~FloatsIn(p)
          PROVE  offs[LabelAt(p, p[i].target)] - (offs[i] + 2) \in -128 .. 127
      <4> DEFINE l == LabelAt(p, p[i].target)
                 aim == Aim(p, b.symbols, f, k, at[k], 0, at)
      <4>1. l \in 1 .. N /\ p[l].kind = "label"
        BY ONLY <1>3, <3>3, IsProgram(p), LabelLemma
      <4>2. Reaches(aim)
        BY ONLY <2>3, <2>4, <2>10 DEF NextState, JumpKinds
      <4>3. b.symbols[l] = <<pl[l - 1], off[l - 1]>>
        BY ONLY <4>1, <1>4 DEF Placed
      <4>4. /\ l - 1 \in 0 .. N /\ pl[l - 1] \in 1 .. L /\ off[l - 1] \in Nat
            /\ at[pl[l - 1]] \in Int
        <5>1. l - 1 \in 0 .. N
          BY ONLY <4>1, <1>3
        <5>2. pl[l - 1] \in 1 .. L /\ off[l - 1] \in Nat
          BY ONLY <5>1, <1>4
        <5> QED BY ONLY <5>1, <5>2, <1>5
      <4>5. aim = (at[pl[l - 1]] + off[l - 1] + 0) - at[k] - f.fix
        <5>1. l = LabelAt(p, f.target)
          BY ONLY <2>4
        <5> DEFINE s == b.symbols[l]
        <5>2. aim = (at[s[1]] + s[2] + (IF s[1] > k THEN 0 ELSE 0)) - at[k] - f.fix
          BY <5>1 DEF Aim
        <5>3. (IF s[1] > k THEN 0 ELSE 0) = 0
          OBVIOUS
        <5>4. s[1] = pl[l - 1] /\ s[2] = off[l - 1]
          BY ONLY <4>3
        <5> HIDE DEF s, aim, l
        <5> QED BY ONLY <5>2, <5>3, <5>4
      <4>6. offs[l] = at[pl[l - 1]] + off[l - 1] /\ offs[i] = at[k] + o
        BY ONLY <3>4, <4>1, <1>7, i \in 1 .. N DEF k, o
      <4> HIDE DEF l, aim
      <4>7. aim = offs[l] - offs[i] - 1 /\ offs[l] \in Int /\ offs[i] \in Int
        BY ONLY <4>4, <4>5, <4>6, <2>1, <2>2, <2>5, <2>6, <3>1
      <4>8. offs[l] - (offs[i] + 2) \in -128 .. 127
        BY ONLY <4>2, <4>7 DEF Reaches
      <4> QED BY <4>8 DEF l
    <3> QED BY <3>2, <3>3, <3>4
  <2> QED BY <2>6, <2>8, <2>9, <2>10
<1>9. ASSUME ~FloatsIn(p), NEW i \in 1 .. N, p[i].kind = "align"
      PROVE  szs[i] = Fill(offs[i], p[i].to, p[i].max)
  <2> DEFINE k == pl[i - 1]
             o == off[i - 1]
             f == fs[k]
  <2>1. /\ i - 1 \in 0 .. N /\ k \in 1 .. L /\ o \in Nat /\ f \in FragType
        /\ Evolved(b.frags[k], f) /\ at[k] \in Int
    <3>1. i - 1 \in 0 .. N
      BY ONLY <1>3
    <3>2. k \in 1 .. L /\ o \in Nat
      BY ONLY <3>1, <1>4
    <3> QED BY ONLY <3>1, <3>2, <1>3, <1>5
  <2>2. /\ Ends(p, f, i) /\ f.oldFix = o + BaseSize(p[i])
        /\ szs[i] = BaseSize(p[i]) + VarSize(f, at[k]) + (f.fix - f.oldFix)
    BY <1>6, <1>9 DEF IsSize, Variable
  <2>3. offs[i] = at[k] + o
    BY ONLY <1>7, <1>9
  <2> HIDE DEF f, k, o
  <2>4. f.kind = "align" /\ f.to = p[i].to /\ f.max = p[i].max
    BY ONLY <2>2, <1>9 DEF Ends
  <2>5. f.state # "waned" /\ f.fix = f.oldFix
    BY ONLY <2>1, <2>4 DEF Evolved, JumpKinds
  <2>6. BaseSize(p[i]) = 0
    BY ONLY <1>9 DEF BaseSize, IsJump
  <2>7. f.fix \in Nat /\ f.oldFix \in Nat
    BY ONLY <2>1 DEF FragType
  <2>8. VarSize(f, at[k]) = Fill(at[k] + f.fix, f.to, f.max)
    BY ONLY <2>4, <2>5 DEF VarSize
  <2>9. VarSize(f, at[k]) \in Int
    BY ONLY <2>1, VarType
  <2>10. at[k] + f.fix = offs[i]
    BY ONLY <2>1, <2>2, <2>3, <2>5, <2>6, <2>7
  <2>11. szs[i] = VarSize(f, at[k])
    BY ONLY <2>2, <2>5, <2>6, <2>7, <2>9
  <2> QED BY ONLY <2>4, <2>8, <2>10, <2>11
<1>10. Reached(p, szs, offs)
  BY <1>3, <1>8 DEF Reached
<1>11. Aligned(p, szs, offs)
  BY <1>3, <1>9 DEF Aligned
<1> QED BY <1>10, <1>11 DEF offs, szs

-----------------------------------------------------------------------------
(* Jumps made long.                                                        *)

Big(fs) == {k \in 1 .. Len(fs) : fs[k].state = "big"}
Jumps(p) == {i \in DOMAIN p : IsJump(p[i])}

\* They are jumps of the section.
LEMMA BigLemma ==
  ASSUME NEW p, IsProgram(p), NEW b, IsBuilt(p, Len(p), b), NEW fs, AllEvolved(b, fs)
  PROVE  /\ IsFiniteSet(Big(fs)) /\ Cardinality(Big(fs)) \in Nat
         /\ Cardinality(Jumps(p)) \in Nat /\ Cardinality(Big(fs)) <= Cardinality(Jumps(p))
<1> DEFINE N == Len(p)
           L == Len(fs)
           S == Big(fs)
           T == Jumps(p)
           e == [k \in S |-> b.frags[k].entry]
<1>1. /\ N \in Nat /\ DOMAIN p = 1 .. N /\ L \in Nat /\ L = Len(b.frags)
      /\ \A k \in 1 .. L : Evolved(b.frags[k], fs[k])
  BY DEF IsProgram, AllEvolved
<1>2. PICK pl, off : Describes(p, N, b.frags, b.symbols, b.sizes, pl, off)
  BY DEF IsBuilt
<1>3. /\ IsLast(b.frags[L])
      /\ \A j \in 1 .. N : Placed(p, b.frags, b.symbols, j, pl[j - 1], off[j - 1], pl[j], off[j])
      /\ \A m \in 1 .. L - 1 : \E j \in 1 .. N : Variable(p[j]) /\ pl[j - 1] = m
  BY <1>1, <1>2 DEF Describes
<1> HIDE DEF N, L
<1>4. S \subseteq 1 .. L /\ T \subseteq 1 .. N /\ \A k \in S : k \in 1 .. L /\ fs[k].state = "big"
  BY <1>1 DEF Big, Jumps, L
<1>5. IsFiniteSet(S) /\ IsFiniteSet(T)
  <2>1. IsFiniteSet(1 .. L) /\ IsFiniteSet(1 .. N)
    BY ONLY <1>1, FS_Interval
  <2> QED BY ONLY <2>1, <1>4, FS_Subset
<1>6. ASSUME NEW k \in S
      PROVE  b.frags[k].entry \in T /\ pl[b.frags[k].entry - 1] = k
  <2>1. b.frags[k].kind \in JumpKinds
    BY ONLY <1>1, <1>4 DEF Evolved
  <2>2. k # L
    BY ONLY <2>1, <1>3 DEF IsLast, JumpKinds
  <2>3. k \in 1 .. L - 1
    BY ONLY <2>2, <1>1, <1>4
  <2>4. PICK j \in 1 .. N : Variable(p[j]) /\ pl[j - 1] = k
    BY ONLY <2>3, <1>3
  <2>5. Ends(p, b.frags[k], j)
    BY ONLY <2>4, <1>3 DEF Placed
  <2>6. b.frags[k].entry = j /\ p[j].kind \in JumpKinds
    BY ONLY <2>1, <2>5 DEF Ends
  <2>7. j \in T
    BY ONLY <2>6, <1>1 DEF Jumps, IsJump, JumpKinds
  <2> QED BY ONLY <2>4, <2>6, <2>7
<1> HIDE DEF S, T
<1>7. e \in Injection(S, T)
  <2>1. e \in [S -> T]
    BY <1>6
  <2>2. \A x, y \in S : e[x] = e[y] => x = y
    BY <1>6
  <2>3. DOMAIN e = S
    OBVIOUS
  <2> HIDE DEF e
  <2>4. IsInjective(e)
    BY ONLY <2>2, <2>3 DEF IsInjective
  <2> QED BY ONLY <2>1, <2>4 DEF Injection
<1> HIDE DEF e
<1>8. Cardinality(S) <= Cardinality(T)
  BY ONLY <1>5, <1>7, FS_Injection
<1>9. Cardinality(S) \in Nat /\ Cardinality(T) \in Nat
  BY ONLY <1>5, FS_CardinalityType
<1> QED BY ONLY <1>5, <1>8, <1>9 DEF S, T

\* A sweep that changes something makes one more jump long.
LEMMA MoreLemma ==
  ASSUME NEW fs \in Seq(FragType), NEW hs \in Seq(FragType), Len(hs) = Len(fs),
         \A k \in 1 .. Len(fs) : Raised(fs[k], hs[k]),
         NEW j \in 1 .. Len(fs), hs[j] # fs[j]
  PROVE  Cardinality(Big(hs)) >= Cardinality(Big(fs)) + 1
<1>1. \A k \in 1 .. Len(fs) : fs[k] \in FragType
  OBVIOUS
<1>2. \A k \in 1 .. Len(fs) : hs[k] = fs[k] \/ (fs[k].state = "small" /\ hs[k].state = "big")
  <2> TAKE k \in 1 .. Len(fs)
  <2>1. In(fs[k], "big").state = "big"
    BY ONLY <1>1, InIs
  <2> QED BY <2>1 DEF Raised
<1>3. j \notin Big(fs)
  BY <1>2 DEF Big
<1>4. Big(fs) \cup {j} \subseteq Big(hs)
  BY <1>2 DEF Big
<1>5. IsFiniteSet(Big(fs)) /\ IsFiniteSet(Big(hs))
  <2>1. IsFiniteSet(1 .. Len(fs)) /\ IsFiniteSet(1 .. Len(hs))
    BY FS_Interval
  <2>2. Big(fs) \subseteq 1 .. Len(fs) /\ Big(hs) \subseteq 1 .. Len(hs)
    BY DEF Big
  <2> QED BY ONLY <2>1, <2>2, FS_Subset
<1>6. Cardinality(Big(fs) \cup {j}) = Cardinality(Big(fs)) + 1
  BY ONLY <1>3, <1>5, FS_AddElement
<1>7. Cardinality(Big(fs) \cup {j}) <= Cardinality(Big(hs))
  BY ONLY <1>4, <1>5, FS_Subset
<1>8. Cardinality(Big(fs)) \in Nat /\ Cardinality(Big(hs)) \in Nat
  BY ONLY <1>5, FS_CardinalityType
<1> QED BY ONLY <1>6, <1>7, <1>8

-----------------------------------------------------------------------------
(* Fragments that change.                                                  *)

\* As they were built, they have not changed.
LEMMA EvolvedFromStart ==
  ASSUME NEW p, NEW b, IsBuilt(p, Len(p), b)
  PROVE  /\ AllEvolved(b, b.frags) /\ b.frags[Len(b.frags)].kind = "end"
         /\ Len(b.frags) \in Nat /\ Len(b.frags) >= 1
<1>1. /\ b.frags \in Seq(FragType) /\ Len(b.frags) # 0
      /\ \A k \in 1 .. Len(b.frags) : b.frags[k].state = "small" /\ b.frags[k].fix = b.frags[k].oldFix
  BY DEF IsBuilt
<1>2. IsLast(b.frags[Len(b.frags)])
  BY DEF IsBuilt, Describes
<1>3. \A k \in 1 .. Len(b.frags) : Evolved(b.frags[k], b.frags[k])
  BY <1>1 DEF Evolved
<1> QED BY <1>1, <1>2, <1>3 DEF AllEvolved, IsLast

\* Estimating.
LEMMA EstimatedIs ==
  ASSUME NEW g, NEW f \in FragType, Evolved(g, f)
  PROVE  /\ Estimated(f) \in FragType /\ Evolved(g, Estimated(f)) /\ ~OutOfReach(Estimated(f))
         /\ ~OutOfReach(f) => Estimated(f) = f
<1>1. CASE ~OutOfReach(f)
  <2>1. Estimated(f) = f
    BY <1>1 DEF Estimated
  <2> QED BY <2>1, <1>1
<1>2. CASE OutOfReach(f)
  <2> DEFINE n == f.fix + VarLength(f.kind, "big")
             h == [f EXCEPT !.fix = n]
             e == [h EXCEPT !.state = "waned"]
  <2>1. Estimated(f) = e
    BY Zenon, <1>2 DEF Estimated
  <2>2. f.kind \in JumpKinds /\ f.target = 0 /\ f.state # "waned"
    BY <1>2 DEF OutOfReach, JumpKinds
  <2>3. f.fix = f.oldFix /\ f.fix \in Nat /\ VarLength(f.kind, "big") \in Nat
    <3>1. f.fix = f.oldFix
      BY ONLY <2>2, Evolved(g, f) DEF Evolved
    <3> QED BY <3>1, <2>2 DEF VarLength, FragType
  <2>4. n \in Nat
    BY <2>3
  <2> HIDE DEF n
  <2>5. /\ h \in FragType /\ h.fix = n /\ h.kind = f.kind /\ h.oldFix = f.oldFix /\ h.entry = f.entry
        /\ h.target = f.target /\ h.to = f.to /\ h.max = f.max
    BY ONLY <2>4, f \in FragType DEF FragType
  <2> HIDE DEF h
  <2>6. /\ e \in FragType /\ e.state = "waned" /\ e.fix = h.fix /\ e.kind = h.kind
        /\ e.oldFix = h.oldFix /\ e.entry = h.entry
        /\ e.target = h.target /\ e.to = h.to /\ e.max = h.max
    BY ONLY <2>5 DEF FragType
  <2> HIDE DEF e
  <2>7. e.fix = e.oldFix + VarLength(e.kind, "big")
    BY ONLY <2>3, <2>5, <2>6 DEF n
  <2>8. ~OutOfReach(e)
    BY ONLY <2>6 DEF OutOfReach
  <2>9. Evolved(g, e)
    BY ONLY <2>2, <2>5, <2>6, <2>7, Evolved(g, f) DEF Evolved
  <2> QED BY ONLY <1>2, <2>1, <2>6, <2>8, <2>9
<1> QED BY <1>1, <1>2

\* A jump made long.
LEMMA RaisedIs ==
  ASSUME NEW g, NEW f \in FragType, Evolved(g, f), ~OutOfReach(f), NEW h, Raised(f, h)
  PROVE  Evolved(g, h) /\ ~OutOfReach(h)
<1>1. CASE h = f
  BY <1>1
<1>2. CASE h # f
  <2>1. f.kind \in JumpKinds /\ f.state = "small" /\ h = In(f, "big")
    BY <1>2 DEF Raised
  <2>2. /\ h.state = "big" /\ h.fix = f.fix /\ h.oldFix = f.oldFix /\ h.kind = f.kind
        /\ h.entry = f.entry /\ h.target = f.target /\ h.to = f.to /\ h.max = f.max
    BY <2>1, InIs
  <2>3. Evolved(g, h)
    BY ONLY <2>1, <2>2, Evolved(g, f) DEF Evolved
  <2>4. ~OutOfReach(h)
    BY ONLY <2>1, <2>2, ~OutOfReach(f) DEF OutOfReach
  <2> QED BY <2>3, <2>4
<1> QED BY <1>1, <1>2

-----------------------------------------------------------------------------
(* The course of a run: it depends on nothing but the section.             *)

Shorts(p) == [i \in DOMAIN p |-> "short"]
Base(p) == Built(p, Shorts(p))

Standing(ph, fs, at, last) == [phase |-> ph, frags |-> fs, addr |-> at, last |-> last]
StartOf(p) ==
  LET at == [k \in DOMAIN Base(p).frags |-> 0] IN Standing("estimate", Base(p).frags, at, at)
EstimatedOf(fs) == [k \in DOMAIN fs |-> Estimated(fs[k])]
AfterSweep(r, s) ==
  Standing(IF r.at # s.addr THEN "sweep" ELSE IF s.addr # s.last THEN "estimate" ELSE "measure",
           r.frags, r.at, IF r.at # s.addr THEN s.last ELSE s.addr)
StepOf(p, s) ==
  IF s.phase = "estimate"
    THEN Standing("sweep", EstimatedOf(s.frags), Layout(EstimatedOf(s.frags)), s.last)
  ELSE IF s.phase = "sweep" THEN AfterSweep(Swept(p, Base(p).symbols, s.frags, s.addr), s)
  ELSE s

\* t has the first n steps.
IsRun(p, t, n) == t = [j \in 0 .. n |-> IF j = 0 THEN StartOf(p) ELSE StepOf(p, t[j - 1])]

\* The sizes and offsets at the end of a run.
ResultOf(p, s) ==
  LET szs == SizesOf(p, s.frags, s.addr, Base(p).sizes) IN <<szs, OffsetsOf(szs)>>

LEMMA RunStarts ==
  ASSUME NEW p
  PROVE  \E t : IsRun(p, t, 0) /\ t[0] = StartOf(p)
<1> DEFINE t == [j \in 0 .. 0 |-> StartOf(p)]
<1>1. IsRun(p, t, 0) /\ t[0] = StartOf(p)
  BY DEF IsRun
<1> QED BY <1>1

LEMMA RunGoesOn ==
  ASSUME NEW p, NEW n \in Nat, NEW t, IsRun(p, t, n)
  PROVE  \E u : IsRun(p, u, n + 1) /\ u[n + 1] = StepOf(p, t[n])
<1> DEFINE last == StepOf(p, t[n])
           u == [j \in 0 .. n + 1 |-> IF j = n + 1 THEN last ELSE t[j]]
<1>1. \A j \in 0 .. n : t[j] = IF j = 0 THEN StartOf(p) ELSE StepOf(p, t[j - 1])
  BY DEF IsRun
<1>2. ASSUME NEW j \in 0 .. n + 1
      PROVE  u[j] = IF j = 0 THEN StartOf(p) ELSE StepOf(p, u[j - 1])
  <2>1. CASE j = n + 1
    <3>1. j # 0 /\ j - 1 = n /\ j - 1 \in 0 .. n + 1 /\ j - 1 # n + 1
      BY <2>1
    <3>2. u[j] = last /\ u[j - 1] = t[n]
      BY <2>1, <3>1
    <3> HIDE DEF u
    <3> QED BY <3>1, <3>2
  <2>2. CASE j # n + 1
    <3>1. j \in 0 .. n /\ u[j] = t[j]
      BY <2>2
    <3>2. j # 0 => j - 1 \in 0 .. n + 1 /\ j - 1 # n + 1 /\ u[j - 1] = t[j - 1]
      BY <2>2
    <3> HIDE DEF u
    <3> QED BY ONLY <3>1, <3>2, <1>1
  <2> QED BY <2>1, <2>2
<1>3. u = [j \in 0 .. n + 1 |-> u[j]] /\ u[n + 1] = last
  OBVIOUS
<1> HIDE DEF u
<1>4. IsRun(p, u, n + 1)
  BY ONLY <1>2, <1>3 DEF IsRun
<1> QED BY <1>3, <1>4

LEMMA RunsAgreeOne ==
  ASSUME NEW p, NEW n \in Nat, NEW t, IsRun(p, t, n), t[n].phase = "measure",
         NEW m \in Nat, NEW u, IsRun(p, u, m), n <= m
  PROVE  t[n] = u[m]
<1>1. /\ \A j \in 0 .. n : t[j] = IF j = 0 THEN StartOf(p) ELSE StepOf(p, t[j - 1])
      /\ \A j \in 0 .. m : u[j] = IF j = 0 THEN StartOf(p) ELSE StepOf(p, u[j - 1])
  BY DEF IsRun
<1> DEFINE s == t[n]
           Same(j) == u[j] = IF j <= n THEN t[j] ELSE s
           D == {j \in 0 .. m : ~Same(j)}
<1>2. StepOf(p, s) = s
  BY DEF StepOf
<1>3. D = {}
  <2> SUFFICES ASSUME D # {} PROVE FALSE
    OBVIOUS
  <2>1. PICK j \in D : \A i \in D : j <= i
    <3>1. D \subseteq Nat /\ D # {}
      OBVIOUS
    <3> HIDE DEF D
    <3> QED BY ONLY <3>1, LeastElement
  <2>2. j # 0
    <3>1. u[0] = StartOf(p) /\ t[0] = StartOf(p)
      BY <1>1
    <3>2. Same(0)
      BY <3>1
    <3> QED BY <3>2, <2>1
  <2>3. j \in 0 .. m /\ j - 1 \in 0 .. m /\ j - 1 \notin D
    BY <2>1, <2>2
  <2>4. u[j] = StepOf(p, u[j - 1])
    BY ONLY <2>2, <2>3, <1>1
  <2>5. u[j - 1] = IF j - 1 <= n THEN t[j - 1] ELSE s
    BY <2>3
  <2>6. CASE j <= n
    <3>1. j \in 0 .. n /\ j - 1 <= n
      BY ONLY <2>3, <2>6, n \in Nat, m \in Nat
    <3>2. t[j] = StepOf(p, t[j - 1])
      BY ONLY <3>1, <2>2, <1>1
    <3>3. u[j] = t[j]
      BY ONLY <3>1, <3>2, <2>4, <2>5
    <3> QED BY <3>3, <2>1, <2>6
  <2>7. CASE ~ j <= n
    <3>1. u[j - 1] = s
      <4>1. j - 1 <= n => j - 1 = n
        BY ONLY <2>3, <2>7, n \in Nat, m \in Nat
      <4> QED BY ONLY <4>1, <2>5 DEF s
    <3>2. u[j] = s
      BY ONLY <3>1, <2>4, <1>2
    <3> QED BY <3>2, <2>1, <2>7
  <2> QED BY <2>6, <2>7
<1>4. m \in 0 .. m
  OBVIOUS
<1>5. Same(m)
  BY <1>3, <1>4
<1>6. m <= n => m = n
  OBVIOUS
<1> QED BY ONLY <1>5, <1>6 DEF s

\* Runs that are over have come to the same end.
LEMMA RunsAgree ==
  ASSUME NEW p, NEW n \in Nat, NEW t, IsRun(p, t, n), t[n].phase = "measure",
         NEW m \in Nat, NEW u, IsRun(p, u, m), u[m].phase = "measure"
  PROVE  t[n] = u[m]
<1>1. CASE n <= m
  BY <1>1, RunsAgreeOne
<1>2. CASE m <= n
  <2>1. u[m] = t[n]
    BY ONLY <1>2, RunsAgreeOne, n \in Nat, m \in Nat, IsRun(p, t, n), IsRun(p, u, m),
            u[m].phase = "measure"
  <2> QED BY <2>1
<1> QED BY <1>1, <1>2

-----------------------------------------------------------------------------
(* The inductive invariant.                                                *)

Working == phase \in {"estimate", "sweep", "measure"}
Resting == phase \in {"start", "done"}
Counted(n) == sweeps <= Cardinality(Big(frags)) + n

\* The opcodes saved, and those the passes see, are the parser's.
RestInv ==
  /\ program \in Programs
  /\ Working \/ Resting
  /\ saved = Shorts(program)
  /\ Resting => /\ opcode = Shorts(program)
                /\ sweeps <= Cardinality(Jumps(program)) + 2
  /\ runs \in Nat /\ sweeps \in Nat

\* The fragments are those of the section, changed as gas changes them.
WorkInv ==
  Working => /\ symbols = Base(program).symbols /\ sizes = Base(program).sizes
             /\ AllEvolved(Base(program), frags)

\* How far relaxing has come.  A sweep too many is one that changes nothing;
\* Go asks for one more when gas is done the first time.
EstimateInv ==
  phase = "estimate" =>
    \/ sweeps = 0
    \/ Measurable(program, Base(program), frags, addr) /\ addr = lastAddr /\ Counted(1)
SweepInv ==
  phase = "sweep" =>
    /\ \A k \in 1 .. Len(frags) : ~OutOfReach(frags[k])
    /\ IsLayout(frags, addr)
    /\ \/ Counted(0)
       \/ Settled(program, symbols, frags, addr) /\ addr = lastAddr /\ Counted(1)
MeasureInv ==
  phase = "measure" => Measurable(program, Base(program), frags, addr) /\ Counted(2)

\* The course of this run, and how the first one ended.
Here == Standing(phase, frags, addr, lastAddr)
RunInv == Working => \E n \in Nat : \E t : IsRun(program, t, n) /\ t[n] = Here
EndedAs(p, r) ==
  \E n \in Nat : \E t : IsRun(p, t, n) /\ t[n].phase = "measure" /\ r = ResultOf(p, t[n])
FirstInv == runs > 0 => EndedAs(program, first)

DoneInv ==
  phase = "done" =>
    /\ Reached(program, sizes, offsets) /\ Aligned(program, sizes, offsets)
    /\ <<sizes, offsets>> = first

IInv ==
  RestInv /\ WorkInv /\ EstimateInv /\ SweepInv /\ MeasureInv /\ RunInv /\ FirstInv /\ DoneInv

\* What was built of the section.
LEMMA BaseIsBuilt ==
  ASSUME NEW p, p \in Programs
  PROVE  /\ IsProgram(p) /\ IsBuilt(p, Len(p), Base(p))
         /\ AllEvolved(Base(p), Base(p).frags)
         /\ Base(p).frags[Len(Base(p).frags)].kind = "end"
         /\ Len(Base(p).frags) \in Nat /\ Len(Base(p).frags) >= 1
<1>1. IsProgram(p)
  BY ProgramsAssumption
<1>2. \A i \in DOMAIN p : Shorts(p)[i] = "short"
  BY DEF Shorts
<1>3. IsBuilt(p, Len(p), Base(p))
  <2>1. IsBuilt(p, Len(p), Built(p, Shorts(p)))
    BY ONLY <1>1, <1>2, BuiltLemma
  <2> QED BY <2>1 DEF Base
<1> QED BY <1>1, <1>3, EvolvedFromStart

\* The fragments while gas works on them.
LEMMA Fragments ==
  ASSUME RestInv, WorkInv, Working
  PROVE  /\ frags \in Seq(FragType) /\ Len(frags) \in Nat /\ Len(frags) >= 1
         /\ Len(frags) = Len(Base(program).frags) /\ DOMAIN frags = 1 .. Len(frags)
         /\ \A k \in 1 .. Len(frags) : frags[k] \in FragType /\ Evolved(Base(program).frags[k], frags[k])
         /\ frags[Len(frags)].kind = "end"
         /\ Cardinality(Big(frags)) \in Nat /\ Cardinality(Jumps(program)) \in Nat
         /\ Cardinality(Big(frags)) <= Cardinality(Jumps(program))
<1>1. AllEvolved(Base(program), frags) /\ program \in Programs
  BY DEF RestInv, WorkInv
<1>2. /\ IsProgram(program) /\ IsBuilt(program, Len(program), Base(program))
      /\ Base(program).frags[Len(Base(program).frags)].kind = "end"
      /\ Len(Base(program).frags) \in Nat /\ Len(Base(program).frags) >= 1
  BY ONLY <1>1, BaseIsBuilt
<1>3. /\ frags \in Seq(FragType) /\ Len(frags) = Len(Base(program).frags)
      /\ \A k \in 1 .. Len(frags) : Evolved(Base(program).frags[k], frags[k])
  BY ONLY <1>1 DEF AllEvolved
<1>4. DOMAIN frags = 1 .. Len(frags) /\ \A k \in 1 .. Len(frags) : frags[k] \in FragType
  BY ONLY <1>3
<1>5. frags[Len(frags)].kind = "end"
  <2>1. Len(frags) \in 1 .. Len(frags)
    BY ONLY <1>2, <1>3
  <2> QED BY ONLY <2>1, <1>2, <1>3 DEF Evolved
<1>6. /\ Cardinality(Big(frags)) \in Nat /\ Cardinality(Jumps(program)) \in Nat
      /\ Cardinality(Big(frags)) <= Cardinality(Jumps(program))
  BY ONLY <1>1, <1>2, BigLemma
<1> QED BY ONLY <1>2, <1>3, <1>4, <1>5, <1>6

LEMMA InitStep == Init => IInv
<1> SUFFICES ASSUME Init PROVE IInv
  OBVIOUS
<1>1. /\ program \in Programs /\ phase = "start" /\ opcode = Shorts(program) /\ saved = opcode
      /\ runs = 0 /\ sweeps = 0
  BY DEF Init, Shorts
<1>2. Cardinality(Jumps(program)) \in Nat
  <2>1. IsProgram(program) /\ IsBuilt(program, Len(program), Base(program))
        /\ AllEvolved(Base(program), Base(program).frags)
    BY <1>1, BaseIsBuilt
  <2> QED BY ONLY <2>1, BigLemma
<1>3. RestInv
  BY <1>1, <1>2 DEF RestInv, Working, Resting
<1>4. WorkInv /\ EstimateInv /\ SweepInv /\ MeasureInv /\ RunInv /\ FirstInv /\ DoneInv
  BY <1>1 DEF WorkInv, EstimateInv, SweepInv, MeasureInv, RunInv, FirstInv, DoneInv, Working
<1> QED BY <1>3, <1>4 DEF IInv

LEMMA BuildFragmentsStep == IInv /\ BuildFragments => IInv'
<1> SUFFICES ASSUME IInv, BuildFragments PROVE IInv'
  OBVIOUS
<1>1. /\ phase = "start" /\ phase' = "estimate" /\ sweeps' = 0
      /\ frags' = Built(program, opcode).frags
      /\ sizes' = Built(program, opcode).sizes
      /\ symbols' = Built(program, opcode).symbols
      /\ addr' = [k \in DOMAIN frags' |-> 0] /\ lastAddr' = addr' /\ saved' = opcode
      /\ program' = program /\ runs' = runs /\ first' = first
  BY DEF BuildFragments
<1>2. program \in Programs /\ opcode = Shorts(program) /\ runs \in Nat
  BY <1>1 DEF IInv, RestInv, Resting
<1>3. Built(program, opcode) = Base(program)
  BY <1>2 DEF Base
<1>4. RestInv'
  BY <1>1, <1>2 DEF RestInv, Working, Resting
<1>5. WorkInv'
  <2>1. AllEvolved(Base(program), Base(program).frags)
    BY <1>2, BaseIsBuilt
  <2> QED BY <2>1, <1>1, <1>3 DEF WorkInv
<1>6. EstimateInv' /\ SweepInv' /\ MeasureInv' /\ DoneInv'
  BY <1>1 DEF EstimateInv, SweepInv, MeasureInv, DoneInv
<1>7. RunInv'
  <2>1. Here' = StartOf(program)
    BY Zenon, <1>1, <1>3 DEF Here, StartOf
  <2>2. \E t : IsRun(program, t, 0) /\ t[0] = Here'
    BY <2>1, RunStarts
  <2> QED BY <2>2, <1>1 DEF RunInv
<1>8. FirstInv'
  <2>1. FirstInv
    BY DEF IInv
  <2> QED BY <2>1, <1>1 DEF FirstInv
<1> QED BY <1>4, <1>5, <1>6, <1>7, <1>8 DEF IInv

\* One more step of the run.
LEMMA RunStep ==
  ASSUME RunInv, Working, program' = program, Here' = StepOf(program, Here)
  PROVE  RunInv'
<1>1. PICK n \in Nat : \E t : IsRun(program, t, n) /\ t[n] = Here
  BY DEF RunInv
<1>2. PICK t : IsRun(program, t, n) /\ t[n] = Here
  BY <1>1
<1>3. PICK u : IsRun(program, u, n + 1) /\ u[n + 1] = StepOf(program, t[n])
  BY <1>2, RunGoesOn
<1>4. IsRun(program, u, n + 1) /\ u[n + 1] = Here' /\ n + 1 \in Nat
  BY <1>2, <1>3
<1> QED BY <1>4 DEF RunInv

\* The fragments as gas estimates them.
LEMMA EstimatedAll ==
  ASSUME NEW b, NEW fs, AllEvolved(b, fs)
  PROVE  /\ AllEvolved(b, EstimatedOf(fs)) /\ Len(EstimatedOf(fs)) = Len(fs)
         /\ \A k \in 1 .. Len(fs) : ~OutOfReach(EstimatedOf(fs)[k])
         /\ (\A k \in 1 .. Len(fs) : ~OutOfReach(fs[k])) => EstimatedOf(fs) = fs
<1> DEFINE L == Len(fs)
           hs == EstimatedOf(fs)
<1>1. /\ fs \in Seq(FragType) /\ L = Len(b.frags) /\ L \in Nat /\ DOMAIN fs = 1 .. L
      /\ \A k \in 1 .. L : Evolved(b.frags[k], fs[k]) /\ fs[k] \in FragType
  BY DEF AllEvolved
<1>2. hs = [k \in 1 .. L |-> Estimated(fs[k])]
  BY <1>1 DEF EstimatedOf
<1> HIDE DEF L, hs
<1>3. ASSUME NEW k \in 1 .. L
      PROVE  /\ hs[k] \in FragType /\ Evolved(b.frags[k], hs[k]) /\ ~OutOfReach(hs[k])
             /\ ~OutOfReach(fs[k]) => hs[k] = fs[k]
  <2>1. hs[k] = Estimated(fs[k])
    BY ONLY <1>2
  <2>2. fs[k] \in FragType /\ Evolved(b.frags[k], fs[k])
    BY ONLY <1>1
  <2> QED BY ONLY <2>1, <2>2, EstimatedIs
<1>4. hs \in Seq(FragType) /\ Len(hs) = L
  <2>1. hs \in [1 .. L -> FragType]
    BY ONLY <1>2, <1>3
  <2> QED BY ONLY <2>1, <1>1
<1>5. AllEvolved(b, hs)
  BY <1>1, <1>3, <1>4 DEF AllEvolved
<1>6. (\A k \in 1 .. L : ~OutOfReach(fs[k])) => hs = fs
  <2>1. (\A k \in 1 .. L : ~OutOfReach(fs[k])) => \A k \in 1 .. L : hs[k] = fs[k]
    BY <1>3
  <2> QED BY ONLY <2>1, <1>1, <1>4, SeqEqual DEF L
<1> QED BY <1>3, <1>4, <1>5, <1>6 DEF L, hs

LEMMA EstimateStep == IInv /\ Estimate => IInv'
<1> SUFFICES ASSUME IInv, Estimate PROVE IInv'
  OBVIOUS
<1> DEFINE b == Base(program)
<1>1. /\ phase = "estimate" /\ phase' = "sweep"
      /\ frags' = EstimatedOf(frags) /\ addr' = Layout(frags')
      /\ program' = program /\ saved' = saved /\ symbols' = symbols /\ lastAddr' = lastAddr
      /\ sizes' = sizes /\ runs' = runs /\ sweeps' = sweeps /\ first' = first
  BY DEF Estimate, EstimatedOf
<1>2. Working /\ RestInv /\ WorkInv /\ EstimateInv /\ RunInv /\ FirstInv
  BY <1>1 DEF IInv, Working
<1>3. /\ AllEvolved(b, frags) /\ symbols = b.symbols /\ sizes = b.sizes
      /\ frags \in Seq(FragType) /\ Len(frags) \in Nat /\ Len(frags) >= 1
  BY <1>2, Fragments DEF WorkInv
<1>4. /\ AllEvolved(b, frags') /\ Len(frags') = Len(frags)
      /\ \A k \in 1 .. Len(frags') : ~OutOfReach(frags'[k])
  BY <1>1, <1>3, EstimatedAll
<1>5. RestInv'
  BY <1>1, <1>2 DEF RestInv, Working, Resting
<1>6. WorkInv'
  BY <1>1, <1>3, <1>4 DEF WorkInv
<1>7. IsLayout(frags', addr')
  <2>1. frags' \in Seq(FragType) /\ Len(frags') >= 1
    BY <1>3, <1>4 DEF AllEvolved
  <2>2. IsLayout(frags', Layout(frags'))
    BY ONLY <2>1, LayoutLemma
  <2> QED BY ONLY <2>2, <1>1
<1>8. Counted(0)' \/ (Settled(program, symbols, frags, addr)' /\ addr' = lastAddr' /\ Counted(1)')
  <2>1. CASE sweeps = 0
    <3>1. Working' /\ RestInv' /\ WorkInv'
      BY <1>1, <1>5, <1>6 DEF Working
    <3>2. Cardinality(Big(frags')) \in Nat
      <4>1. IsProgram(program) /\ IsBuilt(program, Len(program), b)
        BY <1>2, BaseIsBuilt DEF RestInv
      <4> QED BY ONLY <4>1, <1>4, BigLemma
    <3> QED BY ONLY <3>2, <2>1, <1>1 DEF Counted
  <2>2. CASE Measurable(program, b, frags, addr) /\ addr = lastAddr /\ Counted(1)
    <3>1. /\ \A k \in 1 .. Len(frags) : ~OutOfReach(frags[k])
          /\ IsLayout(frags, addr) /\ Settled(program, symbols, frags, addr)
      BY <2>2, <1>3 DEF Measurable
    <3>2. frags' = frags
      BY ONLY <3>1, <1>1, <1>3, EstimatedAll
    <3>3. addr' = addr
      <4>1. IsLayout(frags, addr') /\ Len(frags) \in Nat
        BY ONLY <3>2, <1>3, <1>7
      <4> QED BY ONLY <4>1, <3>1, LayoutUnique
    <3>4. Settled(program, symbols, frags, addr)'
      BY ONLY <3>1, <3>2, <3>3, <1>1
    <3>5. Counted(1)'
      BY ONLY <3>2, <2>2, <1>1 DEF Counted
    <3> QED BY ONLY <3>3, <3>4, <3>5, <2>2, <1>1
  <2> QED BY <2>1, <2>2, <1>1, <1>2 DEF EstimateInv
<1>9. SweepInv'
  BY <1>4, <1>7, <1>8 DEF SweepInv
<1>10. EstimateInv' /\ MeasureInv' /\ DoneInv'
  BY <1>1 DEF EstimateInv, MeasureInv, DoneInv
<1>11. RunInv'
  <2>1. Here' = Standing("sweep", EstimatedOf(frags), Layout(EstimatedOf(frags)), lastAddr)
    BY Zenon, <1>1 DEF Here
  <2>2. /\ Here.phase = "estimate" /\ Here.frags = frags /\ Here.last = lastAddr
    BY <1>1 DEF Here, Standing
  <2>3. Here' = StepOf(program, Here)
    BY ONLY <2>1, <2>2 DEF StepOf
  <2> QED BY <2>3, <1>1, <1>2, RunStep
<1>12. FirstInv'
  BY <1>1, <1>2 DEF FirstInv
<1> QED BY <1>5, <1>6, <1>9, <1>10, <1>11, <1>12 DEF IInv

LEMMA SweepActionStep == IInv /\ Sweep => IInv'
<1> SUFFICES ASSUME IInv, Sweep PROVE IInv'
  OBVIOUS
<1> DEFINE b == Base(program)
           r == Swept(program, symbols, frags, addr)
<1>1. /\ phase = "sweep" /\ frags' = r.frags /\ addr' = r.at
      /\ program' = program /\ saved' = saved /\ symbols' = symbols
      /\ sizes' = sizes /\ runs' = runs /\ sweeps' = sweeps + 1 /\ first' = first
  BY DEF Sweep
<1>2. IF addr' # addr THEN phase' = phase /\ lastAddr' = lastAddr
      ELSE lastAddr' = addr /\ phase' = IF addr # lastAddr THEN "estimate" ELSE "measure"
  BY DEF Sweep
<1>3. Working /\ RestInv /\ WorkInv /\ SweepInv /\ RunInv /\ FirstInv
  BY <1>1 DEF IInv, Working
<1>4. /\ symbols = b.symbols /\ sizes = b.sizes
      /\ frags \in Seq(FragType) /\ Len(frags) \in Nat /\ Len(frags) >= 1
      /\ Len(frags) = Len(b.frags) /\ frags[Len(frags)].kind = "end"
      /\ \A k \in 1 .. Len(frags) : frags[k] \in FragType /\ Evolved(b.frags[k], frags[k])
      /\ Cardinality(Big(frags)) \in Nat
  BY <1>3, Fragments DEF WorkInv
<1>5. /\ \A k \in 1 .. Len(frags) : ~OutOfReach(frags[k])
      /\ IsLayout(frags, addr)
      /\ Counted(0) \/ (Settled(program, symbols, frags, addr) /\ addr = lastAddr /\ Counted(1))
  BY <1>1, <1>3 DEF SweepInv
<1>6. IsSwept(program, symbols, frags, addr, r)
  BY ONLY <1>4, <1>5, SweepLemma
<1> HIDE DEF r, b
<1>7. /\ frags' \in Seq(FragType) /\ Len(frags') = Len(frags)
      /\ \A k \in 1 .. Len(frags) : Raised(frags[k], frags'[k])
      /\ IsLayout(frags', addr')
      /\ addr' = addr <=> Settled(program, symbols, frags, addr)
      /\ addr' = addr => frags' = frags
      /\ addr' # addr => \E k \in 1 .. Len(frags) : frags'[k] # frags[k]
  BY ONLY <1>1, <1>6 DEF IsSwept
<1>8. \A k \in 1 .. Len(frags) : Evolved(b.frags[k], frags'[k]) /\ ~OutOfReach(frags'[k])
  <2> TAKE k \in 1 .. Len(frags)
  <2>1. frags[k] \in FragType /\ Evolved(b.frags[k], frags[k]) /\ ~OutOfReach(frags[k])
    BY ONLY <1>4, <1>5
  <2>2. Raised(frags[k], frags'[k])
    BY ONLY <1>7
  <2> QED BY ONLY <2>1, <2>2, RaisedIs
<1>9. AllEvolved(b, frags')
  BY ONLY <1>4, <1>7, <1>8 DEF AllEvolved
<1>10. RestInv'
  <2>1. Working'
    BY <1>1, <1>2 DEF Working
  <2>2. ~Resting'
    BY <1>1, <1>2 DEF Resting
  <2> QED BY <2>1, <2>2, <1>1, <1>3 DEF RestInv
<1>11. WorkInv'
  BY <1>1, <1>4, <1>9 DEF WorkInv, b
<1>12. ASSUME addr' # addr
       PROVE  SweepInv' /\ EstimateInv' /\ MeasureInv' /\ DoneInv'
  <2>1. phase' = "sweep" /\ lastAddr' = lastAddr
    BY <1>1, <1>2, <1>12
  <2>2. Cardinality(Big(frags')) >= Cardinality(Big(frags)) + 1
    BY ONLY <1>4, <1>7, <1>12, MoreLemma
  <2>3. Cardinality(Big(frags')) \in Nat
    <3>1. IsProgram(program) /\ IsBuilt(program, Len(program), b)
      BY <1>3, BaseIsBuilt DEF RestInv, b
    <3> QED BY ONLY <3>1, <1>9, BigLemma
  <2>4. Counted(0)
    <3>1. ~Settled(program, symbols, frags, addr)
      BY ONLY <1>7, <1>12
    <3> QED BY ONLY <3>1, <1>5
  <2>5. Counted(0)'
    <3>1. sweeps \in Nat
      BY <1>3 DEF RestInv
    <3> QED BY ONLY <3>1, <2>2, <2>3, <2>4, <1>1, <1>4 DEF Counted
  <2>6. SweepInv'
    BY ONLY <2>5, <1>7, <1>8 DEF SweepInv
  <2>7. EstimateInv' /\ MeasureInv' /\ DoneInv'
    BY ONLY <2>1 DEF EstimateInv, MeasureInv, DoneInv
  <2> QED BY ONLY <2>6, <2>7
<1>13. ASSUME addr' = addr
       PROVE  SweepInv' /\ EstimateInv' /\ MeasureInv' /\ DoneInv'
  <2>1. frags' = frags /\ Settled(program, symbols, frags, addr) /\ lastAddr' = addr
    BY ONLY <1>2, <1>7, <1>13
  <2>2. Measurable(program, Base(program), frags, addr)'
    <3>1. Measurable(program, b, frags, addr)
      BY ONLY <2>1, <1>4, <1>5, <1>9 DEF Measurable
    <3> QED BY ONLY <3>1, <2>1, <1>1, <1>13 DEF b
  <2>3. Counted(1)
    <3>1. sweeps \in Nat
      BY <1>3 DEF RestInv
    <3> QED BY ONLY <3>1, <1>4, <1>5 DEF Counted
  <2>4. CASE addr # lastAddr
    <3>1. phase' = "estimate"
      BY ONLY <2>4, <1>2, <1>13
    <3>2. Counted(0)
      BY ONLY <2>4, <1>5
    <3>3. Counted(1)'
      <4>1. sweeps \in Nat
        BY <1>3 DEF RestInv
      <4> QED BY ONLY <4>1, <3>2, <2>1, <1>1, <1>4 DEF Counted
    <3>4. EstimateInv'
      BY ONLY <3>3, <2>1, <2>2, <1>13 DEF EstimateInv
    <3>5. SweepInv' /\ MeasureInv' /\ DoneInv'
      BY ONLY <3>1 DEF SweepInv, MeasureInv, DoneInv
    <3> QED BY ONLY <3>4, <3>5
  <2>5. CASE addr = lastAddr
    <3>1. phase' = "measure"
      BY ONLY <2>5, <1>2, <1>13
    <3>2. Counted(2)'
      <4>1. sweeps \in Nat
        BY <1>3 DEF RestInv
      <4> QED BY ONLY <4>1, <2>1, <2>3, <1>1, <1>4 DEF Counted
    <3>3. MeasureInv'
      BY ONLY <3>2, <2>2 DEF MeasureInv
    <3>4. SweepInv' /\ EstimateInv' /\ DoneInv'
      BY ONLY <3>1 DEF SweepInv, EstimateInv, DoneInv
    <3> QED BY ONLY <3>3, <3>4
  <2> QED BY <2>4, <2>5
<1>14. RunInv'
  <2>1. /\ Here.phase = "sweep" /\ Here.frags = frags /\ Here.addr = addr /\ Here.last = lastAddr
    BY <1>1 DEF Here, Standing
  <2>2. StepOf(program, Here) = AfterSweep(r, Here)
    <3>1. StepOf(program, Here) = AfterSweep(Swept(program, Base(program).symbols, Here.frags, Here.addr), Here)
      BY ONLY <2>1 DEF StepOf
    <3> QED BY ONLY <3>1, <2>1, <1>4 DEF r, b
  <2>3. /\ phase' = IF r.at # addr THEN "sweep" ELSE IF addr # lastAddr THEN "estimate" ELSE "measure"
        /\ lastAddr' = IF r.at # addr THEN lastAddr ELSE addr
    BY ONLY <1>1, <1>2
  <2>4. AfterSweep(r, Here) = Standing(phase', r.frags, r.at, lastAddr')
    BY ONLY <2>1, <2>3 DEF AfterSweep
  <2>5. Here' = Standing(phase', r.frags, r.at, lastAddr')
    BY ONLY <1>1 DEF Here
  <2>6. Here' = StepOf(program, Here)
    BY ONLY <2>2, <2>4, <2>5
  <2> QED BY <2>6, <1>1, <1>3, RunStep
<1>15. FirstInv'
  BY <1>1, <1>3 DEF FirstInv
<1> QED BY <1>10, <1>11, <1>12, <1>13, <1>14, <1>15 DEF IInv

LEMMA MeasureStep == IInv /\ Measure => IInv'
<1> SUFFICES ASSUME IInv, Measure PROVE IInv'
  OBVIOUS
<1> DEFINE b == Base(program)
           szs == SizesOf(program, frags, addr, b.sizes)
<1>1. /\ phase = "measure" /\ phase' = "done" /\ opcode' = saved /\ runs' = runs + 1
      /\ program' = program /\ saved' = saved /\ sweeps' = sweeps
      /\ offsets' = OffsetsOf(sizes')
      /\ first' = IF runs = 0 THEN <<sizes', offsets'>> ELSE first
  BY DEF Measure, Restored
<1>2. Working /\ RestInv /\ WorkInv /\ MeasureInv /\ RunInv /\ FirstInv
  BY <1>1 DEF IInv, Working
<1>3. /\ symbols = b.symbols /\ sizes = b.sizes /\ program \in Programs
      /\ Measurable(program, b, frags, addr) /\ Counted(2)
      /\ saved = Shorts(program) /\ runs \in Nat /\ sweeps \in Nat
  BY <1>1, <1>2 DEF WorkInv, MeasureInv, RestInv
<1>4. IsProgram(program) /\ IsBuilt(program, Len(program), b)
  BY <1>3, BaseIsBuilt
<1>5. sizes' = szs /\ offsets' = OffsetsOf(szs)
  <2>1. sizes' = SizesOf(program, frags, addr, sizes)
    BY DEF Measure, SizesOf, Relaxed, RelaxedOf
  <2> QED BY <2>1, <1>1, <1>3
<1>6. RestInv'
  <2>1. sweeps <= Cardinality(Jumps(program)) + 2
    <3>1. /\ Cardinality(Big(frags)) \in Nat /\ Cardinality(Jumps(program)) \in Nat
          /\ Cardinality(Big(frags)) <= Cardinality(Jumps(program))
      BY <1>2, Fragments
    <3> QED BY ONLY <3>1, <1>3 DEF Counted
  <2> QED BY <2>1, <1>1, <1>3 DEF RestInv, Resting
<1>7. WorkInv' /\ EstimateInv' /\ SweepInv' /\ MeasureInv' /\ RunInv'
  BY <1>1 DEF WorkInv, EstimateInv, SweepInv, MeasureInv, RunInv, Working
<1>8. PICK n \in Nat : \E t : IsRun(program, t, n) /\ t[n] = Here
  BY <1>2 DEF RunInv
<1>9. PICK t : IsRun(program, t, n) /\ t[n] = Here
  BY <1>8
<1>10. Here.phase = "measure" /\ Here.frags = frags /\ Here.addr = addr
  BY <1>1 DEF Here, Standing
<1>11. ResultOf(program, Here) = <<sizes', offsets'>>
  BY <1>5, <1>10 DEF ResultOf
<1>12. EndedAs(program, <<sizes', offsets'>>)
  BY <1>9, <1>10, <1>11 DEF EndedAs
<1>13. first' = <<sizes', offsets'>>
  <2>1. CASE runs = 0
    BY <2>1, <1>1
  <2>2. CASE runs # 0
    <3>1. first' = first /\ runs > 0
      BY <2>2, <1>1, <1>3
    <3>2. EndedAs(program, first)
      BY <3>1, <1>2 DEF FirstInv
    <3>3. PICK m \in Nat : \E u : IsRun(program, u, m) /\ u[m].phase = "measure" /\ first = ResultOf(program, u[m])
      BY <3>2 DEF EndedAs
    <3>4. PICK u : IsRun(program, u, m) /\ u[m].phase = "measure" /\ first = ResultOf(program, u[m])
      BY <3>3
    <3>5. t[n].phase = "measure"
      BY <1>9, <1>10
    <3>6. t[n] = u[m]
      BY ONLY <1>9, <3>4, <3>5, RunsAgree, n \in Nat, m \in Nat
    <3> QED BY ONLY <3>1, <3>4, <3>6, <1>9, <1>11
  <2> QED BY <2>1, <2>2
<1>14. FirstInv'
  BY ONLY <1>1, <1>12, <1>13 DEF FirstInv
<1>15. DoneInv'
  <2>1. Reached(program, szs, OffsetsOf(szs)) /\ Aligned(program, szs, OffsetsOf(szs))
    BY <1>3, <1>4, MeasuredLemma
  <2>2. Reached(program, sizes, offsets)' /\ Aligned(program, sizes, offsets)'
    BY ONLY <2>1, <1>1, <1>5
  <2> QED BY ONLY <2>2, <1>13 DEF DoneInv
<1> QED BY <1>6, <1>7, <1>14, <1>15 DEF IInv

LEMMA RelaxAgainStep == IInv /\ RelaxAgain => IInv'
<1> SUFFICES ASSUME IInv, RelaxAgain PROVE IInv'
  OBVIOUS
<1>1. /\ phase = "done" /\ phase' = "start"
      /\ program' = program /\ opcode' = opcode /\ saved' = saved /\ runs' = runs
      /\ sweeps' = sweeps /\ first' = first
  BY DEF RelaxAgain, relaxing
<1>2. RestInv /\ FirstInv /\ Resting
  BY <1>1 DEF IInv, Resting
<1>3. RestInv'
  BY <1>1, <1>2 DEF RestInv, Resting
<1>4. WorkInv' /\ EstimateInv' /\ SweepInv' /\ MeasureInv' /\ RunInv' /\ DoneInv'
  BY <1>1 DEF WorkInv, EstimateInv, SweepInv, MeasureInv, RunInv, DoneInv, Working
<1>5. FirstInv'
  BY <1>1, <1>2 DEF FirstInv
<1> QED BY <1>3, <1>4, <1>5 DEF IInv

LEMMA UnchangedStep == IInv /\ UNCHANGED vars => IInv'
BY DEF vars, relaxing, IInv, RestInv, WorkInv, EstimateInv, SweepInv, MeasureInv, RunInv,
       FirstInv, DoneInv, Working, Resting, Counted, Here

-----------------------------------------------------------------------------
(* The theorems.                                                           *)

\* In every state, IInv.
LEMMA Invariance == Spec => []IInv
<1>1. Init => IInv
  BY InitStep
<1>2. IInv /\ [Next]_vars => IInv'
  <2> SUFFICES ASSUME IInv, [Next]_vars PROVE IInv'
    OBVIOUS
  <2>1. CASE BuildFragments
    BY <2>1, BuildFragmentsStep
  <2>2. CASE Estimate
    BY <2>2, EstimateStep
  <2>3. CASE Sweep
    BY <2>3, SweepActionStep
  <2>4. CASE Measure
    BY <2>4, MeasureStep
  <2>5. CASE RelaxAgain
    BY <2>5, RelaxAgainStep
  <2>6. CASE UNCHANGED vars
    BY <2>6, UnchangedStep
  <2> QED BY <2>1, <2>2, <2>3, <2>4, <2>5, <2>6 DEF Next
<1> QED BY <1>1, <1>2, PTL DEF Spec

\* A jump that Go counts as two bytes reaches its target from where the offset
\* map says both are, and any other has the size of its long form: for sections
\* of any size, whatever the fill of alignments does while jumps grow.
THEOREM ReachTheorem == Spec => []JumpsReach
<1>1. IInv => JumpsReach
  <2> SUFFICES ASSUME IInv, phase = "done" PROVE JumpsReach
    BY DEF JumpsReach
  <2>1. Reached(program, sizes, offsets)
    BY DEF IInv, DoneInv
  <2>2. HasFloats <=> FloatsIn(program)
    BY DEF HasFloats, FloatsIn
  <2> QED BY ONLY <2>1, <2>2 DEF Reached, JumpsReach, Short
<1> QED BY <1>1, Invariance, PTL

\* What follows an alignment is aligned, by the offset map.
THEOREM AlignTheorem == Spec => []AlignsAlign
<1>1. IInv => AlignsAlign
  <2> SUFFICES ASSUME IInv, phase = "done" PROVE AlignsAlign
    BY DEF AlignsAlign
  <2>1. Aligned(program, sizes, offsets)
    BY DEF IInv, DoneInv
  <2>2. HasFloats <=> FloatsIn(program)
    BY DEF HasFloats, FloatsIn
  <2> QED BY ONLY <2>1, <2>2 DEF Aligned, AlignsAlign
<1> QED BY <1>1, Invariance, PTL

\* Relaxing puts the opcodes back, and relaxing again gives the same maps.
THEOREM TraceTheorem == Spec => []LeavesNoTrace
<1>1. IInv => LeavesNoTrace
  <2> SUFFICES ASSUME IInv, phase = "done" PROVE LeavesNoTrace
    BY DEF LeavesNoTrace
  <2>1. opcode = Shorts(program) /\ <<sizes, offsets>> = first
    BY DEF IInv, RestInv, DoneInv, Resting
  <2>2. \A i \in DOMAIN opcode : opcode[i] = "short"
    BY ONLY <2>1 DEF Shorts
  <2> QED BY ONLY <2>1, <2>2 DEF LeavesNoTrace
<1> QED BY <1>1, Invariance, PTL

\* Go sweeps at most once for each jump, and twice more.
THEOREM ReturnTheorem == Spec => []GoReturns
<1>1. IInv => GoReturns
  <2> SUFFICES ASSUME IInv PROVE GoReturns
    OBVIOUS
  <2>1. RestInv /\ WorkInv /\ EstimateInv /\ SweepInv /\ MeasureInv
    BY DEF IInv
  <2>2. sweeps \in Nat /\ (Working \/ Resting)
    BY <2>1 DEF RestInv
  <2>3. Resting => sweeps <= Cardinality(Jumps(program)) + 2
    BY <2>1 DEF RestInv
  <2>4. ASSUME Working PROVE sweeps <= Cardinality(Jumps(program)) + 2
    <3>1. /\ Cardinality(Big(frags)) \in Nat /\ Cardinality(Jumps(program)) \in Nat
          /\ Cardinality(Big(frags)) <= Cardinality(Jumps(program))
      BY <2>1, <2>4, Fragments
    <3>2. sweeps = 0 \/ Counted(0) \/ Counted(1) \/ Counted(2)
      BY <2>1, <2>4 DEF EstimateInv, SweepInv, MeasureInv, Working
    <3> QED BY ONLY <3>1, <3>2, <2>2 DEF Counted
  <2>5. sweeps <= Cardinality(Jumps(program)) + 2
    BY <2>2, <2>3, <2>4
  <2> QED BY ONLY <2>5 DEF GoReturns, Jumps
<1> QED BY <1>1, Invariance, PTL
=============================================================================
