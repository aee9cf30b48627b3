------------------------------ MODULE Relaxer ------------------------------
(***************************************************************************)
(* MaoRelaxer (MaoRelax.cc): the size and the offset of every entry of a   *)
(* section.  The section is cut into fragments, each of which ends with    *)
(* the one entry whose size depends on where the others are: a jump, which *)
(* is two bytes if its target is near, or an alignment.  gas's             *)
(* relax_segment grows the fragments until nothing changes, and the sizes  *)
(* are read off the fragment addresses.  Relaxing writes into the          *)
(* instructions and has to put everything back, because the passes relax   *)
(* again after every change they make.                                     *)
(*                                                                         *)
(* relax_segment is in binutils, outside the repository; it is modelled as *)
(* the loop of sweeps that Go and the gas half of the repository use.      *)
(***************************************************************************)
EXTENDS Integers, Sequences, FiniteSets

CONSTANTS
  Programs,     \* the sections to relax
  MaxRuns       \* bound: times a section is relaxed

\* An entry of a section: .kind is "bytes" (any instruction or directive of a
\* fixed .size), "float" (DC_D, DC_S, DC_X), "label", "jmp" or "jcc" to the
\* label number .target, or "align" to a multiple of .to with at most .max bytes
\* of fill.  Target 0 is outside the section, or visible from outside.
EntryType ==
  [kind : {"bytes", "float", "label", "jmp", "jcc", "align"},
   size : Nat, target : Nat, to : Nat \ {0}, max : Nat]
Entry(kind) == [kind |-> kind, size |-> 0, target |-> 0, to |-> 1, max |-> 0]
Bytes(n) == [Entry("bytes") EXCEPT !.size = n]
Float(n) == [Entry("float") EXCEPT !.size = n]
Jump(kind, t) == [Entry(kind) EXCEPT !.target = t]
Align(to, max) == [Entry("align") EXCEPT !.to = to, !.max = max]

IsJump(e) == e.kind \in {"jmp", "jcc"}

\* The labels among the first n entries, the index of the t-th label, and a
\* section whose jumps all have a target.
LabelsTo(p, n) == {i \in 1 .. n : p[i].kind = "label"}
LabelAt(p, t) ==
  CHOOSE i \in DOMAIN p : p[i].kind = "label" /\ Cardinality(LabelsTo(p, i)) = t
IsProgram(p) ==
  /\ p \in Seq(EntryType)
  /\ \A i \in DOMAIN p : p[i].target <= Cardinality(LabelsTo(p, Len(p)))

ASSUME ProgramsAssumption == \A p \in Programs : IsProgram(p)
ASSUME RunsAssumption == MaxRuns \in Nat

VARIABLES
  program,    \* the section
  phase,      \* "start", "estimate", "sweep", "measure" or "done"
  opcode,     \* of each jump: tm.base_opcode, "short" unless gas has grown it
  saved,      \* FragState
  frags,      \* the fragments, see NewFragment
  symbols,    \* of each label: its fragment and its offset in there
  addr,       \* fr_address
  lastAddr,   \* last_fr_address
  sizes,      \* size_map
  offsets,    \* offset_map
  runs,       \* times relaxed
  sweeps,     \* history: sweeps of this run
  first       \* history: sizes and offsets as relaxed the first time

relaxing == <<saved, frags, symbols, addr, lastAddr>>
vars == <<program, phase, opcode, relaxing, sizes, offsets, runs, sweeps, first>>

-----------------------------------------------------------------------------
(* BuildFragments.                                                         *)

\* fix and oldFix are fr_fix, as it is and as it was before relaxing; kind is
\* what ends the fragment, from the entry of relax_map; state is fr_subtype, or
\* "waned" once gas has fixed the size of the jump.
NewFragment ==
  [fix |-> 0, oldFix |-> 0, kind |-> "end", entry |-> 0,
   target |-> 0, to |-> 1, max |-> 0, state |-> "small"]

\* A jump whose opcode is not the short jmp is a conditional one.
JumpKind(p, ops, i) == IF p[i].kind = "jmp" /\ ops[i] = "short" THEN "jmp" ELSE "jcc"

\* FragVar: the fragment ends with entry i, which is e.
Ended(f, i, e, kind) ==
  [f EXCEPT !.kind = kind, !.entry = i, !.target = e.target, !.to = e.to, !.max = e.max]
EndFragment(b, i, e, kind) ==
  LET n == Len(b.frags)
      ended == [b.frags EXCEPT ![n] = Ended(@, i, e, kind)]
  IN  [b EXCEPT !.frags = Append(ended, NewFragment)]

\* fr_fix += n
Grown(f, n) == [f EXCEPT !.fix = @ + n, !.oldFix = @ + n]
Grow(b, n) == LET k == Len(b.frags) IN [b EXCEPT !.frags[k] = Grown(@, n)]

Sized(b, i, n) == [b EXCEPT !.sizes[i] = n]
Labelled(b, i) ==
  [b EXCEPT !.symbols[i] = <<Len(b.frags), b.frags[Len(b.frags)].fix>>]

\* Slip: an alignment does not end its fragment.
BuildEntrySlip(p, ops, b, i) ==
  LET e == p[i]
  IN  CASE e.kind = "bytes" -> Grow(Sized(b, i, e.size), e.size)
        [] e.kind \in {"float", "align"} -> Sized(b, i, e.size)
        [] e.kind = "label" -> Labelled(b, i)
        [] IsJump(e) -> EndFragment(Grow(Sized(b, i, 1), 1), i, e, JumpKind(p, ops, i))

BuildEntry(p, ops, b, i) ==
  LET e == p[i]
  IN  CASE e.kind = "bytes" -> Grow(Sized(b, i, e.size), e.size)
        [] e.kind = "float" -> Sized(b, i, e.size)
        [] e.kind = "label" -> Labelled(b, i)
        [] IsJump(e) -> EndFragment(Grow(Sized(b, i, 1), 1), i, e, JumpKind(p, ops, i))
        [] e.kind = "align" -> EndFragment(Sized(b, i, 0), i, e, "align")

NothingBuilt(p) ==
  [frags |-> <<NewFragment>>, sizes |-> [j \in DOMAIN p |-> 0],
   symbols |-> [j \in DOMAIN p |-> <<0, 0>>]]

Built(p, ops) ==
  LET upTo[i \in 0 .. Len(p)] ==
        IF i = 0 THEN NothingBuilt(p) ELSE BuildEntry(p, ops, upTo[i - 1], i)
  IN  upTo[Len(p)]

-----------------------------------------------------------------------------
(* relax_segment and what the i386 half of gas tells it.                   *)

\* md_relax_table: the bytes of a jump past its opcode byte.
VarLength(kind, state) ==
  IF state = "small" THEN 1 ELSE IF kind = "jmp" THEN 4 ELSE 5

\* relax_align, and the limit on the fill.
Fill(at, to, max) ==
  LET fill == (-at) % to
  IN  IF max # 0 /\ fill > max THEN 0 ELSE fill

\* The variable part of fragment f at address a.
VarSize(f, a) ==
  CASE f.state = "waned" \/ f.kind = "end" -> 0
    [] f.kind = "align" -> Fill(a + f.fix, f.to, f.max)
    [] OTHER -> VarLength(f.kind, f.state)

\* md_estimate_size_before_relax: a jump out of the section takes its full size
\* at once, in the fixed part, and gas rewrites its opcode.
OutOfReach(f) == f.kind \in {"jmp", "jcc"} /\ f.target = 0 /\ f.state # "waned"
Estimated(f) ==
  IF OutOfReach(f)
    THEN [f EXCEPT !.fix = @ + VarLength(f.kind, "big"), !.state = "waned"] ELSE f

\* The addresses before the first sweep.
Layout(fs) ==
  LET at[k \in 1 .. Len(fs)] ==
        IF k = 1 THEN 0 ELSE at[k - 1] + fs[k - 1].fix + VarSize(fs[k - 1], at[k - 1])
  IN  at

\* Slip: the reach is taken from the start of the displacement byte.
ReachesSlip(aim) == aim \in -128 .. 129

\* relax_frag: how far the jump of fragment f, the k-th, has to reach from
\* address a.  A target that this sweep has not come to yet will move by
\* `stretch' too.
Aim(p, syms, f, k, a, stretch, at) ==
  LET s == syms[LabelAt(p, f.target)]
      target == at[s[1]] + s[2] + IF s[1] > k THEN stretch ELSE 0
  IN  target - a - f.fix
Reaches(aim) == aim \in -127 .. 128

\* Slip: a jump that has come within reach is made short again.
NextStateSlip(f, aim) ==
  IF f.kind \in {"jmp", "jcc"} /\ f.state # "waned" /\ f.target # 0
    THEN IF Reaches(aim) THEN "small" ELSE "big" ELSE f.state

NextState(f, aim) ==
  IF f.kind \in {"jmp", "jcc"} /\ f.state = "small" /\ ~Reaches(aim)
    THEN "big" ELSE f.state

\* One sweep over the fragments fs at their addresses: each moves by what those
\* before it grew.
SweepFrag(p, syms, fs, was, before, k) ==
  LET f == fs[k]
      a == was[k] + before.stretch
      at == [before.at EXCEPT ![k] = a]
      state == NextState(f, Aim(p, syms, f, k, a, before.stretch, at))
      new == [f EXCEPT !.state = state]
      growth == VarSize(new, a) - VarSize(f, was[k])
  IN  [stretch |-> before.stretch + growth, at |-> at,
       frags |-> [before.frags EXCEPT ![k] = new]]
Swept(p, syms, fs, was) ==
  LET go[k \in 0 .. Len(fs)] ==
        IF k = 0 THEN [stretch |-> 0, at |-> was, frags |-> fs]
                 ELSE SweepFrag(p, syms, fs, was, go[k - 1], k)
  IN  go[Len(fs)]

-----------------------------------------------------------------------------
(* MaoRelaxer::Go.                                                         *)

Init ==
  /\ program \in Programs
  /\ phase = "start"
  /\ opcode = [i \in DOMAIN program |-> "short"]
  /\ saved = opcode
  /\ frags = <<>> /\ symbols = <<>> /\ addr = <<>> /\ lastAddr = <<>>
  /\ sizes = <<>> /\ offsets = <<>>
  /\ runs = 0 /\ sweeps = 0
  /\ first = <<>>

\* BuildFragments and SaveState.
BuildFragments ==
  /\ phase = "start"
  /\ LET built == Built(program, opcode) IN
       /\ frags' = built.frags
       /\ sizes' = built.sizes
       /\ symbols' = built.symbols
  /\ addr' = [k \in DOMAIN frags' |-> 0]
  /\ lastAddr' = addr'
  /\ saved' = opcode
  /\ phase' = "estimate"
  /\ sweeps' = 0
  /\ UNCHANGED <<program, opcode, offsets, runs, first>>

\* The first half of relax_segment.
Estimate ==
  /\ phase = "estimate"
  /\ frags' = [k \in DOMAIN frags |-> Estimated(frags[k])]
  /\ opcode' = [i \in DOMAIN opcode |->
                  IF \E k \in DOMAIN frags : frags[k].entry = i /\ OutOfReach(frags[k])
                    THEN "long" ELSE opcode[i]]
  /\ addr' = Layout(frags')
  /\ phase' = "sweep"
  /\ UNCHANGED <<program, saved, symbols, lastAddr, sizes, offsets, runs, sweeps, first>>

\* Its second half, until a sweep changes nothing; Go then calls it again until
\* it leaves the addresses as the last call did.
Sweep ==
  /\ phase = "sweep"
  /\ LET swept == Swept(program, symbols, frags, addr) IN
       /\ frags' = swept.frags
       /\ addr' = swept.at
  /\ sweeps' = sweeps + 1
  /\ IF addr' # addr
       THEN UNCHANGED <<phase, lastAddr>>
       ELSE /\ lastAddr' = addr
            /\ phase' = IF addr # lastAddr THEN "estimate" ELSE "measure"
  /\ UNCHANGED <<program, opcode, saved, symbols, sizes, offsets, runs, first>>

\* Slip: what gas moved into the fixed part is not counted.
RelaxedSlip(k) == addr[k + 1] - addr[k] - frags[k].fix

\* What relaxing adds to the entry that ends fragment k.
Relaxed(k) ==
  (addr[k + 1] - addr[k] - frags[k].fix) + (frags[k].fix - frags[k].oldFix)

\* Slip: the opcodes stay as gas left them.
RestoredSlip == opcode

\* RestoreState
Restored == saved

\* Each entry begins where the one before it ends.
OffsetsOf(s) ==
  LET at[i \in 1 .. Len(s)] == IF i = 1 THEN 0 ELSE at[i - 1] + s[i - 1] IN at

\* The sizes and offsets; then RestoreState and FreeFragments.
Measure ==
  /\ phase = "measure"
  /\ sizes' = [i \in DOMAIN program |->
                 IF \E k \in DOMAIN frags : frags[k].entry = i
                   THEN sizes[i] + Relaxed(CHOOSE k \in DOMAIN frags : frags[k].entry = i)
                   ELSE sizes[i]]
  /\ offsets' = OffsetsOf(sizes')
  /\ opcode' = Restored
  /\ frags' = <<>> /\ symbols' = <<>> /\ addr' = <<>> /\ lastAddr' = <<>>
  /\ phase' = "done"
  /\ runs' = runs + 1
  /\ first' = IF runs = 0 THEN <<sizes', offsets'>> ELSE first
  /\ UNCHANGED <<program, saved, sweeps>>

\* InvalidateSizeMap, and a pass that asks for the sizes again.
RelaxAgain ==
  /\ phase = "done"
  /\ runs < MaxRuns
  /\ sizes' = <<>>
  /\ offsets' = <<>>
  /\ phase' = "start"
  /\ UNCHANGED <<program, opcode, relaxing, runs, sweeps, first>>

Next == BuildFragments \/ Estimate \/ Sweep \/ Measure \/ RelaxAgain

Spec == Init /\ [][Next]_vars

-----------------------------------------------------------------------------
(* Properties.                                                             *)

\* Floats have a size and no place in a fragment (MaoRelax.cc:421): with one
\* in the section the addresses gas works with are not those of the map.
HasFloats == \E i \in DOMAIN program : program[i].kind = "float"

Short(i) == sizes[i] = 2

\* What passes rely on when they read the maps: a jump counted as two bytes
\* reaches its target from there, -128 .. 127 bytes past its end, by the very
\* offsets the maps give; and any other jump has the size of its long form.
JumpsReach ==
  phase = "done" =>
    \A i \in DOMAIN program :
      IsJump(program[i]) =>
        IF Short(i)
          THEN /\ program[i].target # 0
               /\ ~HasFloats => offsets[LabelAt(program, program[i].target)]
                                  - (offsets[i] + 2) \in -128 .. 127
          ELSE sizes[i] = 1 + VarLength(program[i].kind, "big")

\* The entry after an alignment is at a multiple of it, by the offset map,
\* unless that takes more fill than the directive allows; then there is none.
AlignsAlign ==
  phase = "done" /\ ~HasFloats =>
    \A i \in DOMAIN program :
      program[i].kind = "align" =>
        LET e == program[i] IN sizes[i] = Fill(offsets[i], e.to, e.max)

\* Relaxing leaves no trace: the opcodes are the parser's again, and relaxing
\* once more gives the same sizes and offsets.
LeavesNoTrace ==
  phase = "done" =>
    /\ \A i \in DOMAIN opcode : opcode[i] = "short"
    /\ <<sizes, offsets>> = first

\* Go returns: every sweep but the last two makes another jump long, since a
\* jump never becomes short again, though the fill of an alignment may shrink.
GoReturns ==
  sweeps <= Cardinality({i \in DOMAIN program : IsJump(program[i])}) + 2
=============================================================================
