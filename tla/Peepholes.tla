----------------------------- MODULE Peepholes -----------------------------
(***************************************************************************)
(* The passes that look for a pattern of instructions in a block and drop  *)
(* or rewrite one of them.  Each walks once over the block; what it        *)
(* creates and deletes is in the block at once, what it marks is deleted   *)
(* when it is done.  Whether a pattern is a good one is left to Machine:   *)
(* the block must compute what it did.                                     *)
(***************************************************************************)
EXTENDS Integers, Sequences, SequencesExt, FiniteSets, Machine

CONSTANTS
  Names,       \* the passes that run, by their names in --mao
  Blocks(_),   \* for each, the blocks that it runs on
  Starts,      \* the states of the processor that a block may start in
  LookAhead    \* REDMOV's option lookahead

VARIABLES
  pass,      \* the pass
  original,  \* the block as it was
  block,     \* as it is: instructions, with their place in original
  at,        \* the entry that the walk visits
  edits      \* history: pairs of places, what the pattern began with and what it changed

vars == <<pass, original, block, at, edits>>

ASSUME LookAheadAssumption == LookAhead \in Nat

Entry(i, place) == [ins |-> i, place |-> place, marked |-> FALSE]

Init ==
  /\ pass \in Names
  /\ original \in Blocks(pass)
  /\ block = [k \in DOMAIN original |-> Entry(original[k], k)]
  /\ at = 1
  /\ edits = {}

-----------------------------------------------------------------------------
(* What the passes ask of an instruction.                                  *)

Op(k) == block[k].ins.op
Src(k) == block[k].ins.src
Dst(k) == block[k].ins.dst

\* The alignments between instructions end every search.
IsInstruction(k) == k \in DOMAIN block /\ Op(k) # "align"
IsReg(o) == o.kind = "reg"

\* A register stands for itself and the parts within it, bit by bit.
SubRegs(r, w) == {r} \X (1 .. w)
ParentRegs(r, w) == {r} \X (w + 1 .. Q)
Flags == {<<"flags", 1>>}
PartsOf(o) == IF IsReg(o) THEN SubRegs(o.reg, o.w) ELSE {}
MaskOf(base) == SubRegs(base, Q)

\* GetRegisterDefMask.
DefMask(k) ==
  CASE Op(k) = "mov" -> PartsOf(Dst(k))
    [] Op(k) \in {"cmove", "cmovl", "bswap"} -> PartsOf(Dst(k))
    [] Op(k) = "xchg" -> PartsOf(Src(k)) \cup PartsOf(Dst(k))
    [] Op(k) = "test" -> Flags
    [] Op(k) = "call" -> MaskOf("a") \cup MaskOf("sp") \cup Flags
    [] Op(k) \in {"nop", "align"} -> {}
    [] OTHER -> PartsOf(Dst(k)) \cup Flags

IsAddIOrSubI(k) == Op(k) \in {"add", "sub"} /\ Src(k).kind = "imm" /\ IsReg(Dst(k))
IsPredicated(k) == Op(k) \in {"cmove", "cmovl"}

Visits(p) == pass = p /\ at \in DOMAIN block

Mark(k, from) ==
  /\ block' = [block EXCEPT ![k].marked = TRUE]
  /\ edits' = edits \cup {<<from, block[k].place>>}
  /\ at' = at + 1
  /\ UNCHANGED <<pass, original>>

-----------------------------------------------------------------------------
(* ADDADD: of two additions in a row to a register the first goes at once, *)
(* and the second gets the sum of their immediates.                        *)

Mergeable(k) ==
  /\ IsInstruction(k - 1)
  /\ IsAddIOrSubI(k - 1)
  /\ IsAddIOrSubI(k)
  /\ Dst(k - 1) = Dst(k)

MergeAdds ==
  /\ Visits("ADDADD")
  /\ Mergeable(at)
  /\ block' = RemoveAt([block EXCEPT ![at].ins.src = Imm(@.n + Src(at - 1).n)], at - 1)
  /\ edits' = edits \cup {<<block[at - 1].place, block[at].place>>}
  /\ UNCHANGED <<pass, original, at>>

-----------------------------------------------------------------------------
(* REDTEST: a test of a register goes if the instruction before it, or     *)
(* before the moves before it, has set the flags from that register.       *)

IsSelfTest(k) == Op(k) = "test" /\ IsReg(Src(k)) /\ Src(k) = Dst(k)

\* Slip: whatever leaves the register alone is passed.
PassedBySlip(k, test) ==
  /\ IsInstruction(k)
  /\ PartsOf(Dst(k)) \cap PartsOf(Dst(test)) = {}

PassedBy(k, test) ==
  /\ IsInstruction(k)
  /\ Op(k) = "mov"
  /\ PartsOf(Dst(k)) \cap PartsOf(Dst(test)) = {}

SetsFlagsFor(k, test) ==
  /\ IsInstruction(k)
  /\ Op(k) \in {"sub", "add", "and", "or", "xor", "sbb"}
  /\ Dst(k) = Dst(test)
  /\ \A j \in k + 1 .. test - 1 : PassedBy(j, test)

DropTest ==
  /\ Visits("REDTEST")
  /\ IsSelfTest(at)
  /\ \E k \in 1 .. at - 1 : SetsFlagsFor(k, at) /\ Mark(at, block[k].place)

-----------------------------------------------------------------------------
(* ZEE: a move of a 32-bit register to itself goes if what was written     *)
(* there last was written with 32 bits.                                    *)

IsZeroExtent(k) == Op(k) = "mov" /\ IsReg(Src(k)) /\ Src(k) = Dst(k) /\ Dst(k).w = L

Extends(k, move) ==
  /\ DefMask(move) \subseteq DefMask(k)
  /\ ParentRegs(Dst(move).reg, Dst(move).w) \cap DefMask(k) = {}

DropExtent ==
  /\ Visits("ZEE")
  /\ IsZeroExtent(at)
  /\ \E k \in 1 .. at - 1 :
       /\ Extends(k, at)
       /\ ~IsPredicated(k) /\ Op(k) \notin {"bswap", "call"}
       /\ \A j \in k + 1 .. at - 1 : IsInstruction(j) /\ DefMask(j) \cap DefMask(at) = {}
       /\ Mark(at, block[k].place)

-----------------------------------------------------------------------------
(* REDMOV: of two loads of the same memory the second becomes a move from  *)
(* the register of the first.                                              *)

IsLoad(k) == Op(k) = "mov" /\ IsReg(Dst(k)) /\ Src(k).kind = "mem"

\* Neither the register nor the address of a load at k may change.
Watched(k) == PartsOf(Dst(k)) \cup MaskOf(Src(k).reg)

\* The search goes on over what is known to write to no memory.
Harmless(k) ==
  /\ IsInstruction(k)
  /\ Op(k) # "call"
  /\ Dst(k).kind # "mem"
  /\ DefMask(k) # {}

\* Slip: the register is watched, its address is not.
LooksAtSlip(k, j) ==
  /\ j - k \in 1 .. LookAhead
  /\ \A i \in k + 1 .. j : Harmless(i)
  /\ \A i \in k + 1 .. j - 1 : DefMask(i) \cap PartsOf(Dst(k)) = {}

LooksAt(k, j) ==
  /\ j - k \in 1 .. LookAhead
  /\ \A i \in k + 1 .. j : Harmless(i)
  /\ \A i \in k + 1 .. j - 1 : DefMask(i) \cap Watched(k) = {}

ReuseLoad ==
  /\ Visits("REDMOV")
  /\ IsLoad(at)
  /\ PartsOf(Dst(at)) \cap MaskOf(Src(at).reg) = {}
  /\ LET again == {j \in DOMAIN block : LooksAt(at, j) /\ IsLoad(j) /\ Src(j) = Src(at)}
     IN  /\ again # {}
         /\ block' = [j \in DOMAIN block |->
                        IF j \in again THEN [block[j] EXCEPT !.ins.src = Dst(at)] ELSE block[j]]
         /\ edits' = edits \cup {<<block[at].place, block[j].place>> : j \in again}
  /\ at' = at + 1
  /\ UNCHANGED <<pass, original>>

-----------------------------------------------------------------------------
(* NOPKILL drops what does nothing; ADD2INC and INC2ADD write additions of *)
(* one in the other way, as a new instruction before the one they mark.    *)

IsNop(k) ==
  \/ Op(k) \in {"nop", "align"}
  \/ Op(k) = "xchg" /\ IsReg(Src(k)) /\ Src(k) = Dst(k)

DropNop == Visits("NOPKILL") /\ IsNop(at) /\ Mark(at, block[at].place)

Replace(new) ==
  /\ block' = InsertAt([block EXCEPT ![at].marked = TRUE], at, Entry(new, block[at].place))
  /\ edits' = edits \cup {<<block[at].place, block[at].place>>}
  /\ at' = at + 2
  /\ UNCHANGED <<pass, original>>

AddToInc ==
  /\ Visits("ADD2INC")
  /\ IsAddIOrSubI(at)
  /\ Src(at).n = 1
  /\ Replace(Ins(IF Op(at) = "add" THEN "inc" ELSE "dec", None, Dst(at)))

IncToAdd ==
  /\ Visits("INC2ADD")
  /\ Op(at) \in {"inc", "dec"} /\ IsReg(Dst(at))
  /\ Replace(Ins(IF Op(at) = "inc" THEN "add" ELSE "sub", Imm(1), Dst(at)))

-----------------------------------------------------------------------------
Edit == MergeAdds \/ DropTest \/ DropExtent \/ ReuseLoad \/ DropNop \/ AddToInc \/ IncToAdd

\* No pattern: the walk goes on.
GoOn ==
  /\ at \in DOMAIN block
  /\ ~ENABLED Edit
  /\ at' = at + 1
  /\ UNCHANGED <<pass, original, block, edits>>

\* MaoPass::Run: what was marked goes.
DeleteMarked ==
  /\ at = Len(block) + 1
  /\ at' = 0
  /\ block' = SelectSeq(block, LAMBDA e : ~e.marked)
  /\ UNCHANGED <<pass, original, edits>>

Next == Edit \/ GoOn \/ DeleteMarked

Spec == Init /\ [][Next]_vars

-----------------------------------------------------------------------------
(* Properties.                                                             *)

Done == at = 0
Code == [k \in DOMAIN block |-> block[k].ins]

\* Registers, memory and the flags that a test is about; and the other two.
Visible(s) == [regs |-> s.regs, mem |-> s.mem, zf |-> s.zf, sf |-> s.sf]
Carries(s) == <<s.cf, s.of>>

Same ==
  /\ \A k \in DOMAIN Code : Assembles(Code[k])
  /\ \A s \in Starts : Visible(Run(Code, s)) = Visible(Run(original, s))
SameCarries == \A s \in Starts : Carries(Run(Code, s)) = Carries(Run(original, s))

\* A sum or difference sets carry and overflow another way than the test that
\* goes, or than what is new in its place.
ChangesCarry(edit) ==
  /\ original[edit[1]].op \in {"add", "sub", "sbb", "inc", "dec"}
  /\ original[edit[1]].op \in {"inc", "dec"} => pass = "INC2ADD"
  /\ pass \in {"REDTEST", "ADDADD", "ADD2INC", "INC2ADD"}

\* Known exception: a changed carry or overflow flag is read below the edit, or
\* left at the block's end, where a conditional jump or another block may read
\* it.  MaoAdd2Inc.cc says that it takes no care of this.
ReadsCarry == {"adc", "sbb", "cmovl"}
WritesFlags == {"add", "adc", "sub", "sbb", "and", "xor", "test", "call"}
Rewritten(edit, k) == \E j \in edit[2] + 1 .. k - 1 : original[j].op \in WritesFlags
LosesCarry(edit) ==
  /\ ChangesCarry(edit)
  /\ \E k \in edit[2] + 1 .. Len(original) :
       original[k].op \in ReadsCarry /\ ~Rewritten(edit, k)
LeavesCarry(edit) == ChangesCarry(edit) /\ ~Rewritten(edit, Len(original) + 1)

\* Known exception: an exchange of a 32-bit register with itself clears its
\* upper half.
ClearsUpper(edit) == original[edit[1]].op = "xchg" /\ original[edit[1]].dst.w = L

\* What REDTEST, ZEE and NOPKILL drop is redundant: whatever the state it starts
\* in, the block leaves the same registers, memory, sign and zero flag, and,
\* unless the test that set them last is gone, the same carry and overflow.
DropsAreSound ==
  Done /\ pass \in {"REDTEST", "ZEE", "NOPKILL"} =>
    \/ \E e \in edits : LosesCarry(e) \/ ClearsUpper(e)
    \/ Same /\ (SameCarries \/ \E e \in edits : LeavesCarry(e))

\* Known exceptions: an addition and a subtraction in a row are added up, a sum
\* is out of the range of an immediate, loads of different widths are taken for
\* the same, and a write to memory whose operand is not the last goes unseen.
MixedSigns(e) == original[e[1]].op # original[e[2]].op
OutOfRange == \E k \in DOMAIN Code : Code[k].src.kind = "imm" /\ ~Assembles(Code[k])
OtherWidth(e) == original[e[1]].dst.w # original[e[2]].dst.w
UnseenWrite(e) ==
  \E j \in e[1] + 1 .. e[2] - 1 : original[j].op = "xchg" /\ original[j].src.kind = "mem"
Excepted(e) ==
  CASE pass = "ADDADD" -> MixedSigns(e) \/ OutOfRange \/ LosesCarry(e)
    [] pass = "REDMOV" -> OtherWidth(e) \/ UnseenWrite(e)
    [] OTHER -> LosesCarry(e)

\* What ADDADD, REDMOV, ADD2INC and INC2ADD write instead of an instruction
\* computes the same; carry and overflow too, but where LeavesCarry.
RewritesAreSound ==
  Done /\ pass \in {"ADDADD", "REDMOV", "ADD2INC", "INC2ADD"} =>
    \/ \E e \in edits : Excepted(e)
    \/ Same /\ (SameCarries \/ \E e \in edits : LeavesCarry(e))
=============================================================================
