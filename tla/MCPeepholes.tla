---------------------------- MODULE MCPeepholes ----------------------------
(***************************************************************************)
(* Every block of MaxLength instructions out of a repertoire for each pass *)
(* that has its patterns, what nearly is one, and what gets in between.    *)
(***************************************************************************)
EXTENDS Peepholes

MaxLength == 4

Rax == Reg("a", Q)
Rbx == Reg("b", Q)
Eax == Reg("a", L)
Ebx == Reg("b", L)
Al == Reg("a", B)
Bl == Reg("b", B)

Nop == Ins("nop", None, None)
Align == Ins("align", None, None)
Adc == Ins("adc", Imm(0), Rbx)
Mov(src, dst) == Ins("mov", src, dst)
Add(n, dst) == Ins("add", Imm(n), dst)
Sub(n, dst) == Ins("sub", Imm(n), dst)
Test(r) == Ins("test", r, r)
Xchg(src, dst) == Ins("xchg", src, dst)

Repertoire ==
  [ADDADD  |-> {Add(1, Rax), Add(-2, Rax), Sub(1, Rax), Sub(1, Eax), Add(1, Eax),
                Add(1, Bl), Adc, Align, Mov(Rax, Rbx)},
   REDTEST |-> {Test(Rax), Test(Eax), Ins("sub", Rbx, Rax), Add(1, Eax), Add(1, Rbx),
                Ins("xor", Eax, Eax), Ins("and", Rbx, Rax), Ins("sbb", Rbx, Eax),
                Ins("inc", None, Rax), Mov(Rbx, Rax), Mov(Bl, Al), Mov(Rax, Mem("sp")),
                Ins("cmovl", Rax, Rbx), Align},
   ZEE     |-> {Mov(Eax, Eax), Mov(Ebx, Eax), Mov(Rbx, Rax), Mov(Bl, Al), Add(1, Eax),
                Add(1, Rax), Ins("cmove", Ebx, Eax), Ins("bswap", None, Eax), Xchg(Eax, Ebx),
                Ins("call", None, None), Mov(Mem("sp"), Eax), Mov(Rax, Rbx)},
   REDMOV  |-> {Mov(Mem("sp"), Rax), Mov(Mem("sp"), Rbx), Mov(Mem("b"), Rax),
                Mov(Mem("sp"), Ebx), Mov(Mem("sp"), Al), Mov(Rax, Mem("b")), Add(1, Rax),
                Add(1, Bl), Xchg(Mem("sp"), Rbx), Nop, Ins("call", None, None)},
   NOPKILL |-> {Nop, Align, Xchg(Rax, Rax), Xchg(Eax, Eax), Xchg(Bl, Bl), Xchg(Rax, Rbx),
                Add(1, Rax)},
   ADD2INC |-> {Add(1, Rax), Add(1, Eax), Sub(1, Rax), Add(-2, Rax), Sub(1, Bl), Adc, Nop,
                Mov(Rax, Rbx)},
   INC2ADD |-> {Ins("inc", None, Rax), Ins("dec", None, Rax), Ins("inc", None, Eax),
                Ins("dec", None, Bl), Adc, Nop, Mov(Rax, Rbx)}]

MCNames == DOMAIN Repertoire
MCBlocks(p) == [1 .. MaxLength -> Repertoire[p]]
MCStarts ==
  {[regs |-> [a |-> a, b |-> b], mem |-> [c \in 0 .. 1 |-> IF c = 0 THEN m ELSE 6],
    zf |-> z, sf |-> ~z, cf |-> c1, of |-> FALSE] :
     a \in {0, 3, 4, 7}, b \in {1, 6}, m \in {2, 5}, z \in BOOLEAN, c1 \in {0, 1}}
=============================================================================
