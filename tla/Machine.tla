------------------------------ MODULE Machine ------------------------------
(***************************************************************************)
(* A processor of two registers and two cells of memory, with the widths   *)
(* scaled down: a 64-bit register holds three bits here, its 32-bit part   *)
(* two and its lowest byte one.  What the scaling keeps is what a peephole *)
(* can get wrong: a write of 32 bits clears the upper part and a write of  *)
(* a byte does not, sums wrap, and every flag has its own rule.            *)
(***************************************************************************)
EXTENDS Integers, Sequences

Q == 3   \* the widths, in bits
L == 2
B == 1
Values == 0 .. 7

\* Operands: a register with the width it is named with, the memory at a base
\* register ("sp" always points to cell 0), an immediate, or none.
Reg(r, w) == [kind |-> "reg", reg |-> r, w |-> w, n |-> 0]
Mem(base) == [kind |-> "mem", reg |-> base, w |-> 0, n |-> 0]
Imm(i) == [kind |-> "imm", reg |-> "", w |-> 0, n |-> i]
None == [kind |-> "none", reg |-> "", w |-> 0, n |-> 0]

\* Operands in the order of AT&T syntax: the destination is the last.
Ins(op, src, dst) == [op |-> op, src |-> src, dst |-> dst]
WidthOf(i) == IF i.dst.kind = "reg" THEN i.dst.w ELSE i.src.w

Cell(s, o) == IF o.reg = "sp" THEN 0 ELSE s.regs[o.reg] % 2
Read(s, o, w) ==
  CASE o.kind = "reg" -> s.regs[o.reg] % 2^w
    [] o.kind = "mem" -> s.mem[Cell(s, o)] % 2^w
    [] OTHER -> o.n % 2^w
Low(old, w, v) == (old \div 2^w) * 2^w + v
Write(s, o, w, v) ==
  CASE o.kind = "mem" -> [s EXCEPT !.mem[Cell(s, o)] = Low(@, w, v)]
    [] o.kind = "reg" /\ w = L -> [s EXCEPT !.regs[o.reg] = v]
    [] OTHER -> [s EXCEPT !.regs[o.reg] = Low(@, w, v)]

Signed(v, w) == IF v >= 2^(w - 1) THEN v - 2^w ELSE v
SignAndZero(s, w, v) == [s EXCEPT !.zf = (v = 0), !.sf = (v >= 2^(w - 1))]
Logical(s, w, v) == [SignAndZero(s, w, v) EXCEPT !.cf = 0, !.of = FALSE]

\* x plus or minus y and carry: the result with all flags, or all but carry.
Arithmetic(s, i, minus, y, carry) ==
  LET w == WidthOf(i)
      x == Read(s, i.dst, w)
      total == IF minus THEN x - y - carry ELSE x + y + carry
      exact == IF minus THEN Signed(x, w) - Signed(y, w) - carry
               ELSE Signed(x, w) + Signed(y, w) + carry
      v == total % 2^w
  IN  [Write(SignAndZero(s, w, v), i.dst, w, v) EXCEPT
         !.cf = IF i.op \in {"inc", "dec"} THEN @
                ELSE IF total \in 0 .. 2^w - 1 THEN 0 ELSE 1,
         !.of = exact \notin -(2^(w - 1)) .. 2^(w - 1) - 1]

Both(x, y) == (IF x % 2 = 1 /\ y % 2 = 1 THEN 1 ELSE 0)
              + 2 * (IF (x \div 2) % 2 = 1 /\ (y \div 2) % 2 = 1 THEN 1 ELSE 0)
              + 4 * (IF (x \div 4) % 2 = 1 /\ (y \div 4) % 2 = 1 THEN 1 ELSE 0)

\* One instruction.  A call leaves something in the registers that it may
\* change, in memory and in the flags.
Execute(s, i) ==
  LET w == WidthOf(i)
      x == Read(s, i.src, w)
      y == Read(s, i.dst, w)
  IN  CASE i.op \in {"nop", "align"} -> s
        [] i.op = "mov" -> Write(s, i.dst, w, x)
        [] i.op = "xchg" -> Write(Write(s, i.dst, w, x), i.src, w, y)
        [] i.op = "add" -> Arithmetic(s, i, FALSE, x, 0)
        [] i.op = "adc" -> Arithmetic(s, i, FALSE, x, s.cf)
        [] i.op = "sub" -> Arithmetic(s, i, TRUE, x, 0)
        [] i.op = "sbb" -> Arithmetic(s, i, TRUE, x, s.cf)
        [] i.op = "inc" -> Arithmetic(s, i, FALSE, 1, 0)
        [] i.op = "dec" -> Arithmetic(s, i, TRUE, 1, 0)
        [] i.op = "test" -> Logical(s, w, Both(x, y))
        [] i.op = "and" -> LET v == Both(x, y) IN Write(Logical(s, w, v), i.dst, w, v)
        [] i.op = "xor" -> LET v == x + y - 2 * Both(x, y)
                           IN  Write(Logical(s, w, v), i.dst, w, v)
        [] i.op = "cmove" -> Write(s, i.dst, w, IF s.zf THEN x ELSE y)
        [] i.op = "cmovl" -> Write(s, i.dst, w, IF s.sf # s.of THEN x ELSE y)
        [] i.op = "bswap" -> Write(s, i.dst, w, (y % 2) * 2 + y \div 2)
        [] i.op = "call" -> [s EXCEPT !.regs["a"] = (@ + s.mem[0] + 5) % 8,
                                      !.mem[0] = (@ + 3) % 8,
                                      !.zf = FALSE, !.sf = TRUE, !.cf = 0, !.of = TRUE]

Run(code, s) ==
  LET after[k \in 0 .. Len(code)] == IF k = 0 THEN s ELSE Execute(after[k - 1], code[k])
  IN  after[Len(code)]

\* What the assembler refuses: a move between registers of different widths,
\* and an immediate that does not fit its field, which in an instruction of 64
\* bits is one of 32 that is sign extended.
Assembles(i) ==
  /\ i.op = "mov" /\ i.src.kind = "reg" /\ i.dst.kind = "reg" => i.src.w = i.dst.w
  /\ i.src.kind = "imm" =>
       i.src.n \in (CASE WidthOf(i) = Q -> -2 .. 1
                      [] WidthOf(i) = L -> -2 .. 3
                      [] OTHER -> -1 .. 1)
=============================================================================
