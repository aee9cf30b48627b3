---------------------------- MODULE MCCFGBuilder ----------------------------
(***************************************************************************)
(* The builder on every short function over two labels, and on prologues   *)
(* of functions with a variable number of arguments.                       *)
(***************************************************************************)
EXTENDS CFGBuilder

Of(kind, name, to) == [kind |-> kind, name |-> name, to |-> to]
Plain(kind) == Of(kind, 0, {})
Label(l) == Of("label", l, {})
Jump(kind, to) == Of(kind, 0, to)

I == Plain("insn")
Labels == {Label(1), Label(2)}

\* Label 3 is never in the text.
Short == Labels \cup {I, Plain("ret"), Plain("data"), Plain("ijmp"),
                      Jump("jcc", {1}), Jump("jmp", {2}),
                      Jump("jmp", {3}), Jump("table", {1, 2})}

Middle == Labels \cup {I, Jump("jcc", {1}), Jump("table", {1, 2})}

OneOfEach(t) ==
  \A p, q \in DOMAIN t : t[p] \in Labels /\ t[p] = t[q] => p = q

Over(insns, n) == {t \in [1 .. n -> insns] : OneOfEach(t)}

\* What compilers end a function with.
Ended == {t \o <<Label(2), Plain("size")>> : t \in Over(Short \ {Label(2)}, 3)}

Stores(n) == [i \in 1 .. n |-> Plain("movaps")]

\* A prologue: the jump, perhaps a label, the stores, perhaps a label.
VaargText(l1, n, l2, rest) ==
  <<Plain("ijmp")>> \o l1 \o Stores(n) \o l2 \o rest
Prologues ==
  {VaargText(l1, n, l2, rest) :
     l1 \in {<<>>, <<Label(1)>>}, n \in 0 .. 3,
     l2 \in {<<>>, <<Label(2)>>, <<Plain("other")>>},
     rest \in {<<I, Jump("jcc", {2}), Plain("ret")>>, <<Jump("jmp", {2})>>}}

MCTexts ==
  Over(Short, 4) \cup Over(Middle, 5) \cup Ended \cup Prologues

=============================================================================
