---------------------------- MODULE MCScheduler ----------------------------
(***************************************************************************)
(* The scheduler on every block of up to four instructions of a small      *)
(* repertoire: a register, the flags, the stack pointer, and each kind of  *)
(* instruction that the scheduler tells apart.                             *)
(***************************************************************************)
EXTENDS Scheduler

CONSTANTS r, flags, rsp

MCRegs == {r, flags, rsp}

Plain == [use |-> {}, def |-> {}, mem |-> FALSE, ctrl |-> FALSE, pred |-> FALSE]

Mov == [Plain EXCEPT !.def = {r}]
Add == [Plain EXCEPT !.use = {r}, !.def = {r, flags}]
Cmp == [Plain EXCEPT !.use = {r}, !.def = {flags}]
Cmov == [Plain EXCEPT !.use = {flags}, !.def = {r}, !.pred = TRUE]
CmovLoad == [Cmov EXCEPT !.mem = TRUE]
Load == [Plain EXCEPT !.def = {r}, !.mem = TRUE]
Store == [Plain EXCEPT !.use = {r}, !.mem = TRUE]
Push == [Plain EXCEPT !.use = {r, rsp}, !.def = {rsp}, !.mem = TRUE]
SubRsp == [Plain EXCEPT !.use = {rsp}, !.def = {rsp, flags}]
Leave == [Plain EXCEPT !.def = {r, rsp}, !.mem = TRUE, !.ctrl = TRUE]
Jcc == [Plain EXCEPT !.use = {flags}, !.ctrl = TRUE]
Ret == [Plain EXCEPT !.use = {rsp}, !.def = {rsp}, !.mem = TRUE, !.ctrl = TRUE]

\* A jump or a return ends its block.
Inner == {Mov, Add, Cmp, Cmov, CmovLoad, Load, Store, Push, SubRsp, Leave}
Texts(n) == {[i \in 1 .. n |-> IF i = n THEN l ELSE s[i]] :
               s \in [1 .. n - 1 -> Inner], l \in Inner \cup {Jcc, Ret}}

Block(nodes, atEnd, loop, budget) ==
  [nodes |-> nodes, atEnd |-> atEnd, loop |-> loop, budget |-> budget]

\* The loops end in a jump; a budget of two steps stops in the middle.
MCBlocks ==
  {Block(t, FALSE, FALSE, 1000) : t \in Texts(4)}
    \cup {Block(t, FALSE, FALSE, 2) : t \in Texts(3)}
    \cup {Block(t, FALSE, TRUE, 1000) : t \in {u \in Texts(4) : u[4] = Jcc}}

\* The last instruction of its section is a return.
MCEndBlocks == {Block(t, TRUE, FALSE, 1000) : t \in {u \in Texts(4) : u[4] = Ret}}
=============================================================================
