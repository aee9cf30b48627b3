------------------------------ MODULE MCPasses ------------------------------
(***************************************************************************)
(* Every list of up to three passes, over files of two functions.          *)
(***************************************************************************)
EXTENDS Passes

MCLists == UNION {[1 .. n -> DOMAIN Script] : n \in 1 .. 3}

MCRescheduled == {<<"SCHED", "ADD2INC", "SCHED">>}

MCTexts ==
  { << <<"label", "add", "add", "jcc", "add", "load", "ext", "nop", "size">>,
       <<"label", "add", "jcc", "size">> >>,
    << <<"label", "load", "label", "nop", "add", "jcc", "load", "add", "size">>,
       <<"label", "nop", "align", "label", "jcc", "size">> >> }
=============================================================================
