------------------------------ MODULE MCLoops ------------------------------
(***************************************************************************)
(* The loop finder on every graph of four blocks behind the source with at *)
(* most two ways out of a block, and on some larger ones.                  *)
(***************************************************************************)
EXTENDS Loops

\* At most a jump and a fall through.
Ways == {s \in SUBSET (2 .. 5) : Cardinality(s) <= 2}

Small ==
  {[size |-> 5, edges |-> {<<1, 2>>} \cup {<<b, c>> \in (2 .. 5) \X (2 .. 5) : c \in f[b]}]
     : f \in [2 .. 5 -> Ways]}

\* A loop in a loop in a loop with a bypass; two loops side by side in a loop;
\* a loop that is entered at two places around a loop, and in one.
Large ==
  {[size |-> 7, edges |-> {<<1, 2>>, <<2, 3>>, <<3, 4>>, <<4, 5>>, <<5, 4>>, <<5, 6>>,
                           <<6, 3>>, <<6, 7>>, <<7, 2>>, <<2, 7>>}],
   [size |-> 7, edges |-> {<<1, 2>>, <<2, 3>>, <<3, 4>>, <<4, 3>>, <<4, 5>>, <<5, 6>>,
                           <<6, 5>>, <<6, 7>>, <<7, 2>>}],
   [size |-> 7, edges |-> {<<1, 2>>, <<2, 3>>, <<2, 5>>, <<3, 4>>, <<4, 3>>, <<4, 5>>,
                           <<5, 6>>, <<6, 3>>, <<6, 7>>}],
   [size |-> 7, edges |-> {<<1, 2>>, <<2, 3>>, <<3, 4>>, <<3, 5>>, <<4, 5>>, <<5, 4>>,
                           <<5, 6>>, <<6, 2>>, <<4, 7>>, <<7, 3>>}]}

MCGraphs == Small \cup Large
=============================================================================
