-------------------------- MODULE CFGBuilderProofs --------------------------
(***************************************************************************)
(* The blocks that CFGBuilder::Go makes are ranges of the text that lie    *)
(* apart and leave nothing out, and its two maps from labels agree, for    *)
(* every function, however often a block is broken up behind the walk and  *)
(* however many graphs the function had before.                            *)
(***************************************************************************)
EXTENDS CFGBuilder, FiniteSetTheorems, SequenceTheorems, TLAPS

\* The ends of a block and the label it has.
F(b) == blocks[b].first
L(b) == blocks[b].last
N(b) == blocks[b].label

Kinds == Directives \cup Jumps \cup {"insn", "movaps", "call", "ret", "label"}
EntriesBelow(n) == [kind : Kinds, name : 0 .. n - 1, to : SUBSET (1 .. FirstFresh - 1)]
Named(p, l) == IsLabel(text[p]) /\ text[p].name = l
OneLabelEach ==
  \A p, q \in DOMAIN text :
    IsLabel(text[p]) /\ IsLabel(text[q]) /\ text[p].name = text[q].name => p = q

TextInv ==
  /\ nextName \in Nat /\ FirstFresh <= nextName
  /\ text \in Seq(EntriesBelow(nextName))
  /\ OneLabelEach

Phases == {"walk", "targets", "pattern", "link", "finish", "done"}
BlockRecords == [label : Nat, first : Nat, last : Nat, chained : BOOLEAN, data : BOOLEAN]

\* The entry at pos is in its block, and its targets are not all linked.
InTurn == phase \in {"targets", "pattern", "link"}

\* How far the walk has come.
Reached == IF InTurn THEN pos ELSE pos - 1

StateTypes ==
  /\ phase \in Phases
  /\ pos \in 1 .. Len(text) + 1
  /\ InTurn \/ phase = "finish" => pos \in DOMAIN text
  /\ blocks \in Seq(BlockRecords)
  /\ current \in {NONE} \cup Block

\* The names that the walk has to do with were given before.
NamesInv ==
  /\ \A l \in DOMAIN named : l \in Nat /\ l < nextName /\ named[l] \in Block
  /\ \A l \in DOMAIN labelToBB : labelToBB[l] \in Block
  /\ targets \in Seq(0 .. nextName - 1)

\* What GetTargets still has to label is ahead of the walk.
PatternInv == phase = "pattern" => pattern \subseteq pos + 1 .. Len(text)

\* A block is empty or a range of what the walk has come to.
Ranges ==
  \A b \in Block : \/ F(b) = 0 /\ L(b) = 0
                   \/ 1 <= F(b) /\ F(b) <= L(b) /\ L(b) <= Reached

Apart ==
  \A b, c \in Block :
    b # c /\ F(b) # 0 /\ F(c) # 0 => L(b) < F(c) \/ L(c) < F(b)

\* Nothing but directives is left out.
Covered == \A p \in 1 .. Reached : BelongsInBasicBlock(text[p]) => \E b \in Block : p \in In(b)

\* The block that is being filled is behind all others.
CurrentInv ==
  /\ InTurn => current # NONE /\ L(current) = pos
  /\ current # NONE =>
       F(current) # 0 /\ \A c \in Block : c # current => L(c) < F(current)

\* A block begins with the label it is named for, or that label is nowhere.
NamedInv ==
  \A l \in DOMAIN named :
    /\ N(named[l]) = l
    /\ F(named[l]) # 0 =>
         IF IsLabel(text[F(named[l])]) THEN text[F(named[l])].name = l
         ELSE \A p \in DOMAIN text : ~Named(p, l)

\* And a block that begins with a label is named for it.
HeadInv ==
  \A b \in Block :
    F(b) # 0 /\ IsLabel(text[F(b)]) =>
      text[F(b)].name \in DOMAIN named /\ named[text[F(b)].name] = b

\* A label that was put into a block is known to be there.
LabelInv ==
  \A l \in DOMAIN labelToBB :
    /\ \E p \in DOMAIN text : p \in In(labelToBB[l]) /\ Named(p, l)
    /\ l \in DOMAIN named => named[l] = labelToBB[l]

\* And the labels that the walk has passed are all known.
KnownInv == \A p \in 1 .. Reached : IsLabel(text[p]) => text[p].name \in DOMAIN labelToBB

RespectInv ==
  respect => \A b \in Block : \A p \in In(b) \cap DOMAIN text : IsLabel(text[p]) => p = F(b)

Geometry == Ranges /\ Apart /\ Covered /\ CurrentInv
MapsInv == NamedInv /\ HeadInv /\ LabelInv /\ RespectInv
IInv == TextInv /\ StateTypes /\ NamesInv /\ PatternInv /\ Geometry /\ MapsInv /\ KnownInv

-----------------------------------------------------------------------------
(* What the invariant says in short.                                       *)

LEMMA Facts ==
  ASSUME IInv
  PROVE  /\ Len(text) \in Nat /\ DOMAIN text = 1 .. Len(text)
         /\ Len(blocks) \in Nat /\ Block = 1 .. Len(blocks)
         /\ pos \in Nat /\ 1 <= pos /\ pos <= Len(text) + 1
         /\ Reached \in Nat /\ Reached <= Len(text) /\ Reached <= pos
         /\ current \in Nat /\ (current # NONE => current \in Block)
         /\ nextName \in Nat
         /\ \A b \in Block : /\ F(b) \in Nat /\ L(b) \in Nat /\ N(b) \in Nat
                             /\ In(b) = F(b) .. L(b)
PROOF
<1>1. Len(text) \in Nat /\ DOMAIN text = 1 .. Len(text) /\ nextName \in Nat
  BY DEF IInv, TextInv
<1>2. Len(blocks) \in Nat /\ Block = 1 .. Len(blocks) /\ blocks \in Seq(BlockRecords)
  BY DEF IInv, StateTypes, Block
<1>3. \A b \in Block : F(b) \in Nat /\ L(b) \in Nat /\ N(b) \in Nat
  <2> SUFFICES ASSUME NEW b \in Block PROVE F(b) \in Nat /\ L(b) \in Nat /\ N(b) \in Nat
    OBVIOUS
  <2>1. blocks[b] \in BlockRecords
    BY <1>2
  <2> QED
    BY <2>1 DEF BlockRecords, F, L, N
<1>4. \A b \in Block : In(b) = F(b) .. L(b)
  BY DEF In, F, L
<1>5. pos \in Nat /\ 1 <= pos /\ pos <= Len(text) + 1
      /\ (InTurn => pos \in DOMAIN text)
  BY <1>1 DEF IInv, StateTypes
<1>6. Reached \in Nat /\ Reached <= Len(text) /\ Reached <= pos
  BY <1>1, <1>5 DEF Reached
<1>7. current \in Nat /\ (current # NONE => current \in Block)
  BY <1>2 DEF IInv, StateTypes, NONE
<1> QED
  BY <1>1, <1>2, <1>3, <1>4, <1>5, <1>6, <1>7

\* The text at a place.
LEMMA EntryFacts ==
  ASSUME IInv, NEW p \in DOMAIN text
  PROVE  /\ text[p].name \in Nat /\ text[p].name < nextName
         /\ text[p].to \subseteq 1 .. FirstFresh - 1
         /\ p \in Nat /\ p > 0
PROOF
<1>1. text[p] \in EntriesBelow(nextName) /\ nextName \in Nat /\ p \in Nat /\ p > 0
  BY DEF IInv, TextInv
<1> QED
  BY <1>1 DEF EntriesBelow

\* A label has one place.
LEMMA PlaceLemma ==
  ASSUME IInv, NEW p \in DOMAIN text, NEW q \in DOMAIN text, NEW l,
         Named(p, l), Named(q, l)
  PROVE  p = q
PROOF
  BY DEF IInv, TextInv, OneLabelEach, Named

-----------------------------------------------------------------------------
(* Steps that leave the blocks as they are.                                *)

SameBlocks ==
  /\ Block' = Block /\ (blocks \in Seq(BlockRecords))'
  /\ \A b \in Block : F(b)' = F(b) /\ L(b)' = L(b) /\ N(b)' = N(b)
SameMaps == named' = named /\ labelToBB' = labelToBB /\ respect' = respect

\* The text is the same as far as the walk has come, and the names that the
\* graph has for blocks are at no new places.
SameBehind ==
  /\ 0 \notin DOMAIN text'
  /\ \A p \in 1 .. Reached : p \in DOMAIN text' /\ text'[p] = text[p]
  /\ \A p \in DOMAIN text', l \in DOMAIN named :
       Named(p, l)' => \E q \in DOMAIN text : Named(q, l)

\* Blocks are where they were, and nothing that belongs to one was passed.
LEMMA StillGeometry ==
  ASSUME IInv, SameBlocks, Reached' \in Nat, Reached <= Reached',
         \A p \in 1 .. Reached' : BelongsInBasicBlock(text[p])' =>
           p <= Reached /\ BelongsInBasicBlock(text[p]),
         current' = current \/ current' = NONE,
         InTurn' => InTurn /\ current' = current /\ pos' = pos
  PROVE  Geometry'
PROOF
<1>1. /\ Block' = Block
      /\ \A b \in Block : F(b)' = F(b) /\ L(b)' = L(b) /\ In(b)' = In(b)
  BY DEF SameBlocks, In, F, L
<1>2. /\ Reached \in Nat /\ current \in Nat /\ (current # NONE => current \in Block)
      /\ \A b \in Block : F(b) \in Nat /\ L(b) \in Nat
  BY Facts
<1>3. Ranges'
  <2>1. \A b \in Block : \/ F(b) = 0 /\ L(b) = 0
                         \/ 1 <= F(b) /\ F(b) <= L(b) /\ L(b) <= Reached
    BY DEF IInv, Geometry, Ranges
  <2> QED
    BY <1>1, <1>2, <2>1 DEF Ranges
<1>4. Apart'
  BY <1>1 DEF IInv, Geometry, Apart
<1>5. Covered'
  BY <1>1, <1>2 DEF IInv, Geometry, Covered
<1>6. CurrentInv'
  <2>1. CurrentInv
    BY DEF IInv, Geometry
  <2>2. current' # NONE => current' = current /\ F(current)' = F(current) /\ L(current)' = L(current)
    BY <1>1, <1>2 DEF F, L
  <2>3. ASSUME current' # NONE
        PROVE  F(current)' # 0 /\ \A c \in Block' : c # current' => L(c)' < F(current)'
    BY <2>1, <2>2, <2>3, <1>1 DEF CurrentInv
  <2>4. InTurn' => current' # NONE /\ L(current)' = pos'
    BY <2>1, <2>2 DEF CurrentInv
  <2> QED
    BY <2>3, <2>4 DEF CurrentInv
<1> QED
  BY <1>3, <1>4, <1>5, <1>6 DEF Geometry

\* And the labels are where they were.
LEMMA StillMaps ==
  ASSUME IInv, SameBlocks, SameMaps, SameBehind
  PROVE  MapsInv'
PROOF
<1>1. /\ Block' = Block /\ named' = named /\ labelToBB' = labelToBB /\ respect' = respect
      /\ \A b \in Block : F(b)' = F(b) /\ L(b)' = L(b) /\ N(b)' = N(b) /\ In(b)' = In(b)
  BY DEF SameBlocks, SameMaps, In, F, L
<1>2. /\ \A b \in Block : F(b) \in Nat /\ L(b) \in Nat /\ In(b) = F(b) .. L(b)
      /\ Reached \in Nat /\ DOMAIN text = 1 .. Len(text) /\ Len(text) \in Nat
      /\ Reached <= Len(text)
  BY Facts
<1>3. \A b \in Block : \A p \in In(b) : p # 0 => p \in 1 .. Reached /\ F(b) \in 1 .. Reached
  BY <1>2 DEF IInv, Geometry, Ranges
<1>4. \A b \in Block : F(b) # 0 => F(b) \in 1 .. Reached
  BY <1>2 DEF IInv, Geometry, Ranges
<1>5. \A p \in 1 .. Reached : p \in DOMAIN text /\ p \in DOMAIN text' /\ text'[p] = text[p]
  BY <1>2 DEF SameBehind
<1>6. /\ \A l \in DOMAIN named : named[l] \in Block
      /\ \A l \in DOMAIN labelToBB : labelToBB[l] \in Block
  BY DEF IInv, NamesInv
<1>7. NamedInv'
  <2> SUFFICES ASSUME NEW l \in DOMAIN named
               PROVE  /\ N(named[l])' = l
                      /\ F(named[l])' # 0 =>
                           IF IsLabel(text[F(named[l])])' THEN text'[F(named[l])'].name = l
                           ELSE \A p \in DOMAIN text' : ~Named(p, l)'
    BY <1>1 DEF NamedInv
  <2> DEFINE b == named[l]
  <2>1. /\ N(b) = l
        /\ F(b) # 0 => IF IsLabel(text[F(b)]) THEN text[F(b)].name = l
                       ELSE \A p \in DOMAIN text : ~Named(p, l)
    BY DEF IInv, MapsInv, NamedInv
  <2>2. N(named[l])' = N(b) /\ F(named[l])' = F(b) /\ b \in Block
    BY <1>1, <1>6 DEF N, F
  <2>3. CASE F(b) # 0
    <3>1. text'[F(b)] = text[F(b)]
      BY <1>4, <1>5, <2>2, <2>3
    <3>2. (\A p \in DOMAIN text : ~Named(p, l)) => \A p \in DOMAIN text' : ~Named(p, l)'
      BY DEF SameBehind
    <3>3. IsLabel(text[F(named[l])])' <=> IsLabel(text[F(b)])
      BY <2>2, <3>1 DEF IsLabel
    <3> QED
      BY <2>1, <2>2, <2>3, <3>1, <3>2, <3>3
  <2>4. CASE F(b) = 0
    BY <2>1, <2>2, <2>4
  <2> QED
    BY <2>3, <2>4
<1>8. HeadInv'
  <2> SUFFICES ASSUME NEW b \in Block, F(b) # 0, IsLabel(text'[F(b)])
               PROVE  text'[F(b)].name \in DOMAIN named /\ named[text'[F(b)].name] = b
    BY <1>1 DEF HeadInv, IsLabel
  <2>1. text'[F(b)] = text[F(b)]
    BY <1>4, <1>5
  <2> QED
    BY <2>1 DEF IInv, MapsInv, HeadInv
<1>9. LabelInv'
  <2> SUFFICES ASSUME NEW l \in DOMAIN labelToBB
               PROVE  /\ \E p \in DOMAIN text' : p \in In(labelToBB[l]) /\ Named(p, l)'
                      /\ l \in DOMAIN named => named[l] = labelToBB[l]
    BY <1>1, <1>6 DEF LabelInv, In
  <2>1. /\ \E p \in DOMAIN text : p \in In(labelToBB[l]) /\ Named(p, l)
        /\ l \in DOMAIN named => named[l] = labelToBB[l]
    BY DEF IInv, MapsInv, LabelInv
  <2>2. PICK p \in DOMAIN text : p \in In(labelToBB[l]) /\ Named(p, l)
    BY <2>1
  <2>3. p \in DOMAIN text' /\ text'[p] = text[p]
    BY <1>2, <1>3, <1>5, <1>6, <2>2
  <2> QED
    BY <2>1, <2>2, <2>3 DEF Named, IsLabel
<1>10. RespectInv'
  <2> SUFFICES ASSUME respect, NEW b \in Block, NEW p \in In(b), p \in DOMAIN text',
                      IsLabel(text'[p])
               PROVE  p = F(b)
    BY <1>1 DEF RespectInv, IsLabel
  <2>1. p # 0
    BY DEF SameBehind
  <2>2. p \in DOMAIN text /\ text'[p] = text[p]
    BY <1>3, <1>5, <2>1
  <2> QED
    BY <2>2 DEF IInv, MapsInv, RespectInv
<1> QED
  BY <1>7, <1>8, <1>9, <1>10 DEF MapsInv

\* A block in the place of another.
LEMMA PutBlock ==
  ASSUME NEW R, NEW bs \in Seq(R), NEW b \in 1 .. Len(bs), NEW r \in R
  PROVE  /\ [bs EXCEPT ![b] = r] \in Seq(R)
         /\ Len([bs EXCEPT ![b] = r]) = Len(bs)
         /\ DOMAIN [bs EXCEPT ![b] = r] = 1 .. Len(bs)
         /\ \A c \in 1 .. Len(bs) : [bs EXCEPT ![b] = r][c] = IF c = b THEN r ELSE bs[c]
PROOF
  OBVIOUS

\* The block at b has the mark.
DataAt(bs, b) == [bs EXCEPT ![b] = [bs[b] EXCEPT !.data = TRUE]]
ChainedAt(bs, b) == [bs EXCEPT ![b] = [bs[b] EXCEPT !.chained = TRUE]]

\* Marking a block moves nothing.
LEMMA MarkedBlocks ==
  ASSUME NEW bs \in Seq(BlockRecords), NEW b \in 1 .. Len(bs), NEW cs,
         cs = DataAt(bs, b) \/ cs = ChainedAt(bs, b)
  PROVE  /\ cs \in Seq(BlockRecords) /\ Len(cs) = Len(bs) /\ DOMAIN cs = 1 .. Len(bs)
         /\ \A c \in 1 .. Len(bs) : /\ cs[c].first = bs[c].first /\ cs[c].last = bs[c].last
                                    /\ cs[c].label = bs[c].label
PROOF
<1> DEFINE r == [bs[b] EXCEPT !.data = TRUE]
           s == [bs[b] EXCEPT !.chained = TRUE]
<1>1. bs[b] \in BlockRecords
  OBVIOUS
<1>2. /\ r \in BlockRecords /\ r.first = bs[b].first /\ r.last = bs[b].last
      /\ r.label = bs[b].label
  BY <1>1 DEF BlockRecords
<1>3. /\ s \in BlockRecords /\ s.first = bs[b].first /\ s.last = bs[b].last
      /\ s.label = bs[b].label
  BY <1>1 DEF BlockRecords
<1>4. cs = [bs EXCEPT ![b] = r] \/ cs = [bs EXCEPT ![b] = s]
  BY DEF DataAt, ChainedAt
<1> HIDE DEF r, s
<1>5. PICK t \in BlockRecords : /\ cs = [bs EXCEPT ![b] = t] /\ t.first = bs[b].first
                                /\ t.last = bs[b].last /\ t.label = bs[b].label
  BY <1>2, <1>3, <1>4
<1>6. /\ cs \in Seq(BlockRecords) /\ Len(cs) = Len(bs) /\ DOMAIN cs = 1 .. Len(bs)
      /\ \A c \in 1 .. Len(bs) : cs[c] = IF c = b THEN t ELSE bs[c]
  BY <1>5, PutBlock
<1> QED
  BY <1>5, <1>6

\* The invariant after a step that changes neither the text nor the blocks.
LEMMA StillStep ==
  ASSUME IInv, SameBlocks, SameMaps, text' = text, nextName' = nextName,
         phase' \in Phases, pos' \in 1 .. Len(text) + 1,
         InTurn' \/ phase' = "finish" => pos' \in DOMAIN text,
         current' = current \/ current' = NONE,
         targets' \in Seq(0 .. nextName - 1),
         phase' = "pattern" => pattern' \subseteq pos' + 1 .. Len(text),
         Reached' \in Nat, Reached <= Reached',
         \A p \in 1 .. Reached' : BelongsInBasicBlock(text[p]) => p <= Reached,
         InTurn' => InTurn /\ current' = current /\ pos' = pos
  PROVE  IInv'
PROOF
<1>1. /\ Len(text) \in Nat /\ DOMAIN text = 1 .. Len(text)
      /\ Reached \in Nat /\ Reached <= Len(text)
  BY Facts
<1>2. Geometry'
  BY StillGeometry
<1>3. SameBehind
  BY <1>1 DEF SameBehind, Named
<1>4. MapsInv'
  BY <1>3, StillMaps
<1>5. TextInv'
  BY DEF IInv, TextInv, OneLabelEach
<1>6. StateTypes'
  BY DEF IInv, StateTypes, SameBlocks
<1>7. NamesInv'
  BY DEF IInv, NamesInv, SameBlocks, SameMaps
<1>8. PatternInv'
  BY DEF PatternInv
<1>9. KnownInv'
  <2> SUFFICES ASSUME NEW p \in 1 .. Reached', IsLabel(text[p])
               PROVE  text[p].name \in DOMAIN labelToBB
    BY DEF KnownInv, SameMaps
  <2>1. BelongsInBasicBlock(text[p])
    BY DEF BelongsInBasicBlock, IsLabel, Directives
  <2>2. p \in 1 .. Reached
    BY <1>1, <2>1
  <2> QED
    BY <2>2 DEF IInv, KnownInv
<1> QED
  BY <1>2, <1>4, <1>5, <1>6, <1>7, <1>8, <1>9 DEF IInv

LEMMA SkipDirectiveStep ==
  ASSUME IInv, SkipDirective
  PROVE  IInv'
PROOF
<1>1. /\ phase = "walk" /\ pos \in DOMAIN text /\ ~BelongsInBasicBlock(text[pos])
      /\ pos' = pos + 1 /\ phase' = phase /\ text' = text /\ nextName' = nextName
      /\ current' = current /\ targets' = targets /\ SameMaps
      /\ \/ blocks' = blocks
         \/ current # NONE /\ blocks' = DataAt(blocks, current)
  BY DEF SkipDirective, Walking, Entry, SameMaps, walkVars, linkVars, DataAt
<1>2. /\ Len(text) \in Nat /\ DOMAIN text = 1 .. Len(text) /\ pos \in Nat
      /\ Block = 1 .. Len(blocks) /\ (current # NONE => current \in Block)
  BY Facts
<1>3. blocks \in Seq(BlockRecords) /\ targets \in Seq(0 .. nextName - 1)
  BY DEF IInv, StateTypes, NamesInv
<1>4. SameBlocks
  <2>1. CASE blocks' = blocks
    BY <1>3, <2>1 DEF SameBlocks, Block, F, L, N
  <2>2. CASE current # NONE /\ blocks' = DataAt(blocks, current)
    <3>1. /\ blocks' \in Seq(BlockRecords) /\ DOMAIN blocks' = 1 .. Len(blocks)
          /\ \A c \in 1 .. Len(blocks) :
               /\ blocks'[c].first = blocks[c].first /\ blocks'[c].last = blocks[c].last
               /\ blocks'[c].label = blocks[c].label
      BY <1>2, <1>3, <2>2, MarkedBlocks
    <3> QED
      BY <1>2, <3>1 DEF SameBlocks, Block, F, L, N
  <2> QED
    BY <1>1, <2>1, <2>2
<1>5. ~InTurn /\ ~InTurn' /\ Reached = pos - 1 /\ Reached' = pos
  BY <1>1, <1>2 DEF InTurn, Reached
<1>6. \A p \in 1 .. Reached' : BelongsInBasicBlock(text[p]) => p <= Reached
  BY <1>1, <1>2, <1>5
<1>7. pos' \in 1 .. Len(text) + 1 /\ phase' \in Phases /\ Reached' \in Nat /\ Reached <= Reached'
  BY <1>1, <1>2, <1>5 DEF Phases
<1> QED
  BY <1>1, <1>3, <1>4, <1>5, <1>6, <1>7, StillStep

\* The end of the walk and what comes after it.
LEMMA StopAtSizeStep ==
  ASSUME IInv, StopAtSize
  PROVE  IInv'
PROOF
<1>1. /\ phase = "walk" /\ pos \in DOMAIN text
      /\ pos' = pos /\ phase' = "finish" /\ text' = text /\ nextName' = nextName
      /\ current' = NONE /\ targets' = targets /\ SameMaps /\ blocks' = blocks
  BY DEF StopAtSize, Walking, SameMaps, linkVars, graphVars
<1>2. Len(text) \in Nat /\ DOMAIN text = 1 .. Len(text) /\ pos \in Nat
  BY Facts
<1>3. blocks \in Seq(BlockRecords) /\ targets \in Seq(0 .. nextName - 1)
  BY DEF IInv, StateTypes, NamesInv
<1>4. SameBlocks
  BY <1>1, <1>3 DEF SameBlocks, Block, F, L, N
<1>5. ~InTurn' /\ Reached' = Reached /\ Reached = pos - 1
  BY <1>1 DEF InTurn, Reached
<1>6. pos' \in 1 .. Len(text) + 1 /\ phase' \in Phases /\ Reached' \in Nat /\ Reached <= Reached'
      /\ \A p \in 1 .. Reached' : BelongsInBasicBlock(text[p]) => p <= Reached
  BY <1>1, <1>2, <1>5 DEF Phases
<1> QED
  BY <1>1, <1>3, <1>4, <1>5, <1>6, StillStep

LEMMA FinishStep ==
  ASSUME IInv, Finish
  PROVE  IInv'
PROOF
<1>1. /\ phase = "finish" \/ phase = "walk"
      /\ pos' = pos /\ phase' = "done" /\ text' = text /\ nextName' = nextName
      /\ current' = current /\ targets' = targets /\ SameMaps /\ blocks' = blocks
  BY DEF Finish, SameMaps, linkVars, walkVars
<1>2. Len(text) \in Nat /\ DOMAIN text = 1 .. Len(text) /\ pos \in 1 .. Len(text) + 1
      /\ Reached \in Nat
  BY Facts
<1>3. blocks \in Seq(BlockRecords) /\ targets \in Seq(0 .. nextName - 1)
  BY DEF IInv, StateTypes, NamesInv
<1>4. SameBlocks
  BY <1>1, <1>3 DEF SameBlocks, Block, F, L, N
<1>5. ~InTurn' /\ Reached' = Reached
  BY <1>1 DEF InTurn, Reached
<1>6. pos' \in 1 .. Len(text) + 1 /\ phase' \in Phases /\ Reached' \in Nat /\ Reached <= Reached'
      /\ \A p \in 1 .. Reached' : BelongsInBasicBlock(text[p]) => p <= Reached
  BY <1>1, <1>2, <1>5 DEF Phases
<1> QED
  BY <1>1, <1>3, <1>4, <1>5, <1>6, StillStep

LEMMA EndBlockStep ==
  ASSUME IInv, EndBlock
  PROVE  IInv'
PROOF
<1>1. /\ phase = "link"
      /\ pos' = pos + 1 /\ phase' = "walk" /\ text' = text /\ nextName' = nextName
      /\ current' = NONE /\ targets' = targets /\ SameMaps /\ blocks' = blocks
  BY DEF EndBlock, SameMaps, linkVars
<1>2. Len(text) \in Nat /\ DOMAIN text = 1 .. Len(text) /\ pos \in Nat /\ pos \in DOMAIN text
  BY <1>1, Facts DEF IInv, StateTypes, InTurn
<1>3. blocks \in Seq(BlockRecords) /\ targets \in Seq(0 .. nextName - 1)
  BY DEF IInv, StateTypes, NamesInv
<1>4. SameBlocks
  BY <1>1, <1>3 DEF SameBlocks, Block, F, L, N
<1>5. ~InTurn' /\ Reached' = pos /\ Reached = pos
  BY <1>1, <1>2 DEF InTurn, Reached
<1>6. pos' \in 1 .. Len(text) + 1 /\ phase' \in Phases /\ Reached' \in Nat /\ Reached <= Reached'
      /\ \A p \in 1 .. Reached' : BelongsInBasicBlock(text[p]) => p <= Reached
  BY <1>1, <1>2, <1>5 DEF Phases
<1> QED
  BY <1>1, <1>3, <1>4, <1>5, <1>6, StillStep

-----------------------------------------------------------------------------
(* The targets of a jump.                                                  *)

\* The names of a jump's targets are names of the text.
LEMMA TargetNames ==
  ASSUME IInv, pos \in DOMAIN text, NEW ts \in SetToSeqs(text[pos].to)
  PROVE  ts \in Seq(0 .. nextName - 1)
PROOF
<1> DEFINE S == text[pos].to
<1>1. S \subseteq 1 .. FirstFresh - 1 /\ FirstFresh \in Nat /\ FirstFresh <= nextName
      /\ nextName \in Nat
  BY EntryFacts, FreshAssumption DEF IInv, TextInv
<1>2. Cardinality(S) \in Nat
  <2>1. IsFiniteSet(1 .. FirstFresh - 1)
    BY <1>1, FS_Interval
  <2> QED
    BY <1>1, <2>1, FS_Subset, FS_CardinalityType
<1>3. ts \in [1 .. Cardinality(S) -> S]
  BY DEF SetToSeqs
<1> DEFINE n == Cardinality(S)
<1> HIDE DEF S
<1>4. S \subseteq 0 .. nextName - 1
  BY <1>1
<1>5. n \in Nat /\ ts \in [1 .. n -> S]
  BY <1>2, <1>3
<1> HIDE DEF n
<1> DEFINE T == 0 .. nextName - 1
<1>6. S \subseteq T
  BY <1>4
<1> HIDE DEF T
<1>7. ts \in [1 .. n -> T]
  BY <1>5, <1>6
<1>8. ts \in Seq(T)
  BY <1>5, <1>7
<1> QED
  BY <1>8 DEF T

\* What the pattern can be.
LEMMA PatternAhead ==
  ASSUME IInv
  PROVE  VaargPattern \subseteq pos + 1 .. Len(text)
PROOF
<1>1. pos \in Nat /\ Len(text) \in Nat
  BY Facts
<1> DEFINE first == IF pos < Len(text) /\ IsLabel(text[pos + 1]) THEN pos + 2 ELSE pos + 1
           run == {p \in first .. Len(text) :
                     \A q \in first .. p : text[q].kind = "movaps"}
           end == first + Cardinality(run)
           after == {p \in end .. Len(text) :
                       /\ IsInstruction(text[p])
                       /\ \A q \in end .. p - 1 : ~IsInstruction(text[q])}
<1>2. first \in Nat /\ first >= pos + 1
  BY <1>1
<1>3. Cardinality(run) \in Nat
  <2>1. IsFiniteSet(first .. Len(text))
    BY <1>1, <1>2, FS_Interval
  <2> QED
    BY <2>1, FS_Subset, FS_CardinalityType
<1>4. run \subseteq pos + 1 .. Len(text)
  BY <1>1, <1>2
<1>5. end \in Nat /\ end >= pos + 1
  <2> HIDE DEF run, first
  <2> QED
    BY <1>1, <1>2, <1>3
<1>6. after \subseteq pos + 1 .. Len(text)
  <2> HIDE DEF end
  <2> QED
    BY <1>1, <1>5
<1>7. VaargPattern = IF Cardinality(run \cup after) > 1 THEN run \cup after ELSE {}
  BY DEF VaargPattern
<1> HIDE DEF run, after
<1> QED
  BY <1>4, <1>6, <1>7

LEMMA GetTargetsStep ==
  ASSUME IInv, GetTargets
  PROVE  IInv'
PROOF
<1>1. /\ phase = "targets"
      /\ pos' = pos /\ text' = text /\ nextName' = nextName
      /\ current' = current /\ SameMaps /\ blocks' = blocks
  BY DEF GetTargets, SameMaps, walkVars, FindVaarg, GiveUp
<1>2. \/ targets' \in SetToSeqs(text[pos].to) /\ phase' = "link"
      \/ targets' = <<>> /\ phase' = "pattern" /\ pattern' = VaargPattern
      \/ targets' = <<>> /\ phase' = "link"
  BY DEF GetTargets, Entry, FindVaarg, GiveUp
<1>3. Len(text) \in Nat /\ DOMAIN text = 1 .. Len(text) /\ pos \in Nat /\ pos \in DOMAIN text
  BY <1>1, Facts DEF IInv, StateTypes, InTurn
<1>4. blocks \in Seq(BlockRecords)
  BY DEF IInv, StateTypes
<1>5. SameBlocks
  BY <1>1, <1>4 DEF SameBlocks, Block, F, L, N
<1>6. InTurn' /\ InTurn /\ Reached' = pos /\ Reached = pos
  BY <1>1, <1>2 DEF InTurn, Reached
<1>7. targets' \in Seq(0 .. nextName - 1)
  <2>1. <<>> \in Seq(0 .. nextName - 1)
    OBVIOUS
  <2>2. targets' \in SetToSeqs(text[pos].to) => targets' \in Seq(0 .. nextName - 1)
    BY ONLY <1>3, IInv, TargetNames
  <2> QED
    BY <1>2, <2>1, <2>2
<1>8. phase' = "pattern" => pattern' \subseteq pos' + 1 .. Len(text)
  BY <1>1, <1>2, PatternAhead
<1>9. pos' \in 1 .. Len(text) + 1 /\ phase' \in Phases /\ Reached' \in Nat /\ Reached <= Reached'
      /\ \A p \in 1 .. Reached' : BelongsInBasicBlock(text[p]) => p <= Reached
  BY <1>1, <1>2, <1>3, <1>6 DEF Phases
<1> QED
  BY <1>1, <1>3, <1>5, <1>6, <1>7, <1>8, <1>9, StillStep

\* What InsertAt makes of a sequence.
LEMMA InsertFacts ==
  ASSUME NEW E, NEW s \in Seq(E), NEW i \in 1 .. Len(s), NEW e \in E
  PROVE  /\ InsertAt(s, i, e) \in Seq(E) /\ Len(InsertAt(s, i, e)) = Len(s) + 1
         /\ \A j \in 1 .. Len(s) + 1 :
              /\ j < i => InsertAt(s, i, e)[j] = s[j]
              /\ j = i => InsertAt(s, i, e)[j] = e
              /\ j > i => InsertAt(s, i, e)[j] = s[j - 1]
PROOF
  BY DEF InsertAt

LEMMA UseLabelStep ==
  ASSUME IInv, AddTarget, NEW p \in pattern, UseLabel(p)
  PROVE  IInv'
PROOF
<1>1. /\ phase = "pattern" /\ phase' \in {"pattern", "link"}
      /\ pos' = pos /\ text' = text /\ nextName' = nextName
      /\ current' = current /\ SameMaps /\ blocks' = blocks
      /\ pattern' = pattern \ {p} /\ targets' = Append(targets, text[p - 1].name)
  BY DEF AddTarget, UseLabel, SameMaps, walkVars, graphVars
<1>2. Len(text) \in Nat /\ DOMAIN text = 1 .. Len(text) /\ pos \in Nat /\ pos \in DOMAIN text
  BY <1>1, Facts DEF IInv, StateTypes, InTurn
<1>3. blocks \in Seq(BlockRecords) /\ targets \in Seq(0 .. nextName - 1)
  BY DEF IInv, StateTypes, NamesInv
<1>4. SameBlocks
  BY <1>1, <1>3 DEF SameBlocks, Block, F, L, N
<1>5. InTurn' /\ InTurn /\ Reached' = pos /\ Reached = pos
  BY <1>1 DEF InTurn, Reached
<1>6. pattern \subseteq pos + 1 .. Len(text)
  BY <1>1 DEF IInv, PatternInv
<1>7. targets' \in Seq(0 .. nextName - 1)
  <2>1. p - 1 \in DOMAIN text /\ nextName \in Nat
    BY <1>2, <1>6, Facts
  <2>2. text[p - 1].name \in 0 .. nextName - 1
    BY <2>1, EntryFacts
  <2> QED
    BY <1>1, <1>3, <2>2
<1>8. phase' = "pattern" => pattern' \subseteq pos' + 1 .. Len(text)
  BY <1>1, <1>6
<1>9. pos' \in 1 .. Len(text) + 1 /\ phase' \in Phases /\ Reached' \in Nat /\ Reached <= Reached'
      /\ \A q \in 1 .. Reached' : BelongsInBasicBlock(text[q]) => q <= Reached
  BY <1>1, <1>2, <1>5 DEF Phases
<1> QED
  BY <1>1, <1>2, <1>4, <1>5, <1>7, <1>8, <1>9, StillStep

LEMMA CreateLabelStep ==
  ASSUME IInv, AddTarget, NEW p \in pattern, CreateLabel(p)
  PROVE  IInv'
PROOF
<1>1. /\ phase = "pattern" /\ phase' \in {"pattern", "link"}
      /\ pos' = pos /\ nextName' = nextName + 1
      /\ current' = current /\ SameMaps /\ blocks' = blocks
      /\ text' = InsertAt(text, p, FreshLabel(nextName))
      /\ pattern' = {q + 1 : q \in pattern \ {p}} /\ targets' = Append(targets, nextName)
  BY DEF AddTarget, CreateLabel, SameMaps, walkVars, graphVars
<1>2. /\ Len(text) \in Nat /\ DOMAIN text = 1 .. Len(text) /\ pos \in Nat /\ pos \in DOMAIN text
      /\ nextName \in Nat
  BY <1>1, Facts DEF IInv, StateTypes, InTurn
<1>3. blocks \in Seq(BlockRecords) /\ targets \in Seq(0 .. nextName - 1)
  BY DEF IInv, StateTypes, NamesInv
<1>4. SameBlocks
  BY <1>1, <1>3 DEF SameBlocks, Block, F, L, N
<1>5. InTurn' /\ InTurn /\ Reached' = pos /\ Reached = pos
  BY <1>1 DEF InTurn, Reached
<1>6. pattern \subseteq pos + 1 .. Len(text) /\ p \in pos + 1 .. Len(text)
  BY <1>1 DEF IInv, PatternInv
<1>7. /\ EntriesBelow(nextName) \subseteq EntriesBelow(nextName + 1)
      /\ FreshLabel(nextName) \in EntriesBelow(nextName + 1)
      /\ FreshLabel(nextName).kind = "label" /\ FreshLabel(nextName).name = nextName
  BY <1>2 DEF EntriesBelow, FreshLabel, Kinds
<1>8. text \in Seq(EntriesBelow(nextName + 1))
  <2>1. text \in Seq(EntriesBelow(nextName))
    BY DEF IInv, TextInv
  <2> QED
    BY <1>7, <2>1
<1>9. /\ text' \in Seq(EntriesBelow(nextName + 1)) /\ Len(text') = Len(text) + 1
      /\ \A j \in 1 .. Len(text) + 1 : /\ j < p => text'[j] = text[j]
                                       /\ j = p => text'[j] = FreshLabel(nextName)
                                       /\ j > p => text'[j] = text[j - 1]
  <2> DEFINE E == EntriesBelow(nextName + 1)
             e == FreshLabel(nextName)
  <2>1. p \in 1 .. Len(text) /\ text \in Seq(E) /\ e \in E /\ text' = InsertAt(text, p, e)
    BY <1>1, <1>2, <1>6, <1>7, <1>8
  <2> HIDE DEF E, e
  <2>2. /\ text' \in Seq(E) /\ Len(text') = Len(text) + 1
        /\ \A j \in 1 .. Len(text) + 1 : /\ j < p => text'[j] = text[j]
                                         /\ j = p => text'[j] = e
                                         /\ j > p => text'[j] = text[j - 1]
    BY ONLY <2>1, InsertFacts
  <2> QED
    BY <2>2 DEF E, e
<1>10. DOMAIN text' = 1 .. Len(text) + 1
  BY <1>9
\* Where the entries of the new text come from.
<1>11. ASSUME NEW j \in DOMAIN text', IsLabel(text'[j])
       PROVE  \/ j = p /\ text'[j].name = nextName
              \/ j < p /\ j \in DOMAIN text /\ text'[j] = text[j]
              \/ j > p /\ j - 1 \in DOMAIN text /\ text'[j] = text[j - 1]
  BY <1>2, <1>6, <1>7, <1>9, <1>10
<1>12. TextInv'
  <2>1. nextName' \in Nat /\ FirstFresh <= nextName'
    BY <1>1, <1>2, FreshAssumption DEF IInv, TextInv
  <2>2. OneLabelEach'
    <3> SUFFICES ASSUME NEW i \in DOMAIN text', NEW j \in DOMAIN text',
                        IsLabel(text'[i]), IsLabel(text'[j]), text'[i].name = text'[j].name
                 PROVE  i = j
      BY DEF OneLabelEach, IsLabel
    <3>1. \A k \in DOMAIN text : text[k].name # nextName
      BY <1>2, EntryFacts
    <3>2. \A k, l \in DOMAIN text :
            IsLabel(text[k]) /\ IsLabel(text[l]) /\ text[k].name = text[l].name => k = l
      BY DEF IInv, TextInv, OneLabelEach
    <3>3. i \in Nat /\ j \in Nat /\ p \in Nat
      BY <1>2, <1>6, <1>10
    <3>4. /\ \/ i = p /\ text'[i].name = nextName
             \/ i < p /\ i \in DOMAIN text /\ text'[i] = text[i]
             \/ i > p /\ i - 1 \in DOMAIN text /\ text'[i] = text[i - 1]
          /\ \/ j = p /\ text'[j].name = nextName
             \/ j < p /\ j \in DOMAIN text /\ text'[j] = text[j]
             \/ j > p /\ j - 1 \in DOMAIN text /\ text'[j] = text[j - 1]
      BY <1>11
    <3> QED
      BY <3>1, <3>2, <3>3, <3>4
  <2> QED
    BY <1>1, <1>9, <2>1, <2>2 DEF TextInv
<1>13. StateTypes'
  <2>1. DOMAIN blocks' = DOMAIN blocks
    BY <1>1
  <2> QED
    BY <1>1, <1>2, <1>9, <1>10, <2>1 DEF IInv, StateTypes, Phases, Block
<1>14. NamesInv'
  <2>1. targets' \in Seq(0 .. nextName)
    <3>1. targets \in Seq(0 .. nextName)
      BY <1>2, <1>3
    <3> QED
      BY <1>1, <1>2, <3>1
  <2>2. nextName' - 1 = nextName
    BY <1>1, <1>2
  <2>3. \A l \in DOMAIN named : l \in Nat /\ l < nextName' /\ named[l] \in Block
    BY <1>1, <1>2 DEF IInv, NamesInv
  <2> QED
    BY <1>1, <1>4, <2>1, <2>2, <2>3 DEF IInv, NamesInv, SameBlocks, SameMaps
<1>15. PatternInv'
  BY <1>1, <1>2, <1>6, <1>9 DEF PatternInv
<1>16. Geometry'
  <2>1. \A q \in 1 .. Reached' : BelongsInBasicBlock(text[q])' =>
           q <= Reached /\ BelongsInBasicBlock(text[q])
    BY <1>2, <1>5, <1>6, <1>9 DEF BelongsInBasicBlock
  <2> QED
    BY <1>1, <1>2, <1>4, <1>5, <2>1, StillGeometry
<1>17. SameBehind
  <2>1. \A q \in 1 .. Reached : q \in DOMAIN text' /\ text'[q] = text[q]
    BY <1>2, <1>5, <1>6, <1>9, <1>10
  <2>2. ASSUME NEW q \in DOMAIN text', NEW l \in DOMAIN named, Named(q, l)'
        PROVE  \E r \in DOMAIN text : Named(r, l)
    <3>1. IsLabel(text'[q]) /\ text'[q].name = l
      BY <2>2 DEF Named, IsLabel
    <3>2. l # nextName
      BY <1>2 DEF IInv, NamesInv
    <3> QED
      BY <1>11, <3>1, <3>2 DEF Named
  <2> QED
    BY <1>2, <1>10, <2>1, <2>2 DEF SameBehind
<1>18. MapsInv'
  BY <1>1, <1>4, <1>17, StillMaps
<1>19. KnownInv'
  <2> SUFFICES ASSUME NEW q \in 1 .. pos, IsLabel(text'[q])
               PROVE  text'[q].name \in DOMAIN labelToBB
    BY <1>1, <1>5 DEF KnownInv, SameMaps, IsLabel
  <2>1. text'[q] = text[q]
    BY <1>5, <1>17 DEF SameBehind
  <2> QED
    BY <1>5, <2>1 DEF IInv, KnownInv
<1> QED
  BY <1>12, <1>13, <1>14, <1>15, <1>16, <1>18, <1>19 DEF IInv

LEMMA AddTargetStep ==
  ASSUME IInv, AddTarget
  PROVE  IInv'
PROOF
<1>1. PICK p \in pattern : UseLabel(p) \/ CreateLabel(p)
  BY DEF AddTarget
<1> QED
  BY <1>1, UseLabelStep, CreateLabelStep

-----------------------------------------------------------------------------
(* The edges of a jump.                                                    *)

\* Chain marks a block at most.
LEMMA ChainFacts ==
  ASSUME NEW bs \in Seq(BlockRecords), NEW b \in 1 .. Len(bs)
  PROVE  /\ Chain(b, bs) \in Seq(BlockRecords) /\ Len(Chain(b, bs)) = Len(bs)
         /\ DOMAIN Chain(b, bs) = 1 .. Len(bs)
         /\ \A c \in 1 .. Len(bs) : /\ Chain(b, bs)[c].first = bs[c].first
                                    /\ Chain(b, bs)[c].last = bs[c].last
                                    /\ Chain(b, bs)[c].label = bs[c].label
PROOF
<1>1. Chain(b, bs) = bs \/ Chain(b, bs) = ChainedAt(bs, b)
  BY DEF Chain, ChainedAt
<1>2. CASE Chain(b, bs) = bs
  BY <1>2
<1>3. CASE Chain(b, bs) = ChainedAt(bs, b)
  BY <1>3, MarkedBlocks
<1> QED
  BY <1>1, <1>2, <1>3

\* What every step of the loop over the targets leaves as it is.
LEMMA LinkFacts ==
  ASSUME IInv, Linking, NEW b, NEW bs, NEW es, LinkTo(b, bs, es)
  PROVE  /\ phase = "link" /\ phase' = "link" /\ pos' = pos /\ pos \in DOMAIN text
         /\ text' = text /\ nextName' = nextName /\ respect' = respect
         /\ InTurn /\ InTurn' /\ Reached = pos /\ Reached' = pos /\ current # NONE
         /\ Target \in Nat /\ Target < nextName
         /\ targets' \in Seq(0 .. nextName - 1)
         /\ blocks' = Chain(b, bs)
         /\ blocks \in Seq(BlockRecords)
PROOF
<1>1. /\ phase = "link" /\ phase' = phase /\ pos' = pos /\ text' = text
      /\ nextName' = nextName /\ respect' = respect /\ targets' = Tail(targets)
      /\ blocks' = Chain(b, bs) /\ targets # <<>>
  BY DEF LinkTo, Linking
<1>2. InTurn /\ InTurn' /\ Reached = pos /\ Reached' = pos
  BY <1>1 DEF InTurn, Reached
<1>3. pos \in DOMAIN text /\ current # NONE /\ blocks \in Seq(BlockRecords)
  BY <1>2 DEF IInv, StateTypes, Geometry, CurrentInv
<1>4. targets \in Seq(0 .. nextName - 1) /\ nextName \in Nat
  BY Facts DEF IInv, NamesInv
<1>5. Target \in 0 .. nextName - 1 /\ Tail(targets) \in Seq(0 .. nextName - 1)
  <2> DEFINE T == 0 .. nextName - 1
  <2>1. targets \in Seq(T)
    BY <1>4
  <2> HIDE DEF T
  <2>2. Head(targets) \in T /\ Tail(targets) \in Seq(T)
    BY <1>1, <2>1
  <2> QED
    BY <2>2 DEF T, Target
<1> QED
  BY <1>1, <1>2, <1>3, <1>4, <1>5

LEMMA LinkKnownStep ==
  ASSUME IInv, LinkKnown
  PROVE  IInv'
PROOF
<1> DEFINE b == named[Target]
<1>1. Linking /\ LinkTo(b, blocks, edges) /\ Target \in DOMAIN named
      /\ current' = current /\ named' = named /\ labelToBB' = labelToBB
  BY DEF LinkKnown
<1>2. /\ phase = "link" /\ phase' = "link" /\ pos' = pos /\ pos \in DOMAIN text
      /\ text' = text /\ nextName' = nextName /\ respect' = respect
      /\ InTurn /\ InTurn' /\ Reached = pos /\ Reached' = pos
      /\ targets' \in Seq(0 .. nextName - 1)
      /\ blocks' = Chain(b, blocks) /\ blocks \in Seq(BlockRecords)
  BY <1>1, LinkFacts
<1>3. b \in 1 .. Len(blocks) /\ Block = 1 .. Len(blocks)
  BY <1>1, Facts DEF IInv, NamesInv
<1> HIDE DEF b
<1>4. SameBlocks
  <2>1. /\ blocks' \in Seq(BlockRecords) /\ DOMAIN blocks' = 1 .. Len(blocks)
        /\ \A c \in 1 .. Len(blocks) :
             /\ blocks'[c].first = blocks[c].first /\ blocks'[c].last = blocks[c].last
             /\ blocks'[c].label = blocks[c].label
    BY <1>2, <1>3, ChainFacts
  <2> QED
    BY <1>3, <2>1 DEF SameBlocks, Block, F, L, N
<1>5. SameMaps
  BY <1>1, <1>2 DEF SameMaps
<1>6. Len(text) \in Nat /\ DOMAIN text = 1 .. Len(text) /\ pos \in Nat
  BY Facts
<1>7. pos' \in 1 .. Len(text) + 1 /\ phase' \in Phases /\ Reached' \in Nat /\ Reached <= Reached'
      /\ \A q \in 1 .. Reached' : BelongsInBasicBlock(text[q]) => q <= Reached
  BY <1>2, <1>6 DEF Phases
<1> QED
  BY <1>1, <1>2, <1>4, <1>5, <1>7, StillStep

\* A map with new names.
LEMMA MapsFacts ==
  ASSUME NEW m, NEW names, NEW b
  PROVE  /\ DOMAIN Maps(m, names, b) = DOMAIN m \cup names
         /\ \A l \in names : Maps(m, names, b)[l] = b
         /\ \A l \in DOMAIN m : l \notin names => Maps(m, names, b)[l] = m[l]
PROOF
  BY DEF Maps

\* A new block behind the others.
LEMMA AppendFacts ==
  ASSUME NEW bs \in Seq(BlockRecords), NEW r \in BlockRecords
  PROVE  /\ Append(bs, r) \in Seq(BlockRecords) /\ Len(Append(bs, r)) = Len(bs) + 1
         /\ DOMAIN Append(bs, r) = 1 .. Len(bs) + 1
         /\ Append(bs, r)[Len(bs) + 1] = r
         /\ \A c \in 1 .. Len(bs) : Append(bs, r)[c] = bs[c]
PROOF
<1> HIDE DEF BlockRecords
<1> QED
  OBVIOUS

LEMMA NewBlockFacts ==
  ASSUME NEW l \in Nat
  PROVE  /\ NewBlock(l) \in BlockRecords
         /\ NewBlock(l).first = 0 /\ NewBlock(l).last = 0 /\ NewBlock(l).label = l
PROOF
  BY DEF NewBlock, BlockRecords, NONE

LEMMA LinkNewStep ==
  ASSUME IInv, LinkNew
  PROVE  IInv'
PROOF
<1>0. PICK n \in Nat : n = Len(blocks)
  BY Facts
<1> DEFINE bs == Append(blocks, NewBlock(Target))
<1>1. /\ Linking /\ LinkTo(n + 1, bs, edges)
      /\ Target \notin DOMAIN named /\ Target \notin DOMAIN labelToBB
      /\ current' = current /\ named' = Maps(named, {Target}, n + 1)
      /\ labelToBB' = labelToBB
  BY <1>0 DEF LinkNew
<1>2. /\ phase = "link" /\ phase' = "link" /\ pos' = pos /\ pos \in DOMAIN text
      /\ text' = text /\ nextName' = nextName /\ respect' = respect
      /\ InTurn /\ InTurn' /\ Reached = pos /\ Reached' = pos /\ current # NONE
      /\ Target \in Nat /\ Target < nextName
      /\ targets' \in Seq(0 .. nextName - 1)
      /\ blocks' = Chain(n + 1, bs) /\ blocks \in Seq(BlockRecords)
  BY <1>1, LinkFacts
<1>3. /\ Len(text) \in Nat /\ DOMAIN text = 1 .. Len(text) /\ pos \in Nat
      /\ Block = 1 .. n
      /\ current \in Block
      /\ \A c \in Block : /\ F(c) \in Nat /\ L(c) \in Nat /\ In(c) = F(c) .. L(c)
  BY <1>0, <1>2, Facts
<1>4. /\ blocks' \in Seq(BlockRecords) /\ Block' = 1 .. n + 1
      /\ F(n + 1)' = 0 /\ L(n + 1)' = 0 /\ N(n + 1)' = Target
      /\ \A c \in 1 .. n : F(c)' = F(c) /\ L(c)' = L(c) /\ N(c)' = N(c)
  <2>1. NewBlock(Target) \in BlockRecords /\ NewBlock(Target).first = 0
        /\ NewBlock(Target).last = 0 /\ NewBlock(Target).label = Target
    BY <1>2, NewBlockFacts
  <2>2. /\ bs \in Seq(BlockRecords) /\ Len(bs) = n + 1
        /\ bs[n + 1] = NewBlock(Target) /\ \A c \in 1 .. n : bs[c] = blocks[c]
    BY <1>0, <1>2, <2>1, AppendFacts
  <2> HIDE DEF bs
  <2>3. n + 1 \in 1 .. Len(bs)
    BY <1>3, <2>2
  <2>4. /\ blocks' \in Seq(BlockRecords) /\ DOMAIN blocks' = 1 .. Len(bs)
        /\ \A c \in 1 .. Len(bs) :
             /\ blocks'[c].first = bs[c].first /\ blocks'[c].last = bs[c].last
             /\ blocks'[c].label = bs[c].label
    BY <1>2, <2>2, <2>3, ChainFacts
  <2>5. \A c \in 1 .. n : c \in 1 .. Len(bs)
    BY <1>3, <2>2
  <2>6. Len(blocks)' = Len(bs) /\ Block' = 1 .. Len(bs)
    BY <2>4 DEF Block
  <2> DEFINE k == n + 1
  <2>7. k \in 1 .. Len(bs) /\ bs[k] = NewBlock(Target)
    BY <2>2, <2>3
  <2>8. blocks'[k].first = 0 /\ blocks'[k].last = 0 /\ blocks'[k].label = Target
    BY <2>1, <2>4, <2>7
  <2>9. \A c \in 1 .. n : /\ blocks'[c].first = blocks[c].first
                          /\ blocks'[c].last = blocks[c].last
                          /\ blocks'[c].label = blocks[c].label
    BY <2>2, <2>4, <2>5
  <2> QED
    BY <2>2, <2>4, <2>6, <2>8, <2>9 DEF F, L, N
<1> HIDE DEF bs
<1>5. /\ DOMAIN named' = DOMAIN named \cup {Target} /\ named'[Target] = n + 1
      /\ \A l \in DOMAIN named : l # Target /\ named'[l] = named[l] /\ named[l] \in 1 .. n
  <2>1. \A l \in DOMAIN named : l # Target /\ named[l] \in 1 .. n
    BY <1>1, <1>3 DEF IInv, NamesInv
  <2>2. \A l \in DOMAIN named : l \notin {Target}
    BY <2>1
  <2> DEFINE k == n + 1
  <2>3. named' = Maps(named, {Target}, k)
    BY <1>1
  <2> HIDE DEF k
  <2>4. /\ DOMAIN named' = DOMAIN named \cup {Target} /\ named'[Target] = k
        /\ \A l \in DOMAIN named : named'[l] = named[l]
    BY ONLY <2>2, <2>3 DEF Maps
  <2> QED
    BY <2>1, <2>4 DEF k
<1>6. Geometry'
  <2>0. \A c \in 1 .. n + 1 : c = n + 1 \/ c \in 1 .. n
    OBVIOUS
  <2>1. Ranges'
    <3>1. \A c \in 1 .. n : \/ F(c) = 0 /\ L(c) = 0
                            \/ 1 <= F(c) /\ F(c) <= L(c) /\ L(c) <= Reached
      BY <1>3 DEF IInv, Geometry, Ranges
    <3>2. \A c \in 1 .. n + 1 : \/ F(c)' = 0 /\ L(c)' = 0
                                \/ 1 <= F(c)' /\ F(c)' <= L(c)' /\ L(c)' <= Reached
      BY <1>4, <2>0, <3>1
    <3> QED
      BY <1>2, <1>4, <3>2 DEF Ranges
  <2>2. Apart'
    <3>1. \A b, c \in 1 .. n : b # c /\ F(b) # 0 /\ F(c) # 0 => L(b) < F(c) \/ L(c) < F(b)
      BY <1>3 DEF IInv, Geometry, Apart
    <3>2. \A b, c \in 1 .. n + 1 :
            b # c /\ F(b)' # 0 /\ F(c)' # 0 => L(b)' < F(c)' \/ L(c)' < F(b)'
      BY <1>4, <2>0, <3>1
    <3> QED
      BY <1>4, <3>2 DEF Apart
  <2>3. \A c \in 1 .. n : In(c)' = In(c)
    BY <1>3, <1>4 DEF In, F, L
  <2>4. Covered'
    BY <1>2, <1>3, <1>4, <2>3 DEF IInv, Geometry, Covered
  <2>5. CurrentInv'
    <3>1. F(current)' = F(current) /\ L(current)' = L(current)
      BY <1>1, <1>3, <1>4 DEF F, L
    <3>2. /\ L(current) = pos /\ F(current) # 0
          /\ \A c \in 1 .. n : c # current => L(c) < F(current)
      BY <1>2, <1>3 DEF IInv, Geometry, CurrentInv
    <3>3. \A c \in 1 .. n + 1 : c # current => L(c)' < F(current)
      BY <1>3, <1>4, <3>2
    <3> QED
      BY <1>1, <1>2, <1>4, <3>1, <3>2, <3>3 DEF CurrentInv
  <2> QED
    BY <2>1, <2>2, <2>4, <2>5 DEF Geometry
<1>7. MapsInv'
  <2>1. NamedInv'
    <3> SUFFICES ASSUME NEW l \in DOMAIN named', NEW b, b = named'[l]
                 PROVE  /\ N(b)' = l
                        /\ F(b)' # 0 =>
                             IF IsLabel(text[F(b)']) THEN text[F(b)'].name = l
                             ELSE \A p \in DOMAIN text : ~Named(p, l)
      BY <1>2 DEF NamedInv, Named, F, N
    <3>1. CASE l = Target
      BY <1>4, <1>5, <3>1 DEF F, N
    <3>2. CASE l \in DOMAIN named
      <4>1. b = named[l] /\ b \in 1 .. n
        BY <1>5, <3>2
      <4>2. F(b)' = F(b) /\ N(b)' = N(b)
        BY <1>4, <4>1
      <4> QED
        BY <3>2, <4>1, <4>2 DEF IInv, MapsInv, NamedInv
    <3> QED
      BY <1>5, <3>1, <3>2
  <2>2. HeadInv'
    <3> SUFFICES ASSUME NEW b \in 1 .. n + 1, F(b)' # 0, IsLabel(text[F(b)'])
                 PROVE  text[F(b)'].name \in DOMAIN named' /\ named'[text[F(b)'].name] = b
      BY <1>2, <1>4 DEF HeadInv
    <3>1. b \in 1 .. n
      BY <1>3, <1>4
    <3>2. F(b)' = F(b) /\ b \in Block
      BY <1>3, <1>4, <3>1
    <3> QED
      BY <1>5, <3>2 DEF IInv, MapsInv, HeadInv
  <2>3. LabelInv'
    <3>1. \A l \in DOMAIN labelToBB : In(labelToBB[l])' = In(labelToBB[l])
      BY <1>1, <1>3, <1>4 DEF In, F, L, IInv, NamesInv
    <3> SUFFICES ASSUME NEW l \in DOMAIN labelToBB
                 PROVE  /\ \E p \in DOMAIN text : p \in In(labelToBB[l]) /\ Named(p, l)
                        /\ l \in DOMAIN named' => named'[l] = labelToBB[l]
      BY <1>1, <1>2, <3>1 DEF LabelInv, Named
    <3> QED
      BY <1>1, <1>5 DEF IInv, MapsInv, LabelInv
  <2>4. RespectInv'
    <3> SUFFICES ASSUME respect, NEW b \in 1 .. n + 1, NEW p \in In(b)', p \in DOMAIN text,
                        IsLabel(text[p])
                 PROVE  p = F(b)'
      BY <1>2, <1>4 DEF RespectInv
    <3>1. CASE b = n + 1
      BY <1>3, <1>4, <3>1 DEF In, F, L
    <3>2. CASE b \in 1 .. n
      <4>1. In(b)' = In(b) /\ F(b)' = F(b) /\ b \in Block
        BY <1>3, <1>4, <3>2 DEF In, F, L
      <4> QED
        BY <4>1 DEF IInv, MapsInv, RespectInv
    <3> QED
      BY <1>3, <3>1, <3>2
  <2> QED
    BY <2>1, <2>2, <2>3, <2>4 DEF MapsInv
<1>8. TextInv' /\ PatternInv'
  BY <1>2 DEF IInv, TextInv, OneLabelEach, PatternInv
<1>9. StateTypes'
  BY <1>1, <1>2, <1>3, <1>4 DEF IInv, StateTypes, Phases
<1>10. NamesInv'
  <2>1. \A l \in DOMAIN named' : l \in Nat /\ l < nextName /\ named'[l] \in 1 .. n + 1
    <3>1. \A l \in DOMAIN named : l \in Nat /\ l < nextName
      BY DEF IInv, NamesInv
    <3>2. n + 1 \in 1 .. n + 1 /\ \A c \in 1 .. n : c \in 1 .. n + 1
      OBVIOUS
    <3> QED
      BY ONLY <1>2, <1>5, <3>1, <3>2
  <2>2. \A l \in DOMAIN labelToBB : labelToBB[l] \in 1 .. n + 1
    BY <1>3 DEF IInv, NamesInv
  <2> QED
    BY <1>1, <1>2, <1>4, <2>1, <2>2 DEF NamesInv
<1>11. KnownInv'
  BY <1>1, <1>2 DEF IInv, KnownInv
<1> QED
  BY <1>6, <1>7, <1>8, <1>9, <1>10, <1>11 DEF IInv

-----------------------------------------------------------------------------
(* Entering a block.                                                       *)

LEMMA EnterFacts ==
  ASSUME IInv, Walking, NEW b, Enter(b)
  PROVE  /\ phase = "walk" /\ pos \in DOMAIN text /\ Reached = pos - 1 /\ Reached' = pos
         /\ phase' \in {"walk", "targets"} /\ ~InTurn
         /\ InTurn' => pos' = pos
         /\ pos' \in {pos, pos + 1}
         /\ current' = b
         /\ labelToBB' = IF IsLabel(text[pos]) THEN Maps(labelToBB, {text[pos].name}, b)
                         ELSE labelToBB
PROOF
<1>1. pos \in Nat
  BY Facts
<1>2. phase = "walk" /\ pos \in DOMAIN text
  BY DEF Walking
<1>3. \/ phase' = "targets" /\ pos' = pos
      \/ phase' = "walk" /\ pos' = pos + 1
  BY <1>2 DEF Enter
<1>4. current' = b /\ labelToBB' = IF IsLabel(text[pos]) THEN Maps(labelToBB, {text[pos].name}, b)
                                   ELSE labelToBB
  BY DEF Enter, Entry
<1> QED
  BY <1>1, <1>2, <1>3, <1>4 DEF InTurn, Reached

\* A label that is put into a block is recorded there.
LEMMA EnterLabels ==
  ASSUME IInv, Walking, NEW b, Enter(b), b \in Block', text' = text,
         Block \subseteq Block', pos \in In(b)',
         \A c \in Block : \A p \in DOMAIN text : p \in In(c) => p \in In(c)',
         IsLabel(text[pos]) /\ text[pos].name \in DOMAIN named' => named'[text[pos].name] = b,
         \A l \in DOMAIN labelToBB :
           l \in DOMAIN named' => \/ IsLabel(text[pos]) /\ l = text[pos].name
                                  \/ l \in DOMAIN named /\ named'[l] = named[l]
  PROVE  LabelInv' /\ KnownInv' /\ \A l \in DOMAIN labelToBB' : labelToBB'[l] \in Block'
PROOF
<1>1. /\ pos \in DOMAIN text
      /\ labelToBB' = IF IsLabel(text[pos]) THEN Maps(labelToBB, {text[pos].name}, b)
                      ELSE labelToBB
  BY EnterFacts
<1>2. ASSUME NEW l \in DOMAIN labelToBB'
      PROVE  \/ IsLabel(text[pos]) /\ l = text[pos].name /\ labelToBB'[l] = b
             \/ /\ l \in DOMAIN labelToBB /\ labelToBB'[l] = labelToBB[l]
                /\ ~(IsLabel(text[pos]) /\ l = text[pos].name)
  BY <1>1, <1>2 DEF Maps
<1>3. ASSUME NEW l \in DOMAIN labelToBB', NEW c, c = labelToBB'[l]
      PROVE  /\ \E p \in DOMAIN text : p \in In(c)' /\ Named(p, l)
             /\ l \in DOMAIN named' => named'[l] = c
             /\ c \in Block'
  <2>1. CASE IsLabel(text[pos]) /\ l = text[pos].name /\ c = b
    BY <1>1, <2>1 DEF Named
  <2>2. CASE /\ l \in DOMAIN labelToBB /\ c = labelToBB[l]
             /\ ~(IsLabel(text[pos]) /\ l = text[pos].name)
    <3>1. /\ \E p \in DOMAIN text : p \in In(c) /\ Named(p, l)
          /\ l \in DOMAIN named => named[l] = c
          /\ c \in Block
      BY <2>2 DEF IInv, MapsInv, LabelInv, NamesInv
    <3>2. \E p \in DOMAIN text : p \in In(c)' /\ Named(p, l)
      BY <3>1
    <3> QED
      BY <2>2, <3>1, <3>2
  <2> QED
    BY <1>2, <1>3, <2>1, <2>2
<1>4. \A l \in DOMAIN labelToBB' : labelToBB'[l] \in Block'
  BY <1>3
<1>5. LabelInv'
  <2>1. \A l \in DOMAIN labelToBB' :
          /\ \E p \in DOMAIN text : /\ p \in blocks'[labelToBB'[l]].first ..
                                           blocks'[labelToBB'[l]].last
                                    /\ Named(p, l)
          /\ l \in DOMAIN named' => named'[l] = labelToBB'[l]
    BY <1>3 DEF In
  <2> QED
    BY <2>1 DEF LabelInv, Named, In
<1>6. KnownInv'
  <2>1. Reached = pos - 1 /\ Reached' = pos /\ pos \in Nat
    BY EnterFacts, Facts
  <2> SUFFICES ASSUME NEW p \in 1 .. pos, IsLabel(text[p])
               PROVE  text[p].name \in DOMAIN labelToBB'
    BY <2>1 DEF KnownInv
  <2>2. CASE p = pos
    BY <1>1, <2>2 DEF Maps
  <2>3. CASE p # pos
    <3>1. text[p].name \in DOMAIN labelToBB
      BY <2>1, <2>3 DEF IInv, KnownInv
    <3> QED
      BY <1>1, <3>1 DEF Maps
  <2> QED
    BY <2>2, <2>3
<1> QED
  BY <1>4, <1>5, <1>6

\* A block with one more entry.
LEMMA AddEntryFacts ==
  ASSUME NEW r \in BlockRecords, NEW p \in Nat
  PROVE  /\ AddEntry(r, p) \in BlockRecords
         /\ AddEntry(r, p).first = IF r.first = 0 THEN p ELSE r.first
         /\ AddEntry(r, p).last = p /\ AddEntry(r, p).label = r.label
PROOF
  BY DEF AddEntry, BlockRecords, NONE

\* The first entries up to the place of the walk are in some block, and a block
\* that is behind all others can reach over the directives that follow it.
LEMMA BehindCurrent ==
  ASSUME IInv, current # NONE, NEW p \in 1 .. Reached, L(current) < p
  PROVE  ~BelongsInBasicBlock(text[p])
PROOF
<1>1. /\ current \in Block /\ Reached \in Nat
      /\ \A c \in Block : F(c) \in Nat /\ L(c) \in Nat /\ In(c) = F(c) .. L(c)
  BY Facts
<1> SUFFICES ASSUME BelongsInBasicBlock(text[p]) PROVE FALSE
  OBVIOUS
<1>2. PICK c \in Block : p \in In(c)
  BY DEF IInv, Geometry, Covered
<1>3. /\ F(current) # 0 /\ (c # current => L(c) < F(current))
      /\ F(current) <= L(current)
  BY <1>1 DEF IInv, Geometry, CurrentInv, Ranges
<1> QED
  BY <1>1, <1>2, <1>3

LEMMA StayInBlockStep ==
  ASSUME IInv, StayInBlock
  PROVE  IInv'
PROOF
<1>0. PICK k \in Nat : k = current
  BY Facts
<1>1. /\ Walking /\ Enter(k) /\ ~Opens
      /\ text' = text /\ nextName' = nextName /\ respect' = respect /\ named' = named
      /\ targets' = targets
      /\ blocks' = [blocks EXCEPT ![k] = AddEntry(blocks[k], pos)]
  BY <1>0 DEF StayInBlock, linkVars
<1>2. /\ phase = "walk" /\ pos \in DOMAIN text /\ Reached = pos - 1 /\ Reached' = pos
      /\ phase' \in {"walk", "targets"}
      /\ InTurn' => pos' = pos
      /\ pos' \in {pos, pos + 1}
      /\ current' = k
  BY <1>1, EnterFacts
<1>3. /\ Len(text) \in Nat /\ DOMAIN text = 1 .. Len(text) /\ pos \in Nat
      /\ Block = 1 .. Len(blocks) /\ Len(blocks) \in Nat
      /\ \A c \in Block : F(c) \in Nat /\ L(c) \in Nat /\ In(c) = F(c) .. L(c)
  BY Facts
<1>4. k # 0 /\ k \in Block /\ ~(IsLabel(text[pos]) /\ (respect \/ text[pos].name \in DOMAIN named))
  BY <1>0, <1>1, Facts DEF Opens, Splits, NONE, Entry
<1>5. /\ F(k) # 0 /\ F(k) <= L(k) /\ L(k) <= pos - 1
      /\ \A c \in Block : c # k => L(c) < F(k)
  BY <1>0, <1>2, <1>3, <1>4 DEF IInv, Geometry, CurrentInv, Ranges, NONE
<1>6. /\ blocks' \in Seq(BlockRecords) /\ Block' = Block
      /\ F(k)' = F(k) /\ L(k)' = pos /\ N(k)' = N(k)
      /\ \A c \in Block : c # k => F(c)' = F(c) /\ L(c)' = L(c) /\ N(c)' = N(c)
  <2>1. blocks \in Seq(BlockRecords)
    BY DEF IInv, StateTypes
  <2>2. blocks[k] \in BlockRecords
    BY <1>3, <1>4, <2>1
  <2> DEFINE r == AddEntry(blocks[k], pos)
  <2>3. /\ r \in BlockRecords /\ r.last = pos /\ r.label = blocks[k].label
        /\ r.first = IF blocks[k].first = 0 THEN pos ELSE blocks[k].first
    BY <1>3, <2>2, AddEntryFacts
  <2>4. blocks' = [blocks EXCEPT ![k] = r]
    BY <1>1
  <2> HIDE DEF r
  <2>5. /\ blocks' \in Seq(BlockRecords) /\ DOMAIN blocks' = 1 .. Len(blocks)
        /\ \A c \in 1 .. Len(blocks) : blocks'[c] = IF c = k THEN r ELSE blocks[c]
    BY <1>3, <1>4, <2>1, <2>3, <2>4, PutBlock
  <2>6. blocks[k].first # 0
    BY <1>5 DEF F
  <2> QED
    BY <1>3, <1>4, <2>3, <2>5, <2>6 DEF F, L, N, Block
<1>7. \A c \in Block : F(c)' = F(c) /\ N(c)' = N(c) /\ (c # k => In(c)' = In(c))
  BY <1>6 DEF In, F, L
<1>8. In(k)' = F(k) .. pos /\ In(k) = F(k) .. L(k)
  BY <1>3, <1>4, <1>6 DEF In, F, L
<1>9. \A c \in Block : \A p \in In(c) : p \in In(c)'
  BY <1>3, <1>4, <1>5, <1>7, <1>8
<1>10. pos \in In(k)'
  BY <1>3, <1>4, <1>5, <1>8
<1>11. Geometry'
  <2>1. Ranges'
    <3>1. \A c \in Block : \/ F(c) = 0 /\ L(c) = 0
                           \/ 1 <= F(c) /\ F(c) <= L(c) /\ L(c) <= pos - 1
      BY <1>2 DEF IInv, Geometry, Ranges
    <3>2. \A c \in Block : \/ F(c)' = 0 /\ L(c)' = 0
                           \/ 1 <= F(c)' /\ F(c)' <= L(c)' /\ L(c)' <= pos
      BY <1>3, <1>4, <1>5, <1>6, <3>1
    <3> QED
      BY <1>2, <1>6, <3>2 DEF Ranges
  <2>2. Apart'
    <3>1. \A b, c \in Block : b # c /\ F(b) # 0 /\ F(c) # 0 => L(b) < F(c) \/ L(c) < F(b)
      BY DEF IInv, Geometry, Apart
    <3>2. \A b, c \in Block :
            b # c /\ F(b)' # 0 /\ F(c)' # 0 => L(b)' < F(c)' \/ L(c)' < F(b)'
      BY <1>4, <1>5, <1>6, <3>1
    <3> QED
      BY <1>6, <3>2 DEF Apart
  <2>3. Covered'
    <3> SUFFICES ASSUME NEW p \in 1 .. pos, BelongsInBasicBlock(text[p])
                 PROVE  \E b \in Block : p \in In(b)'
      BY <1>1, <1>2, <1>6 DEF Covered
    <3>1. CASE p = pos
      BY <1>4, <1>10, <3>1
    <3>2. CASE p # pos
      <4>1. p \in 1 .. Reached
        BY <1>2, <1>3, <3>2
      <4>2. PICK b \in Block : p \in In(b)
        BY <4>1 DEF IInv, Geometry, Covered
      <4> QED
        BY <1>9, <4>2
    <3> QED
      BY <3>1, <3>2
  <2>4. CurrentInv'
    <3>1. F(current)' = F(k)' /\ L(current)' = L(k)'
      BY <1>2 DEF F, L
    <3> QED
      BY <1>2, <1>4, <1>5, <1>6, <3>1 DEF CurrentInv, NONE
  <2> QED
    BY <2>1, <2>2, <2>3, <2>4 DEF Geometry
<1>12. LabelInv' /\ KnownInv' /\ \A l \in DOMAIN labelToBB' : labelToBB'[l] \in Block'
  <2>1. \A c \in Block : \A p \in DOMAIN text : p \in In(c) => p \in In(c)'
    BY <1>9
  <2>2. k \in Block' /\ Block \subseteq Block'
    BY <1>4, <1>6
  <2> QED
    BY <1>1, <1>4, <1>10, <2>1, <2>2, EnterLabels
<1>13. NamedInv'
  <2> SUFFICES ASSUME NEW l \in DOMAIN named, NEW b, b = named[l]
               PROVE  /\ N(b)' = l
                      /\ F(b)' # 0 =>
                           IF IsLabel(text[F(b)']) THEN text[F(b)'].name = l
                           ELSE \A p \in DOMAIN text : ~Named(p, l)
    BY <1>1 DEF NamedInv, Named, F, N
  <2>1. b \in Block
    BY DEF IInv, NamesInv
  <2> QED
    BY <1>7, <2>1 DEF IInv, MapsInv, NamedInv
<1>14. HeadInv'
  <2> SUFFICES ASSUME NEW b \in Block, F(b)' # 0, IsLabel(text[F(b)'])
               PROVE  text[F(b)'].name \in DOMAIN named /\ named[text[F(b)'].name] = b
    BY <1>1, <1>6 DEF HeadInv
  <2> QED
    BY <1>7 DEF IInv, MapsInv, HeadInv
<1>15. RespectInv'
  <2> SUFFICES ASSUME respect, NEW b \in Block, NEW p \in In(b)', p \in DOMAIN text,
                      IsLabel(text[p])
               PROVE  p = F(b)'
    BY <1>1, <1>6 DEF RespectInv
  <2>1. CASE p \in In(b)
    BY <1>7, <2>1 DEF IInv, MapsInv, RespectInv
  <2>2. CASE p \notin In(b)
    <3>1. b = k /\ L(k) < p /\ p <= pos /\ p \in Nat
      <4>1. b = k
        BY <1>7, <2>2
      <4>2. p \in F(k) .. pos /\ p \notin F(k) .. L(k)
        BY <1>8, <2>2, <4>1
      <4>3. F(k) \in Nat /\ L(k) \in Nat /\ pos \in Nat
        BY <1>3, <1>4
      <4> QED
        BY ONLY <4>1, <4>2, <4>3
    <3>2. p # pos
      BY <1>4
    <3>3. p \in 1 .. Reached
      BY <1>2, <1>3, <3>1, <3>2
    <3>4. ~BelongsInBasicBlock(text[p])
      BY <1>0, <1>4, <3>1, <3>3, BehindCurrent DEF NONE
    <3> QED
      BY <3>4 DEF BelongsInBasicBlock, IsLabel, Directives
  <2> QED
    BY <2>1, <2>2
<1>16. TextInv' /\ PatternInv'
  BY <1>1, <1>2 DEF IInv, TextInv, OneLabelEach, PatternInv
<1>17. StateTypes'
  <2>1. pos' \in 1 .. Len(text) + 1 /\ (InTurn' \/ phase' = "finish" => pos' \in DOMAIN text)
    BY <1>2, <1>3 DEF InTurn
  <2> QED
    BY <1>1, <1>2, <1>4, <1>6, <2>1 DEF StateTypes, Phases
<1>18. NamesInv'
  BY <1>1, <1>6, <1>12 DEF IInv, NamesInv
<1> QED
  BY <1>11, <1>12, <1>13, <1>14, <1>15, <1>16, <1>17, <1>18 DEF IInv, MapsInv

\* The block that a label heads is empty until the walk comes to the label.
LEMMA FoundIsEmpty ==
  ASSUME IInv, Walking, IsLabel(text[pos]), text[pos].name \in DOMAIN named
  PROVE  F(named[text[pos].name]) = 0
PROOF
<1> DEFINE l == text[pos].name
           b == named[l]
<1>1. /\ pos \in DOMAIN text /\ DOMAIN text = 1 .. Len(text) /\ Len(text) \in Nat
      /\ phase = "walk" /\ Reached = pos - 1 /\ pos \in Nat
  BY Facts DEF Walking, Reached, InTurn
<1>2. b \in Block
  BY DEF IInv, NamesInv
<1> SUFFICES ASSUME F(b) # 0 PROVE FALSE
  OBVIOUS
<1>3. F(b) \in Nat /\ F(b) >= 1 /\ F(b) <= pos - 1
  <2>1. F(b) \in Nat /\ L(b) \in Nat
    BY <1>2, Facts
  <2> QED
    BY <1>1, <1>2, <2>1 DEF IInv, Geometry, Ranges
<1>4. F(b) \in DOMAIN text
  BY <1>1, <1>3
<1>5. Named(pos, l)
  BY DEF Named
<1>6. IF IsLabel(text[F(b)]) THEN text[F(b)].name = l ELSE \A p \in DOMAIN text : ~Named(p, l)
  BY DEF IInv, MapsInv, NamedInv
<1>7. Named(F(b), l)
  BY <1>1, <1>5, <1>6 DEF Named
<1>8. F(b) = pos
  BY <1>1, <1>4, <1>5, <1>7, PlaceLemma
<1> QED
  BY <1>1, <1>3, <1>8

\* OpenBlock's part in the blocks and in the names.
OpensAs(k, l) ==
  /\ text' = text /\ respect' = respect /\ targets' = targets
  /\ nextName' = IF IsLabel(text[pos]) THEN nextName ELSE nextName + 1
  /\ l = IF IsLabel(text[pos]) THEN text[pos].name ELSE nextName
  /\ Enter(k)
  /\ DOMAIN named' = DOMAIN named \cup {l} /\ named'[l] = k
  /\ \A m \in DOMAIN named : m # l => named'[m] = named[m]
  /\ l \in DOMAIN named => IsLabel(text[pos]) /\ named[l] = k
  /\ (blocks \in Seq(BlockRecords))'
  /\ IF l \in DOMAIN named THEN k \in Block /\ F(k) = 0 /\ Block' = Block
     ELSE k \notin Block /\ Block' = Block \cup {k}
  /\ F(k)' = pos /\ L(k)' = pos /\ N(k)' = l
  /\ \A c \in Block : c # k => F(c)' = F(c) /\ L(c)' = L(c) /\ N(c)' = N(c)

LEMMA OpenBlockFacts ==
  ASSUME IInv, OpenBlock
  PROVE  \E k \in Nat \ {0}, l \in Nat : Walking /\ l < nextName' /\ OpensAs(k, l)
PROOF
<1>1. /\ Len(blocks) \in Nat /\ Block = 1 .. Len(blocks) /\ pos \in Nat /\ nextName \in Nat
      /\ blocks \in Seq(BlockRecords)
  BY Facts DEF IInv, StateTypes
<1>2. Walking /\ pos \in DOMAIN text
  BY DEF OpenBlock, Walking
<1>3. PICK l : l = IF IsLabel(text[pos]) THEN text[pos].name ELSE nextName
  OBVIOUS
<1>4. l \in Nat /\ (IsLabel(text[pos]) => l < nextName)
  BY <1>1, <1>2, <1>3, EntryFacts
<1>5. l \in DOMAIN named => IsLabel(text[pos]) /\ named[l] \in Block /\ F(named[l]) = 0
  <2>1. nextName \notin DOMAIN named
    BY <1>1 DEF IInv, NamesInv
  <2>2. l \in DOMAIN named => IsLabel(text[pos]) /\ l = text[pos].name
    BY <1>3, <2>1
  <2>3. l \in DOMAIN named => F(named[l]) = 0
    BY <1>2, <2>2, FoundIsEmpty
  <2> QED
    BY <2>2, <2>3 DEF IInv, NamesInv
<1>6. PICK n \in Nat : n = Len(blocks)
  BY <1>1
<1>7. PICK k : k = IF l \in DOMAIN named THEN named[l] ELSE n + 1
  OBVIOUS
<1>8. k \in Nat \ {0} /\ (l \in DOMAIN named => k \in Block /\ F(k) = 0 /\ k \in 1 .. n)
      /\ (l \notin DOMAIN named => k = n + 1 /\ k \notin Block)
  BY <1>1, <1>5, <1>6, <1>7
<1> DEFINE bs == IF l \in DOMAIN named THEN blocks ELSE Append(blocks, NewBlock(l))
           r == AddEntry(bs[k], pos)
<1>9. /\ text' = text /\ respect' = respect /\ targets' = targets
      /\ nextName' = IF IsLabel(text[pos]) THEN nextName ELSE nextName + 1
      /\ Enter(k) /\ named' = Maps(named, {l}, k)
      /\ blocks' = [bs EXCEPT ![k] = r]
  BY <1>3, <1>6, <1>7 DEF OpenBlock, Entry, linkVars
<1>10. /\ bs \in Seq(BlockRecords) /\ k \in 1 .. Len(bs)
       /\ Len(bs) = IF l \in DOMAIN named THEN n ELSE n + 1
       /\ bs[k].first = 0 /\ (l \notin DOMAIN named => bs[k].label = l)
       /\ (l \in DOMAIN named => bs[k].label = N(k))
       /\ \A c \in Block : c # k => bs[c] = blocks[c]
  <2>1. CASE l \in DOMAIN named
    BY <1>1, <1>6, <1>8, <2>1 DEF F, N
  <2>2. CASE l \notin DOMAIN named
    <3>1. /\ NewBlock(l) \in BlockRecords /\ NewBlock(l).first = 0 /\ NewBlock(l).label = l
      BY <1>4, NewBlockFacts
    <3>2. bs = Append(blocks, NewBlock(l))
      BY <2>2
    <3> HIDE DEF bs
    <3>3. /\ bs \in Seq(BlockRecords) /\ Len(bs) = n + 1
          /\ bs[n + 1] = NewBlock(l) /\ \A c \in 1 .. n : bs[c] = blocks[c]
      BY <1>1, <1>6, <3>1, <3>2, AppendFacts
    <3>4. k = n + 1 /\ k \in 1 .. n + 1
      BY <1>6, <1>8, <2>2
    <3> QED
      BY <1>1, <1>6, <2>2, <3>1, <3>3, <3>4
  <2> QED
    BY <2>1, <2>2
<1> HIDE DEF bs
<1>11. N(k) = l \/ l \notin DOMAIN named
  BY <1>7 DEF IInv, MapsInv, NamedInv
<1>12. /\ r \in BlockRecords /\ r.first = pos /\ r.last = pos /\ r.label = l
  <2>1. bs[k] \in BlockRecords
    BY <1>10
  <2>2. /\ r \in BlockRecords /\ r.last = pos /\ r.label = bs[k].label
        /\ r.first = IF bs[k].first = 0 THEN pos ELSE bs[k].first
    BY <1>1, <2>1, AddEntryFacts
  <2> QED
    BY <1>10, <1>11, <2>2
<1> HIDE DEF r
<1>13. /\ blocks' \in Seq(BlockRecords) /\ DOMAIN blocks' = 1 .. Len(bs)
       /\ \A c \in 1 .. Len(bs) : blocks'[c] = IF c = k THEN r ELSE bs[c]
  BY <1>9, <1>10, <1>12, PutBlock
<1>14. Block' = IF l \in DOMAIN named THEN Block ELSE Block \cup {k}
  <2>1. Block' = 1 .. Len(bs) /\ Block = 1 .. n
    BY ONLY <1>1, <1>6, <1>13 DEF Block
  <2>2. CASE l \in DOMAIN named
    BY ONLY <1>10, <2>1, <2>2
  <2>3. CASE l \notin DOMAIN named
    <3>1. Len(bs) = n + 1 /\ k = n + 1 /\ n \in Nat
      BY ONLY <1>6, <1>8, <1>10, <2>3
    <3>2. 1 .. n + 1 = 1 .. n \cup {n + 1}
      BY ONLY <3>1
    <3> QED
      BY ONLY <2>1, <2>3, <3>1, <3>2
  <2> QED
    BY <2>2, <2>3
<1>15. F(k)' = pos /\ L(k)' = pos /\ N(k)' = l
  <2>1. k \in 1 .. Len(bs)
    BY ONLY <1>10
  <2>2. blocks'[k] = r
    BY ONLY <2>1, <1>13
  <2> QED
    BY ONLY <1>12, <2>2 DEF F, L, N
<1>16. \A c \in Block : c # k => F(c)' = F(c) /\ L(c)' = L(c) /\ N(c)' = N(c)
  <2>1. \A c \in Block : c \in 1 .. Len(bs)
    BY <1>1, <1>6, <1>10
  <2> QED
    BY <1>10, <1>13, <2>1 DEF F, L, N
<1>17. /\ DOMAIN named' = DOMAIN named \cup {l} /\ named'[l] = k
       /\ \A m \in DOMAIN named : m # l => named'[m] = named[m]
  BY ONLY <1>9 DEF Maps
<1>18. l < nextName'
  BY <1>1, <1>3, <1>4, <1>9
<1>19. OpensAs(k, l)
  BY <1>3, <1>5, <1>7, <1>8, <1>9, <1>13, <1>14, <1>15, <1>16, <1>17 DEF OpensAs
<1> QED
  BY <1>2, <1>4, <1>8, <1>18, <1>19

LEMMA OpenBlockStep ==
  ASSUME IInv, OpenBlock
  PROVE  IInv'
PROOF
<1>0. PICK k \in Nat \ {0}, l \in Nat : Walking /\ l < nextName' /\ OpensAs(k, l)
  BY OpenBlockFacts
<1>1. /\ Enter(k) /\ text' = text /\ respect' = respect /\ targets' = targets
      /\ nextName' = IF IsLabel(text[pos]) THEN nextName ELSE nextName + 1
      /\ l = IF IsLabel(text[pos]) THEN text[pos].name ELSE nextName
      /\ DOMAIN named' = DOMAIN named \cup {l} /\ named'[l] = k
      /\ \A m \in DOMAIN named : m # l => named'[m] = named[m]
      /\ l \in DOMAIN named => IsLabel(text[pos]) /\ named[l] = k
      /\ (blocks \in Seq(BlockRecords))'
  BY <1>0 DEF OpensAs
<1>2. /\ phase = "walk" /\ pos \in DOMAIN text /\ Reached = pos - 1 /\ Reached' = pos
      /\ phase' \in {"walk", "targets"}
      /\ InTurn' => pos' = pos
      /\ pos' \in {pos, pos + 1}
      /\ current' = k
  BY <1>0, <1>1, EnterFacts
<1>3. /\ Len(text) \in Nat /\ DOMAIN text = 1 .. Len(text) /\ pos \in Nat /\ pos > 0
      /\ nextName \in Nat
      /\ \A c \in Block : F(c) \in Nat /\ L(c) \in Nat /\ In(c) = F(c) .. L(c)
  BY Facts
<1>4. /\ IF l \in DOMAIN named THEN k \in Block /\ F(k) = 0 /\ Block' = Block
         ELSE k \notin Block /\ Block' = Block \cup {k}
      /\ F(k)' = pos /\ L(k)' = pos /\ N(k)' = l
      /\ \A c \in Block : c # k => F(c)' = F(c) /\ L(c)' = L(c) /\ N(c)' = N(c)
  BY <1>0 DEF OpensAs
<1>5. Block' = Block \cup {k}
  BY <1>4
<1>6. \A c \in Block : \/ F(c) = 0 /\ L(c) = 0
                       \/ 1 <= F(c) /\ F(c) <= L(c) /\ L(c) <= pos - 1
  BY <1>2 DEF IInv, Geometry, Ranges
<1>7. \A c \in Block : c # k => In(c)' = In(c)
  BY <1>4 DEF In, F, L
<1>8. In(k)' = {pos}
  <2>1. In(k)' = pos .. pos
    BY <1>4 DEF In, F, L
  <2> QED
    BY <1>3, <2>1
<1>9. \A c \in Block : \A p \in DOMAIN text : p \in In(c) => p \in In(c)'
  <2> SUFFICES ASSUME NEW c \in Block, NEW p \in DOMAIN text, p \in In(c)
               PROVE  p \in In(c)'
    OBVIOUS
  <2>1. CASE c = k
    <3>1. F(c) = 0 /\ L(c) = 0
      BY <1>4, <1>6, <2>1
    <3>2. p \in 0 .. 0 /\ p \in 1 .. Len(text)
      BY <1>3, <3>1
    <3> QED
      BY ONLY <3>2
  <2>2. CASE c # k
    BY <1>7, <2>2
  <2> QED
    BY <2>1, <2>2
<1>10. Geometry'
  <2>1. Ranges'
    <3>1. \A c \in Block' : \/ F(c)' = 0 /\ L(c)' = 0
                            \/ 1 <= F(c)' /\ F(c)' <= L(c)' /\ L(c)' <= pos
      BY <1>3, <1>4, <1>5, <1>6
    <3> QED
      BY <1>2, <3>1 DEF Ranges
  <2>2. Apart'
    <3>1. \A b, c \in Block : b # c /\ F(b) # 0 /\ F(c) # 0 => L(b) < F(c) \/ L(c) < F(b)
      BY DEF IInv, Geometry, Apart
    <3>2. \A c \in Block : c # k => L(c)' < F(k)'
      BY <1>3, <1>4, <1>6
    <3>3. \A b, c \in Block' :
            b # c /\ F(b)' # 0 /\ F(c)' # 0 => L(b)' < F(c)' \/ L(c)' < F(b)'
      BY ONLY <1>4, <1>5, <3>1, <3>2
    <3> QED
      BY <3>3 DEF Apart
  <2>3. Covered'
    <3> SUFFICES ASSUME NEW p \in 1 .. pos, BelongsInBasicBlock(text[p])
                 PROVE  \E b \in Block' : p \in In(b)'
      BY <1>1, <1>2 DEF Covered
    <3>1. CASE p = pos
      BY <1>5, <1>8, <3>1
    <3>2. CASE p # pos
      <4>1. p \in 1 .. Reached /\ p \in DOMAIN text
        BY <1>2, <1>3, <3>2
      <4>2. PICK b \in Block : p \in In(b)
        BY <4>1 DEF IInv, Geometry, Covered
      <4> QED
        BY <1>5, <1>9, <4>1, <4>2
    <3> QED
      BY <3>1, <3>2
  <2>4. CurrentInv'
    <3>1. F(current)' = F(k)' /\ L(current)' = L(k)'
      BY <1>2 DEF F, L
    <3>2. \A c \in Block' : c # k => L(c)' < pos
      BY <1>3, <1>4, <1>5, <1>6
    <3> QED
      BY <1>0, <1>2, <1>3, <1>4, <3>1, <3>2 DEF CurrentInv, NONE
  <2> QED
    BY <2>1, <2>2, <2>3, <2>4 DEF Geometry
<1>11. ~IsLabel(text[pos]) => \A p \in DOMAIN text : ~Named(p, l)
  <2> SUFFICES ASSUME ~IsLabel(text[pos]), NEW p \in DOMAIN text, Named(p, l) PROVE FALSE
    OBVIOUS
  <2>1. text[p].name = nextName /\ text[p].name < nextName
    BY <1>1, EntryFacts DEF Named
  <2> QED
    BY <1>3, <2>1
<1>12. LabelInv' /\ KnownInv' /\ \A m \in DOMAIN labelToBB' : labelToBB'[m] \in Block'
  <2>1. k \in Block' /\ Block \subseteq Block' /\ pos \in In(k)'
    BY <1>5, <1>8
  <2>2. IsLabel(text[pos]) /\ text[pos].name \in DOMAIN named' => named'[text[pos].name] = k
    BY <1>1
  <2>3. \A m \in DOMAIN labelToBB :
          m \in DOMAIN named' => \/ IsLabel(text[pos]) /\ m = text[pos].name
                                 \/ m \in DOMAIN named /\ named'[m] = named[m]
    <3> SUFFICES ASSUME NEW m \in DOMAIN labelToBB, m \in DOMAIN named'
                 PROVE  \/ IsLabel(text[pos]) /\ m = text[pos].name
                        \/ m \in DOMAIN named /\ named'[m] = named[m]
      OBVIOUS
    <3>1. CASE m # l
      BY <1>1, <3>1
    <3>2. CASE m = l
      <4>1. \E p \in DOMAIN text : Named(p, m)
        BY DEF IInv, MapsInv, LabelInv
      <4> QED
        BY <1>1, <1>11, <3>2, <4>1
    <3> QED
      BY <3>1, <3>2
  <2> QED
    BY <1>0, <1>1, <1>9, <2>1, <2>2, <2>3, EnterLabels
<1>13. NamedInv'
  <2> SUFFICES ASSUME NEW m \in DOMAIN named', NEW b, b = named'[m]
               PROVE  /\ N(b)' = m
                      /\ F(b)' # 0 =>
                           IF IsLabel(text[F(b)']) THEN text[F(b)'].name = m
                           ELSE \A p \in DOMAIN text : ~Named(p, m)
    BY <1>1 DEF NamedInv, Named, F, N
  <2>1. CASE m = l
    BY <1>1, <1>4, <1>11, <2>1
  <2>2. CASE m # l
    <3>1. m \in DOMAIN named /\ b = named[m] /\ b \in Block /\ N(b) = m
      BY <1>1, <2>2 DEF IInv, NamesInv, MapsInv, NamedInv
    <3>2. b # k
      <4>1. l \in DOMAIN named => N(k) = l
        BY <1>1 DEF IInv, MapsInv, NamedInv
      <4> QED
        BY <1>4, <2>2, <3>1, <4>1
    <3>3. F(b)' = F(b) /\ N(b)' = N(b)
      BY <1>4, <3>1, <3>2
    <3> QED
      BY <3>1, <3>3 DEF IInv, MapsInv, NamedInv
  <2> QED
    BY <2>1, <2>2
<1>14. HeadInv'
  <2> SUFFICES ASSUME NEW b \in Block', F(b)' # 0, IsLabel(text[F(b)'])
               PROVE  text[F(b)'].name \in DOMAIN named' /\ named'[text[F(b)'].name] = b
    BY <1>1 DEF HeadInv
  <2>1. CASE b = k
    BY <1>1, <1>4, <2>1
  <2>2. CASE b # k
    <3>1. b \in Block /\ F(b)' = F(b)
      BY <1>4, <1>5, <2>2
    <3>2. text[F(b)].name \in DOMAIN named /\ named[text[F(b)].name] = b
      BY <3>1 DEF IInv, MapsInv, HeadInv
    <3>3. text[F(b)].name # l
      BY <1>1, <2>2, <3>2
    <3> QED
      BY <1>1, <3>1, <3>2, <3>3
  <2> QED
    BY <2>1, <2>2
<1>15. RespectInv'
  <2> SUFFICES ASSUME respect, NEW b \in Block', NEW p \in In(b)', p \in DOMAIN text,
                      IsLabel(text[p])
               PROVE  p = F(b)'
    BY <1>1 DEF RespectInv
  <2>1. CASE b = k
    BY <1>4, <1>8, <2>1
  <2>2. CASE b # k
    BY <1>4, <1>5, <1>7, <2>2 DEF IInv, MapsInv, RespectInv
  <2> QED
    BY <2>1, <2>2
<1>16. nextName' \in Nat /\ nextName <= nextName'
  BY <1>1, <1>3
<1>17. TextInv' /\ PatternInv'
  <2>1. text \in Seq(EntriesBelow(nextName'))
    <3>1. EntriesBelow(nextName) \subseteq EntriesBelow(nextName')
      BY <1>3, <1>16 DEF EntriesBelow
    <3>2. text \in Seq(EntriesBelow(nextName))
      BY DEF IInv, TextInv
    <3> HIDE DEF EntriesBelow
    <3> QED
      BY <3>1, <3>2
  <2>2. FirstFresh <= nextName'
    BY <1>3, <1>16, FreshAssumption DEF IInv, TextInv
  <2>3. TextInv'
    BY <1>1, <1>16, <2>1, <2>2 DEF IInv, TextInv, OneLabelEach, EntriesBelow
  <2> QED
    BY <1>2, <2>3 DEF PatternInv
<1>18. StateTypes'
  <2>1. pos' \in 1 .. Len(text) + 1 /\ (InTurn' \/ phase' = "finish" => pos' \in DOMAIN text)
    BY <1>2, <1>3 DEF InTurn
  <2> QED
    BY <1>1, <1>2, <1>5, <2>1 DEF StateTypes, Phases
<1>19. NamesInv'
  <2>1. \A m \in DOMAIN named' : m \in Nat /\ m < nextName' /\ named'[m] \in Block'
    BY <1>0, <1>1, <1>3, <1>5, <1>16 DEF IInv, NamesInv
  <2>2. targets \in Seq(0 .. nextName' - 1)
    <3>1. targets \in Seq(0 .. nextName - 1)
      BY DEF IInv, NamesInv
    <3> QED
      BY ONLY <1>3, <1>16, <3>1
  <2> QED
    BY <1>1, <1>12, <2>1, <2>2 DEF NamesInv
<1> QED
  BY <1>10, <1>12, <1>13, <1>14, <1>15, <1>17, <1>18, <1>19 DEF IInv, MapsInv

-----------------------------------------------------------------------------
(* A jump into a block.                                                    *)

\* Where the target is.
LEMMA InsideFacts ==
  ASSUME IInv, NEW t \in DOMAIN labelToBB, t \notin DOMAIN named,
         NEW b, b = labelToBB[t], NEW p, p = CHOOSE q \in PlaceOf(t) : TRUE
  PROVE  /\ b \in Block /\ p \in DOMAIN text /\ Named(p, t)
         /\ F(b) # 0 /\ F(b) < p /\ p <= L(b) /\ ~respect
PROOF
<1>1. b \in Block
  BY DEF IInv, NamesInv
<1>2. PICK q \in DOMAIN text : q \in In(b) /\ Named(q, t)
  BY DEF IInv, MapsInv, LabelInv
<1>3. p \in PlaceOf(t)
  BY <1>2 DEF PlaceOf, Named
<1>4. p \in DOMAIN text /\ Named(p, t) /\ p = q
  BY <1>2, <1>3, PlaceLemma DEF PlaceOf, Named
<1>5. /\ F(b) \in Nat /\ L(b) \in Nat /\ In(b) = F(b) .. L(b) /\ p \in Nat /\ p > 0
  BY <1>1, <1>4, Facts, EntryFacts
<1>6. F(b) <= p /\ p <= L(b) /\ F(b) # 0
  <2>1. \/ F(b) = 0 /\ L(b) = 0
        \/ 1 <= F(b) /\ F(b) <= L(b)
    BY <1>1 DEF IInv, Geometry, Ranges
  <2>2. p \in F(b) .. L(b)
    BY <1>2, <1>4, <1>5
  <2> QED
    BY ONLY <1>5, <2>1, <2>2
<1>7. F(b) # p
  <2>1. F(b) = p => t \in DOMAIN named
    BY <1>1, <1>4, <1>6 DEF IInv, MapsInv, HeadInv, Named
  <2> QED
    BY <2>1
<1>8. ~respect
  BY <1>1, <1>2, <1>4, <1>7 DEF IInv, MapsInv, RespectInv, Named
<1> QED
  BY <1>1, <1>4, <1>5, <1>6, <1>7, <1>8

\* LinkInside's part in the blocks and in the names.
BreaksAs(n, t, b, p) ==
  /\ phase = "link" /\ phase' = "link" /\ pos' = pos /\ pos \in DOMAIN text
  /\ text' = text /\ nextName' = nextName /\ ~respect /\ respect' = respect
  /\ InTurn /\ InTurn' /\ Reached = pos /\ Reached' = pos /\ current # NONE
  /\ t < nextName
  /\ targets' \in Seq(0 .. nextName - 1)
  /\ t \in DOMAIN labelToBB /\ t \notin DOMAIN named
  /\ b \in Block /\ p \in DOMAIN text /\ Named(p, t)
  /\ F(b) # 0 /\ F(b) < p /\ p <= L(b)
  /\ Block = 1 .. n /\ Block' = 1 .. n + 1 /\ (blocks \in Seq(BlockRecords))'
  /\ F(n + 1)' = p /\ L(n + 1)' = L(b) /\ N(n + 1)' = t
  /\ L(b)' = p - 1
  /\ \A c \in 1 .. n : F(c)' = F(c) /\ N(c)' = N(c) /\ (c # b => L(c)' = L(c))
  /\ DOMAIN named' = DOMAIN named \cup {t} /\ named'[t] = n + 1
  /\ \A l \in DOMAIN named : l # t /\ named'[l] = named[l] /\ named[l] \in 1 .. n
  /\ labelToBB' = Maps(labelToBB, MovedLabels(p, L(b)), n + 1)
  /\ current' = IF b = current THEN n + 1 ELSE current

LEMMA LinkInsideFacts ==
  ASSUME IInv, LinkInside
  PROVE  \E n \in Nat, t \in Nat, b \in Nat, p \in Nat : BreaksAs(n, t, b, p)
PROOF
<1>0. PICK n \in Nat : n = Len(blocks)
  BY Facts
<1>1. PICK t : t = Target
  OBVIOUS
<1>2. PICK b : b = labelToBB[t]
  OBVIOUS
<1>3. PICK p : p = CHOOSE q \in PlaceOf(t) : TRUE
  OBVIOUS
<1>4. /\ Linking /\ LinkTo(n + 1, BreakUp(b, t, p), BreakUpEdges(b, n + 1))
      /\ t \notin DOMAIN named /\ t \in DOMAIN labelToBB
      /\ named' = Maps(named, {t}, n + 1)
      /\ labelToBB' = Maps(labelToBB, MovedLabels(p, blocks[b].last), n + 1)
      /\ current' = CurrentAfter(b, n + 1)
  BY <1>0, <1>1, <1>2, <1>3 DEF LinkInside
<1>5. /\ phase = "link" /\ phase' = "link" /\ pos' = pos /\ pos \in DOMAIN text
      /\ text' = text /\ nextName' = nextName /\ respect' = respect
      /\ InTurn /\ InTurn' /\ Reached = pos /\ Reached' = pos /\ current # NONE
      /\ t \in Nat /\ t < nextName
      /\ targets' \in Seq(0 .. nextName - 1)
      /\ blocks' = Chain(n + 1, BreakUp(b, t, p)) /\ blocks \in Seq(BlockRecords)
  BY <1>1, <1>4, LinkFacts
<1>6. /\ b \in Block /\ p \in DOMAIN text /\ Named(p, t)
      /\ F(b) # 0 /\ F(b) < p /\ p <= L(b) /\ ~respect
  BY <1>2, <1>3, <1>4, InsideFacts
<1>7. /\ Block = 1 .. n /\ p \in Nat /\ p > 0 /\ b \in 1 .. n /\ L(b) \in Nat /\ b \in Nat
  BY <1>0, <1>6, Facts, EntryFacts
<1> DEFINE q == p - 1
           half == [blocks[b] EXCEPT !.last = q]
           bs == [blocks EXCEPT ![b] = half]
           r == [NewBlock(t) EXCEPT !.first = p, !.last = L(b)]
           cs == Append(bs, r)
<1>8. BreakUp(b, t, p) = cs
  BY DEF BreakUp, L
<1>9. /\ half \in BlockRecords /\ half.first = F(b) /\ half.last = p - 1 /\ half.label = N(b)
  <2>1. blocks[b] \in BlockRecords
    BY <1>0, <1>5, <1>7
  <2> QED
    BY <1>7, <2>1 DEF BlockRecords, F, N
<1>10. r \in BlockRecords /\ r.first = p /\ r.last = L(b) /\ r.label = t
  BY <1>5, <1>7 DEF NewBlock, BlockRecords, NONE
<1> HIDE DEF half, r
<1>11. /\ bs \in Seq(BlockRecords) /\ Len(bs) = n
       /\ \A c \in 1 .. n : bs[c] = IF c = b THEN half ELSE blocks[c]
  BY <1>0, <1>5, <1>7, <1>9, PutBlock
<1> HIDE DEF bs
<1>12. /\ cs \in Seq(BlockRecords) /\ Len(cs) = n + 1 /\ cs[n + 1] = r
       /\ \A c \in 1 .. n : cs[c] = bs[c]
  BY <1>0, <1>10, <1>11, AppendFacts
<1> HIDE DEF cs
<1>13. n + 1 \in 1 .. Len(cs) /\ \A c \in 1 .. n : c \in 1 .. Len(cs)
  BY ONLY <1>0, <1>12
<1>14. /\ blocks' \in Seq(BlockRecords) /\ DOMAIN blocks' = 1 .. n + 1
       /\ \A c \in 1 .. Len(cs) :
            /\ blocks'[c].first = cs[c].first /\ blocks'[c].last = cs[c].last
            /\ blocks'[c].label = cs[c].label
  <2> DEFINE k == n + 1
  <2>1. blocks' = Chain(k, cs) /\ k \in 1 .. Len(cs)
    BY <1>5, <1>8, <1>13
  <2> HIDE DEF k
  <2>2. /\ blocks' \in Seq(BlockRecords) /\ DOMAIN blocks' = 1 .. Len(cs)
        /\ \A c \in 1 .. Len(cs) :
             /\ blocks'[c].first = cs[c].first /\ blocks'[c].last = cs[c].last
             /\ blocks'[c].label = cs[c].label
    BY <1>12, <2>1, ChainFacts
  <2> QED
    BY <1>12, <2>2
<1>15. F(n + 1)' = p /\ L(n + 1)' = L(b) /\ N(n + 1)' = t
  <2> DEFINE k == n + 1
  <2>1. k \in 1 .. Len(cs) /\ cs[k] = r
    BY <1>12, <1>13
  <2>2. blocks'[k].first = p /\ blocks'[k].last = L(b) /\ blocks'[k].label = t
    BY <1>10, <1>14, <2>1
  <2> QED
    BY <2>2 DEF F, L, N
<1>16. \A c \in 1 .. n : F(c)' = F(c) /\ N(c)' = N(c) /\ (c # b => L(c)' = L(c))
  <2> SUFFICES ASSUME NEW c \in 1 .. n
               PROVE  /\ blocks'[c].first = blocks[c].first
                      /\ blocks'[c].label = blocks[c].label
                      /\ c # b => blocks'[c].last = blocks[c].last
    BY DEF F, L, N
  <2>1. cs[c] = IF c = b THEN half ELSE blocks[c]
    BY <1>11, <1>12
  <2> QED
    BY <1>9, <1>13, <1>14, <2>1 DEF F, N
<1>17. L(b)' = p - 1
  <2>1. cs[b] = half
    BY <1>7, <1>11, <1>12
  <2>2. blocks'[b].last = p - 1
    BY <1>7, <1>9, <1>13, <1>14, <2>1
  <2> QED
    BY <2>2 DEF L
<1>18. /\ DOMAIN named' = DOMAIN named \cup {t} /\ named'[t] = n + 1
       /\ \A l \in DOMAIN named : l # t /\ named'[l] = named[l] /\ named[l] \in 1 .. n
  <2>1. \A l \in DOMAIN named : l # t /\ named[l] \in 1 .. n
    BY <1>4, <1>7 DEF IInv, NamesInv
  <2>2. \A l \in DOMAIN named : l \notin {t}
    BY <2>1
  <2> DEFINE k == n + 1
  <2>3. named' = Maps(named, {t}, k)
    BY <1>4
  <2> HIDE DEF k
  <2>4. /\ DOMAIN named' = DOMAIN named \cup {t} /\ named'[t] = k
        /\ \A l \in DOMAIN named : named'[l] = named[l]
    BY ONLY <2>2, <2>3 DEF Maps
  <2> QED
    BY <2>1, <2>4 DEF k
<1>19. Block' = 1 .. n + 1
  BY <1>14 DEF Block
<1>20. /\ labelToBB' = Maps(labelToBB, MovedLabels(p, L(b)), n + 1)
       /\ current' = IF b = current THEN n + 1 ELSE current
  BY <1>4 DEF L, CurrentAfter
<1>21. BreaksAs(n, t, b, p)
  BY <1>4, <1>5, <1>6, <1>7, <1>14, <1>15, <1>16, <1>17, <1>18, <1>19, <1>20 DEF BreaksAs
<1> QED
  BY <1>5, <1>7, <1>21

LEMMA LinkInsideStep ==
  ASSUME IInv, LinkInside
  PROVE  IInv'
PROOF
<1>0. PICK n \in Nat, t \in Nat, b \in Nat, p \in Nat : BreaksAs(n, t, b, p)
  BY LinkInsideFacts
<1>1. /\ phase = "link" /\ phase' = "link" /\ pos' = pos /\ pos \in DOMAIN text
      /\ text' = text /\ nextName' = nextName /\ ~respect /\ respect' = respect
      /\ InTurn /\ InTurn' /\ Reached = pos /\ Reached' = pos /\ current # NONE
      /\ t < nextName
      /\ targets' \in Seq(0 .. nextName - 1)
      /\ t \in DOMAIN labelToBB /\ t \notin DOMAIN named
      /\ p \in DOMAIN text /\ Named(p, t) /\ (blocks \in Seq(BlockRecords))'
      /\ labelToBB' = Maps(labelToBB, MovedLabels(p, L(b)), n + 1)
      /\ current' = IF b = current THEN n + 1 ELSE current
  BY <1>0 DEF BreaksAs
<1>2. /\ b \in 1 .. n /\ F(b) # 0 /\ F(b) < p /\ p <= L(b)
      /\ Block = 1 .. n /\ Block' = 1 .. n + 1
      /\ F(n + 1)' = p /\ L(n + 1)' = L(b) /\ N(n + 1)' = t
      /\ L(b)' = p - 1
      /\ \A c \in 1 .. n : F(c)' = F(c) /\ N(c)' = N(c) /\ (c # b => L(c)' = L(c))
  BY <1>0 DEF BreaksAs
<1>3. /\ DOMAIN named' = DOMAIN named \cup {t} /\ named'[t] = n + 1
      /\ \A l \in DOMAIN named : l # t /\ named'[l] = named[l] /\ named[l] \in 1 .. n
  BY <1>0 DEF BreaksAs
<1>4. /\ Len(text) \in Nat /\ DOMAIN text = 1 .. Len(text) /\ pos \in Nat /\ nextName \in Nat
      /\ current \in 1 .. n
      /\ \A c \in 1 .. n : F(c) \in Nat /\ L(c) \in Nat /\ In(c) = F(c) .. L(c)
  BY <1>1, <1>2, Facts
<1>5. \A c \in 1 .. n + 1 : c = n + 1 \/ c \in 1 .. n
  OBVIOUS
<1>6. In(n + 1)' = p .. L(b) /\ In(b)' = F(b) .. p - 1 /\ In(b) = F(b) .. L(b)
  BY <1>2, <1>4 DEF In, F, L
<1>7. \A c \in 1 .. n : c # b => In(c)' = In(c)
  BY <1>2 DEF In, F, L
<1>8. \A q \in In(b) : q \in In(b)' \/ q \in In(n + 1)'
  BY ONLY <1>2, <1>4, <1>6
<1>9. Geometry'
  <2>1. Ranges'
    <3>1. \A c \in 1 .. n : \/ F(c) = 0 /\ L(c) = 0
                            \/ 1 <= F(c) /\ F(c) <= L(c) /\ L(c) <= pos
      BY <1>1, <1>2 DEF IInv, Geometry, Ranges
    <3>2. \A c \in 1 .. n + 1 : \/ F(c)' = 0 /\ L(c)' = 0
                                \/ 1 <= F(c)' /\ F(c)' <= L(c)' /\ L(c)' <= pos
      <4> SUFFICES ASSUME NEW c \in 1 .. n + 1
                   PROVE  \/ F(c)' = 0 /\ L(c)' = 0
                          \/ 1 <= F(c)' /\ F(c)' <= L(c)' /\ L(c)' <= pos
        OBVIOUS
      <4>1. CASE c = n + 1
        <5>1. F(c)' = p /\ L(c)' = L(b)
          BY <1>2, <4>1 DEF F, L
        <5>2. L(b) <= pos /\ p <= L(b) /\ 1 <= p
          BY <1>1, <1>2, <1>4, <3>1
        <5> QED
          BY ONLY <5>1, <5>2
      <4>2. CASE c = b
        BY <1>2, <1>4, <3>1, <4>2
      <4>3. CASE c # b /\ c \in 1 .. n
        BY <1>2, <3>1, <4>3
      <4> QED
        BY <1>5, <4>1, <4>2, <4>3
    <3> QED
      BY <1>1, <1>2, <3>2 DEF Ranges
  <2>2. Apart'
    <3>1. \A c, d \in 1 .. n : c # d /\ F(c) # 0 /\ F(d) # 0 => L(c) < F(d) \/ L(d) < F(c)
      BY <1>2 DEF IInv, Geometry, Apart
    <3>2. \A c, d \in 1 .. n : c # d /\ F(c)' # 0 /\ F(d)' # 0 => L(c)' < F(d)' \/ L(d)' < F(c)'
      <4>1. \A c \in 1 .. n : F(c)' = F(c) /\ L(c)' <= L(c) /\ L(c)' \in Int
        BY <1>2, <1>4
      <4> QED
        BY ONLY <1>4, <3>1, <4>1
    <3>3. \A c \in 1 .. n : F(c)' # 0 => L(c)' < p \/ L(b) < F(c)'
      <4> SUFFICES ASSUME NEW c \in 1 .. n, F(c) # 0
                   PROVE  L(c)' < p \/ L(b) < F(c)
        BY <1>2
      <4>1. CASE c = b
        BY <1>2, <1>4, <4>1
      <4>2. CASE c # b
        <5>1. L(c) < F(b) \/ L(b) < F(c)
          BY <1>2, <3>1, <4>2
        <5>2. L(c)' = L(c)
          BY <1>2, <4>2
        <5>3. F(c) \in Nat /\ L(c) \in Nat /\ F(b) \in Nat
          BY <1>2, <1>4
        <5> QED
          BY ONLY <1>2, <5>1, <5>2, <5>3, p \in Nat
      <4> QED
        BY <4>1, <4>2
    <3>4. \A c, d \in 1 .. n + 1 :
            c # d /\ F(c)' # 0 /\ F(d)' # 0 => L(c)' < F(d)' \/ L(d)' < F(c)'
      <4> SUFFICES ASSUME NEW c \in 1 .. n + 1, NEW d \in 1 .. n + 1, c # d,
                          F(c)' # 0, F(d)' # 0
                   PROVE  L(c)' < F(d)' \/ L(d)' < F(c)'
        OBVIOUS
      <4>1. CASE c \in 1 .. n /\ d \in 1 .. n
        BY <3>2, <4>1
      <4>2. CASE c = n + 1 /\ d \in 1 .. n
        BY <1>2, <3>3, <4>2 DEF F, L
      <4>3. CASE d = n + 1 /\ c \in 1 .. n
        BY <1>2, <3>3, <4>3 DEF F, L
      <4> QED
        BY <1>5, <4>1, <4>2, <4>3
    <3> QED
      BY <1>2, <3>4 DEF Apart
  <2>3. Covered'
    <3> SUFFICES ASSUME NEW q \in 1 .. pos, BelongsInBasicBlock(text[q])
                 PROVE  \E c \in 1 .. n + 1 : q \in In(c)'
      BY <1>1, <1>2 DEF Covered
    <3>1. PICK c \in 1 .. n : q \in In(c)
      BY <1>1, <1>2 DEF IInv, Geometry, Covered
    <3>2. c \in 1 .. n + 1 /\ n + 1 \in 1 .. n + 1
      OBVIOUS
    <3> QED
      BY <1>7, <1>8, <3>1, <3>2
  <2>4. CurrentInv'
    <3>1. /\ F(current) # 0 /\ L(current) = pos
          /\ \A c \in 1 .. n : c # current => L(c) < F(current)
      BY <1>1, <1>2 DEF IInv, Geometry, CurrentInv
    <3>2. CASE b = current
      <4>1. current' = n + 1
        BY <1>1, <3>2
      <4>2. F(current)' = p /\ L(current)' = pos
        BY <1>2, <3>1, <3>2, <4>1 DEF F, L
      <4>3. \A c \in 1 .. n : L(c)' < p
        <5> SUFFICES ASSUME NEW c \in 1 .. n PROVE L(c)' < p
          OBVIOUS
        <5>1. CASE c = b
          BY <1>2, <5>1
        <5>2. CASE c # b
          <6>1. L(c)' = L(c) /\ L(c) < F(b) /\ F(b) < p
            BY <1>2, <3>1, <3>2, <5>2
          <6>2. L(c) \in Nat /\ F(b) \in Nat
            BY <1>2, <1>4
          <6> QED
            BY ONLY <6>1, <6>2, p \in Nat
        <5> QED
          BY <5>1, <5>2
      <4>4. \A c \in 1 .. n + 1 : c # n + 1 => c \in 1 .. n
        BY <1>5
      <4>5. p # 0 /\ n + 1 # 0
        BY <1>1, <1>4
      <4> QED
        BY <1>1, <1>2, <4>1, <4>2, <4>3, <4>4, <4>5 DEF CurrentInv, NONE
    <3>3. CASE b # current
      <4>1. current' = current
        BY <1>1, <3>3
      <4>2. F(current)' = F(current) /\ L(current)' = pos
        BY <1>2, <1>4, <3>1, <3>3, <4>1 DEF F, L
      <4>3. \A c \in 1 .. n + 1 : c # current => L(c)' < F(current)
        <5> SUFFICES ASSUME NEW c \in 1 .. n + 1, c # current PROVE L(c)' < F(current)
          OBVIOUS
        <5>1. L(b) < F(current)
          BY <1>2, <3>1, <3>3
        <5>2. CASE c = n + 1
          BY <1>2, <5>1, <5>2 DEF L
        <5>3. CASE c = b
          <6>1. L(c)' = p - 1 /\ p <= L(b)
            BY <1>2, <5>3
          <6>2. L(b) \in Nat /\ F(current) \in Nat
            BY <1>2, <1>4
          <6> QED
            BY ONLY <5>1, <6>1, <6>2, p \in Nat
        <5>4. CASE c # b /\ c \in 1 .. n
          BY <1>2, <3>1, <5>4
        <5> QED
          BY <1>5, <5>2, <5>3, <5>4
      <4> QED
        BY <1>1, <1>2, <3>1, <4>1, <4>2, <4>3 DEF CurrentInv
    <3> QED
      BY <3>2, <3>3
  <2> QED
    BY <2>1, <2>2, <2>3, <2>4 DEF Geometry
<1>10. NamedInv'
  <2> SUFFICES ASSUME NEW l \in DOMAIN named', NEW c, c = named'[l]
               PROVE  /\ N(c)' = l
                      /\ F(c)' # 0 =>
                           IF IsLabel(text[F(c)']) THEN text[F(c)'].name = l
                           ELSE \A q \in DOMAIN text : ~Named(q, l)
    BY <1>1 DEF NamedInv, Named, F, N
  <2>1. CASE l = t
    <3>1. c = n + 1
      BY <1>3, <2>1
    <3>2. F(c)' = p /\ N(c)' = t
      BY <1>2, <3>1 DEF F, N
    <3> QED
      BY <1>1, <2>1, <3>2 DEF Named
  <2>2. CASE l \in DOMAIN named
    <3>1. c = named[l] /\ c \in 1 .. n
      BY <1>3, <2>2
    <3>2. F(c)' = F(c) /\ N(c)' = N(c)
      BY <1>2, <3>1
    <3> QED
      BY <2>2, <3>1, <3>2 DEF IInv, MapsInv, NamedInv
  <2> QED
    BY <1>3, <2>1, <2>2
<1>11. HeadInv'
  <2> SUFFICES ASSUME NEW c \in 1 .. n + 1, F(c)' # 0, IsLabel(text[F(c)'])
               PROVE  text[F(c)'].name \in DOMAIN named' /\ named'[text[F(c)'].name] = c
    BY <1>1, <1>2 DEF HeadInv
  <2>1. CASE c = n + 1
    <3>1. F(c)' = p
      BY <1>2, <2>1 DEF F
    <3> QED
      BY <1>1, <1>3, <2>1, <3>1 DEF Named
  <2>2. CASE c \in 1 .. n
    <3>1. F(c)' = F(c) /\ c \in Block
      BY <1>2, <2>2
    <3>2. text[F(c)].name \in DOMAIN named /\ named[text[F(c)].name] = c
      BY <3>1 DEF IInv, MapsInv, HeadInv
    <3> QED
      BY <1>3, <3>1, <3>2
  <2> QED
    BY <1>5, <2>1, <2>2
\* The labels of the second half that had a block had this one, and head none.
<1>12. ASSUME NEW q \in p .. L(b), IsLabel(text[q]), NEW l, l = text[q].name
       PROVE  q \in DOMAIN text /\ l \in DOMAIN labelToBB /\ labelToBB[l] = b /\ l \notin DOMAIN named
  <2>1. L(b) <= pos /\ L(b) \in Nat /\ pos <= Len(text) /\ F(b) \in Nat
    BY <1>1, <1>2, <1>4 DEF IInv, Geometry, Ranges
  <2>2. q \in Nat /\ p <= q /\ q <= L(b) /\ 1 <= p
    BY <1>1, <1>4, <2>1
  <2>3. q \in 1 .. Reached /\ q \in DOMAIN text
    <3>1. q \in 1 .. pos
      BY ONLY <1>4, <2>1, <2>2
    <3>2. q \in 1 .. Len(text)
      BY ONLY <1>4, <2>1, <2>2
    <3> QED
      BY ONLY <1>1, <1>4, <3>1, <3>2
  <2>4. l \in DOMAIN labelToBB
    BY <1>12, <2>3 DEF IInv, KnownInv
  <2>5. PICK r \in DOMAIN text : r \in In(labelToBB[l]) /\ Named(r, l)
    BY <2>4 DEF IInv, MapsInv, LabelInv
  <2>6. r = q
    BY <1>12, <2>3, <2>5, PlaceLemma DEF Named
  <2>7. labelToBB[l] = b
    <3> DEFINE c == labelToBB[l]
    <3>1. c \in 1 .. n
      BY <1>2, <2>4 DEF IInv, NamesInv
    <3>2. q \in F(c) .. L(c) /\ F(c) \in Nat /\ L(c) \in Nat
      BY <1>4, <2>5, <2>6, <3>1
    <3>3. c # b /\ F(c) # 0 => L(c) < F(b) \/ L(b) < F(c)
      BY <1>2, <3>1 DEF IInv, Geometry, Apart
    <3>4. F(c) = 0 => L(c) = 0
      BY <1>2, <3>1 DEF IInv, Geometry, Ranges
    <3> HIDE DEF c
    <3>5. c = b
      <4>1. F(b) < p /\ p <= L(b) /\ p \in Nat
        BY <1>2
      <4>2. F(c) # 0
        BY ONLY <2>2, <3>2, <3>4, <4>1
      <4> QED
        BY ONLY <2>1, <2>2, <3>2, <3>3, <4>1, <4>2
    <3> QED
      BY <3>5 DEF c
  <2>8. l \notin DOMAIN named
    <3> SUFFICES ASSUME l \in DOMAIN named PROVE FALSE
      OBVIOUS
    <3>1. named[l] = b
      BY <2>4, <2>7 DEF IInv, MapsInv, LabelInv
    <3>2. IF IsLabel(text[F(b)]) THEN text[F(b)].name = l
          ELSE \A r_1 \in DOMAIN text : ~Named(r_1, l)
      BY <1>2, <3>1 DEF IInv, MapsInv, NamedInv
    <3>3. Named(q, l)
      BY <1>12 DEF Named
    <3>4. Named(F(b), l)
      BY <2>3, <3>2, <3>3 DEF Named
    <3>5. F(b) \in DOMAIN text
      BY <1>2, <1>4, <2>1, <2>2
    <3>6. F(b) = q
      BY <2>3, <3>3, <3>4, <3>5, PlaceLemma
    <3> QED
      BY ONLY <1>2, <2>1, <2>2, <3>6, p \in Nat
  <2> QED
    BY <2>3, <2>4, <2>7, <2>8
<1>13. /\ DOMAIN labelToBB' = DOMAIN labelToBB
       /\ \A l \in DOMAIN labelToBB :
            \/ /\ labelToBB'[l] = n + 1
               /\ \E q \in p .. L(b) : IsLabel(text[q]) /\ l = text[q].name
            \/ /\ labelToBB'[l] = labelToBB[l]
               /\ ~\E q \in p .. L(b) : IsLabel(text[q]) /\ l = text[q].name
  <2> DEFINE M == MovedLabels(p, L(b))
             k == n + 1
  <2>1. \A l : l \in M <=> \E q \in p .. L(b) : IsLabel(text[q]) /\ l = text[q].name
    BY DEF MovedLabels
  <2>2. labelToBB' = Maps(labelToBB, M, k)
    BY <1>1
  <2>3. M \subseteq DOMAIN labelToBB
    BY <1>12, <2>1
  <2> HIDE DEF M, k
  <2>4. /\ DOMAIN labelToBB' = DOMAIN labelToBB
        /\ \A l \in DOMAIN labelToBB : labelToBB'[l] = IF l \in M THEN k ELSE labelToBB[l]
    BY ONLY <2>2, <2>3 DEF Maps
  <2> QED
    BY <2>1, <2>4 DEF k
<1>14. LabelInv'
  <2> SUFFICES ASSUME NEW l \in DOMAIN labelToBB, NEW c, c = labelToBB'[l]
               PROVE  /\ \E q \in DOMAIN text : q \in In(c)' /\ Named(q, l)
                      /\ l \in DOMAIN named' => named'[l] = c
    <3>1. \A l \in DOMAIN labelToBB' :
            /\ \E q \in DOMAIN text : /\ q \in blocks'[labelToBB'[l]].first ..
                                             blocks'[labelToBB'[l]].last
                                      /\ Named(q, l)
            /\ l \in DOMAIN named' => named'[l] = labelToBB'[l]
      BY <1>13 DEF In
    <3> QED
      BY <1>1, <3>1 DEF LabelInv, Named, In
  <2>1. CASE c = n + 1 /\ \E q \in p .. L(b) : IsLabel(text[q]) /\ l = text[q].name
    <3>1. PICK q \in p .. L(b) : IsLabel(text[q]) /\ l = text[q].name
      BY <2>1
    <3>2. q \in DOMAIN text /\ l \notin DOMAIN named
      BY <1>12, <3>1
    <3>3. q \in In(c)'
      BY <1>6, <2>1 DEF In
    <3> QED
      BY <1>3, <2>1, <3>1, <3>2, <3>3 DEF Named
  <2>2. CASE /\ c = labelToBB[l]
             /\ ~\E q \in p .. L(b) : IsLabel(text[q]) /\ l = text[q].name
    <3>1. PICK q \in DOMAIN text : q \in In(c) /\ Named(q, l)
      BY <2>2 DEF IInv, MapsInv, LabelInv
    <3>2. c \in 1 .. n
      BY <1>2, <2>2 DEF IInv, NamesInv
    <3>3. q \in In(c)'
      <4>1. CASE c = b
        <5>1. q \notin p .. L(b) /\ q \in F(b) .. L(b)
          BY <1>6, <2>2, <3>1, <4>1 DEF Named
        <5>2. q \in F(b) .. p - 1
          BY ONLY <1>2, <1>4, <5>1, p \in Nat
        <5> QED
          BY <1>6, <4>1, <5>2
      <4>2. CASE c # b
        BY <1>7, <3>1, <3>2, <4>2
      <4> QED
        BY <4>1, <4>2
    <3>4. l # t
      <4>1. p \in p .. L(b)
        BY <1>2, <1>4
      <4> QED
        BY <1>1, <2>2, <4>1 DEF Named
    <3>5. l \in DOMAIN named => named[l] = c
      BY <2>2 DEF IInv, MapsInv, LabelInv
    <3> QED
      BY <1>3, <3>1, <3>3, <3>4, <3>5
  <2> QED
    BY <1>13, <2>1, <2>2
<1>15. RespectInv'
  BY <1>1 DEF RespectInv
<1>16. KnownInv'
  BY <1>1, <1>13 DEF IInv, KnownInv
<1>17. TextInv' /\ PatternInv'
  BY <1>1 DEF IInv, TextInv, OneLabelEach, PatternInv
<1>18. StateTypes'
  <2>1. current' \in 1 .. n + 1
    BY <1>1, <1>4
  <2> QED
    BY <1>1, <1>2, <1>4, <2>1 DEF IInv, StateTypes, Phases
<1>19. NamesInv'
  <2>1. \A l \in DOMAIN named' : l \in Nat /\ l < nextName /\ named'[l] \in 1 .. n + 1
    BY <1>1, <1>3 DEF IInv, NamesInv
  <2>2. \A l \in DOMAIN labelToBB' : labelToBB'[l] \in 1 .. n + 1
    <3>1. \A l \in DOMAIN labelToBB : labelToBB[l] \in 1 .. n
      BY <1>2 DEF IInv, NamesInv
    <3>2. n + 1 \in 1 .. n + 1 /\ \A c \in 1 .. n : c \in 1 .. n + 1
      OBVIOUS
    <3> QED
      BY <1>13, <3>1, <3>2
  <2> QED
    BY <1>1, <1>2, <2>1, <2>2 DEF NamesInv
<1> QED
  BY <1>9, <1>10, <1>11, <1>14, <1>15, <1>16, <1>17, <1>18, <1>19 DEF IInv, MapsInv

-----------------------------------------------------------------------------
(* The first graph of a function and the next one.                         *)

\* A graph that has nothing but its source and its sink.
Started ==
  /\ phase = "walk" /\ pos = 1 /\ current = NONE
  /\ blocks = <<NewBlock(NONE), NewBlock(NONE)>>
  /\ named = <<>> /\ labelToBB = <<>> /\ targets = <<>>

LEMMA StartedInv ==
  ASSUME TextInv, Started
  PROVE  IInv
PROOF
<1>1. Len(text) \in Nat /\ nextName \in Nat
  BY DEF TextInv
<1>2. ~InTurn /\ Reached = 0
  BY DEF Started, InTurn, Reached
<1>3. /\ blocks \in Seq(BlockRecords) /\ Block = {1, 2}
      /\ \A b \in Block : F(b) = 0 /\ L(b) = 0
  <2> DEFINE r == NewBlock(NONE)
  <2>1. r \in BlockRecords /\ r.first = 0 /\ r.last = 0
    BY NewBlockFacts DEF NONE
  <2> HIDE DEF r
  <2>2. blocks = <<r, r>>
    BY DEF Started, r
  <2>3. DOMAIN <<r, r>> = {1, 2} /\ <<r, r>>[1] = r /\ <<r, r>>[2] = r
    OBVIOUS
  <2>4. Block = {1, 2} /\ blocks[1] = r /\ blocks[2] = r
    BY <2>2, <2>3 DEF Block
  <2>5. blocks \in Seq(BlockRecords)
    <3> HIDE DEF BlockRecords
    <3> QED
      BY <2>1, <2>2
  <2> QED
    BY <2>1, <2>4, <2>5 DEF F, L
<1>4. DOMAIN named = {} /\ DOMAIN labelToBB = {} /\ targets \in Seq(0 .. nextName - 1)
  BY DEF Started
<1>5. \A b \in Block : \A p \in In(b) \cap DOMAIN text : FALSE
  <2> SUFFICES ASSUME NEW b \in Block, NEW p \in In(b), p \in DOMAIN text PROVE FALSE
    OBVIOUS
  <2>1. In(b) = 0 .. 0
    BY <1>3 DEF In, F, L
  <2>2. p \in 0 .. 0 /\ p \in 1 .. Len(text)
    BY <2>1 DEF TextInv
  <2> QED
    BY ONLY <2>2
<1>6. Geometry
  <2>1. Ranges /\ Apart
    BY <1>3 DEF Ranges, Apart
  <2>2. Covered
    BY <1>2 DEF Covered
  <2>3. CurrentInv
    BY <1>2 DEF CurrentInv, Started
  <2> QED
    BY <2>1, <2>2, <2>3 DEF Geometry
<1>7. MapsInv
  BY <1>3, <1>4, <1>5 DEF MapsInv, NamedInv, HeadInv, LabelInv, RespectInv
<1>8. KnownInv
  BY <1>2 DEF KnownInv
<1>9. StateTypes /\ NamesInv /\ PatternInv
  <2>1. pos = 1 /\ phase = "walk" /\ current = NONE
    BY DEF Started
  <2>2. StateTypes
    BY <1>1, <1>2, <1>3, <2>1 DEF StateTypes, Phases
  <2>3. NamesInv
    BY <1>4 DEF NamesInv
  <2> QED
    BY <2>1, <2>2, <2>3 DEF PatternInv
<1> QED
  BY <1>6, <1>7, <1>8, <1>9 DEF IInv

LEMMA InitInv ==
  ASSUME Init
  PROVE  IInv
PROOF
<1>1. text \in Texts /\ nextName = FirstFresh /\ FirstFresh \in Nat
  BY FreshAssumption DEF Init
<1>2. text \in Seq(EntriesBelow(FirstFresh))
  BY <1>1, TextsAssumption DEF EntriesBelow, Kinds
<1>3. OneLabelEach
  BY <1>1, TextsAssumption DEF OneLabelEach, IsLabel
<1>4. TextInv
  BY <1>1, <1>2, <1>3 DEF TextInv
<1>5. Started
  BY DEF Init, Started
<1> QED
  BY <1>4, <1>5, StartedInv

LEMMA StartedNext == TextInv' /\ Started' => IInv'
PROOF
<1>1. TextInv /\ Started => IInv
  BY StartedInv
<1> QED
  BY <1>1, PTL

LEMMA GetCFGStep ==
  ASSUME IInv, GetCFG
  PROVE  IInv'
PROOF
<1>1. TextInv'
  BY DEF IInv, TextInv, GetCFG, OneLabelEach
<1>2. Started'
  BY DEF GetCFG, Started, NewBlock
<1> QED
  BY <1>1, <1>2, StartedNext

LEMMA NextInv ==
  ASSUME IInv, [Next]_vars
  PROVE  IInv'
PROOF
<1>1. CASE SkipDirective
  BY <1>1, SkipDirectiveStep
<1>2. CASE StopAtSize
  BY <1>2, StopAtSizeStep
<1>3. CASE OpenBlock
  BY <1>3, OpenBlockStep
<1>4. CASE StayInBlock
  BY <1>4, StayInBlockStep
<1>5. CASE GetTargets
  BY <1>5, GetTargetsStep
<1>6. CASE AddTarget
  BY <1>6, AddTargetStep
<1>7. CASE LinkKnown
  BY <1>7, LinkKnownStep
<1>8. CASE LinkNew
  BY <1>8, LinkNewStep
<1>9. CASE LinkInside
  BY <1>9, LinkInsideStep
<1>10. CASE EndBlock
  BY <1>10, EndBlockStep
<1>11. CASE Finish
  BY <1>11, FinishStep
<1>12. CASE GetCFG
  BY <1>12, GetCFGStep
<1>13. CASE UNCHANGED vars
  BY <1>13 DEF vars, graphVars, walkVars, linkVars, IInv, TextInv, StateTypes, NamesInv,
       PatternInv, Geometry, MapsInv, KnownInv, Ranges, Apart, Covered, CurrentInv, NamedInv,
       HeadInv, LabelInv, RespectInv, OneLabelEach, InTurn, Reached, Block, In, F, L, N, Named
<1> QED
  BY <1>1, <1>2, <1>3, <1>4, <1>5, <1>6, <1>7, <1>8, <1>9, <1>10, <1>11, <1>12, <1>13 DEF Next

-----------------------------------------------------------------------------
(* What the invariant says of the graph.                                   *)

LEMMA BlocksLemma ==
  ASSUME IInv
  PROVE  OneBlockEach
PROOF
<1> SUFFICES ASSUME NEW p \in Placed
             PROVE  \E b \in Block : \A c \in Block : p \in In(c) <=> c = b
  BY DEF OneBlockEach
<1>1. /\ Reached \in Nat /\ DOMAIN text = 1 .. Len(text) /\ Len(text) \in Nat /\ pos \in Nat
      /\ \A c \in Block : F(c) \in Nat /\ L(c) \in Nat /\ In(c) = F(c) .. L(c)
  BY Facts
<1>2. p \in DOMAIN text /\ BelongsInBasicBlock(text[p]) /\ p <= Reached
  BY <1>1 DEF Placed, Reached, InTurn
<1>3. PICK b \in Block : p \in In(b)
  BY <1>1, <1>2 DEF IInv, Geometry, Covered
<1>4. \A c \in Block : p \in In(c) => c = b
  <2> SUFFICES ASSUME NEW c \in Block, p \in In(c), c # b PROVE FALSE
    OBVIOUS
  <2>1. /\ F(c) <= p /\ p <= L(c) /\ F(b) <= p /\ p <= L(b) /\ p \in Nat /\ p > 0
    BY <1>1, <1>2, <1>3
  <2>2. F(b) # 0 /\ F(c) # 0
    BY <1>1, <2>1 DEF IInv, Geometry, Ranges
  <2>3. L(b) < F(c) \/ L(c) < F(b)
    BY <2>2 DEF IInv, Geometry, Apart
  <2> QED
    BY <1>1, <2>1, <2>3
<1> QED
  BY <1>3, <1>4

LEMMA MapsLemma ==
  ASSUME IInv
  PROVE  MapsAreRight
PROOF
<1>1. LabelsHeadBlocks
  BY DEF LabelsHeadBlocks, IInv, MapsInv, RespectInv, F
<1>2. ASSUME NEW l \in DOMAIN labelToBB
      PROVE  /\ PlaceOf(l) \subseteq In(labelToBB[l])
             /\ l \in DOMAIN named => named[l] = labelToBB[l]
  <2>1. PICK p \in DOMAIN text : p \in In(labelToBB[l]) /\ Named(p, l)
    BY DEF IInv, MapsInv, LabelInv
  <2>2. \A q \in PlaceOf(l) : q = p
    BY <2>1, PlaceLemma DEF PlaceOf, Named
  <2> QED
    BY <2>1, <2>2 DEF IInv, MapsInv, LabelInv
<1>3. ASSUME NEW l \in DOMAIN named, NEW b, b = named[l]
      PROVE  /\ blocks[b].label = l
             /\ blocks[b].first # NONE =>
                  PlaceOf(l) = IF IsLabel(text[blocks[b].first]) THEN {blocks[b].first} ELSE {}
  <2>1. b \in Block /\ N(b) = l
    BY <1>3 DEF IInv, NamesInv, MapsInv, NamedInv
  <2>2. ASSUME F(b) # 0
        PROVE  PlaceOf(l) = IF IsLabel(text[F(b)]) THEN {F(b)} ELSE {}
    <3>1. IF IsLabel(text[F(b)]) THEN text[F(b)].name = l
          ELSE \A p \in DOMAIN text : ~Named(p, l)
      BY <1>3, <2>2 DEF IInv, MapsInv, NamedInv
    <3>2. F(b) \in DOMAIN text
      <4>1. F(b) \in Nat /\ L(b) \in Nat /\ Reached \in Nat /\ Reached <= Len(text)
            /\ Len(text) \in Nat /\ DOMAIN text = 1 .. Len(text)
        BY <2>1, Facts
      <4> QED
        BY <2>1, <2>2, <4>1 DEF IInv, Geometry, Ranges
    <3>3. CASE IsLabel(text[F(b)])
      <4>1. F(b) \in PlaceOf(l)
        BY <3>1, <3>2, <3>3 DEF PlaceOf
      <4>2. \A q \in PlaceOf(l) : q = F(b)
        BY <4>1, PlaceLemma DEF PlaceOf, Named
      <4> QED
        BY <3>3, <4>1, <4>2
    <3>4. CASE ~IsLabel(text[F(b)])
      BY <3>1, <3>4 DEF PlaceOf, Named
    <3> QED
      BY <3>3, <3>4
  <2> QED
    BY <2>1, <2>2 DEF F, N, NONE
<1> QED
  BY <1>1, <1>2, <1>3 DEF MapsAreRight

LEMMA Inductive == Spec => []IInv
PROOF
<1>1. Init => IInv
  BY InitInv
<1>2. IInv /\ [Next]_vars => IInv'
  BY NextInv
<1> QED
  BY <1>1, <1>2, PTL DEF Spec

\* At any time every entry that the walk has come to is in exactly one block,
\* however many blocks were broken up behind the walk.
THEOREM BlocksTheorem == Spec => []OneBlockEach
PROOF
<1>1. IInv => OneBlockEach
  BY BlocksLemma
<1> QED
  BY <1>1, Inductive, PTL

\* A label is found in the block it is in, and a block that has a name heads
\* its entries with that label; in a conservative graph every label heads one.
THEOREM MapsTheorem == Spec => []MapsAreRight
PROOF
<1>1. IInv => MapsAreRight
  BY MapsLemma
<1> QED
  BY <1>1, Inductive, PTL

=============================================================================
