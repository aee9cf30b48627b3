--------------------------- MODULE FunctionFinder ---------------------------
(***************************************************************************)
(* MaoUnit::FindFunctions: once the file is read, the entries of every     *)
(* symbol of type function, from its label to its end, and of an unnamed   *)
(* function at the head of every code section, become the functions the    *)
(* passes run on.  Symbols are taken in the order of the symbol table.     *)
(***************************************************************************)
EXTENDS Sections

CONSTANTS
  SymbolOrder,  \* the symbol table, in its order
  Anonymous     \* FindFunctions(create_anonymous)

Deleted == -1   \* the Function that was deleted

\* The table has every label of the file, once.
ASSUME SymbolAssumption ==
  /\ SymbolOrder \in Seq(Labels)
  /\ \A f \in Labels : \E i \in DOMAIN SymbolOrder : SymbolOrder[i] = f
  /\ \A i, j \in DOMAIN SymbolOrder : SymbolOrder[i] = SymbolOrder[j] => i = j
  /\ Anonymous \in BOOLEAN

VARIABLES
  typed,      \* the symbols the file gives the type @function
  phase,      \* "read", "named", "unnamed" or "done"
  symbolsLeft,  \* the symbols still to take
  sectionsLeft, \* then the sections
  functions,  \* MaoUnit::functions_
  owner       \* entry_to_function_: an index of functions, Deleted, or 0

finder == <<typed, phase, symbolsLeft, sectionsLeft, functions, owner>>
allVars == <<vars, finder>>

IsFunctionLabel(e) == unit.entries[e].kind = "label" /\ unit.entries[e].name \in typed

-----------------------------------------------------------------------------
\* What no unnamed function is looked for in: FindFunctions and bfd.
Excluded == {".eh_frame", ".bss", ".rodata", ".data", Start}
Sectioned == {unit.subs[s].name : s \in DOMAIN unit.subs}

FinderInit ==
  /\ Init
  /\ typed \in SUBSET Labels
  /\ phase = "read"
  /\ symbolsLeft = <<>>
  /\ sectionsLeft = {}
  /\ functions = <<>>
  /\ owner = <<>>

Read ==
  /\ phase = "read"
  /\ Next
  /\ UNCHANGED finder

\* The end of the file.
EndOfFile ==
  /\ phase = "read"
  /\ ~aborted
  /\ phase' = "named"
  /\ symbolsLeft' = SymbolOrder
  /\ owner' = [e \in DOMAIN unit.entries |-> 0]
  /\ UNCHANGED <<vars, typed, sectionsLeft, functions>>

\* Slip: a function runs over the label of the next one.
EndsAtSlip(e, f) == unit.next[e] = 0 \/ unit.entries[e] = Named("size", f)

\* Slip: a function ends at any .size.
EndsAtAnySizeSlip(e, f) ==
  \/ unit.next[e] = 0
  \/ unit.entries[e].kind = "size"
  \/ IsFunctionLabel(unit.next[e])

\* The function walk stops at e: the section ends, e is the .size of f, or the
\* next entry is the label of a function.
EndsAt(e, f) ==
  \/ unit.next[e] = 0
  \/ unit.entries[e] = Named("size", f)
  \/ IsFunctionLabel(unit.next[e])

\* The entries from a to b on the list, for a <= b.
Between(a, b) ==
  LET to[e \in DOMAIN unit.entries] ==
        IF e = b \/ unit.next[e] = 0 THEN {e} ELSE {e} \cup to[unit.next[e]]
  IN  to[a]

\* A symbol that is no function.
SkipSymbol ==
  /\ phase = "named"
  /\ ~aborted
  /\ symbolsLeft # <<>>
  /\ Head(symbolsLeft) \notin typed
  /\ symbolsLeft' = Tail(symbolsLeft)
  /\ UNCHANGED <<vars, typed, phase, sectionsLeft, functions, owner>>

\* One function symbol.  The walk begins at the entry after the label, so that
\* entry is the function's whatever it is; without one, or without the label,
\* MAO fails.
FindFunction ==
  /\ phase = "named"
  /\ ~aborted
  /\ symbolsLeft # <<>>
  /\ Head(symbolsLeft) \in typed
  /\ LET f == Head(symbolsLeft)
         label == CHOOSE e \in LabelsOf(f) : TRUE
         tail[e \in DOMAIN unit.entries] == IF EndsAt(e, f) THEN e ELSE tail[unit.next[e]]
         new == [name |-> f, first |-> label, last |-> tail[unit.next[label]],
                 sub |-> unit.subOf[label]]
     IN  IF LabelsOf(f) = {} \/ unit.next[label] = 0
           THEN Abort /\ UNCHANGED finder
           ELSE /\ functions' = Append(functions, new)
                /\ owner' = [e \in DOMAIN owner |->
                               IF e \in Between(new.first, new.last)
                                 THEN Len(functions) + 1 ELSE owner[e]]
                /\ symbolsLeft' = Tail(symbolsLeft)
                /\ UNCHANGED <<vars, typed, phase, sectionsLeft>>

\* Every symbol has been taken; the code sections are next.
NamedDone ==
  /\ phase = "named"
  /\ ~aborted
  /\ symbolsLeft = <<>>
  /\ phase' = IF Anonymous THEN "unnamed" ELSE "done"
  /\ sectionsLeft' = Sectioned \ Excluded
  /\ UNCHANGED <<vars, typed, symbolsLeft, functions, owner>>

\* The head of a section: its entries up to the first that is in a function.
HeadOf(name) ==
  LET first == unit.subs[CHOOSE s \in DOMAIN unit.subs :
                           /\ unit.subs[s].name = name
                           /\ \A t \in 1 .. s - 1 : unit.subs[t].name # name].first
      to[e \in DOMAIN unit.entries] ==
        IF owner[e] # 0 THEN {}
        ELSE {e} \cup IF unit.next[e] = 0 THEN {} ELSE to[unit.next[e]]
  IN  to[first]

HasCode(head) == \E e \in head : unit.entries[e].kind = "insn"

UnnamedId(keep) == IF keep THEN Len(functions) + 1 ELSE Deleted

\* One section: an unnamed function of its head, deleted again, without undoing
\* the map, when it has no instruction.
FindUnnamed(name) ==
  LET head == HeadOf(name)
      first == CHOOSE e \in head : \A d \in head : e <= d
      last == CHOOSE e \in head : \A d \in head : e >= d
      keep == HasCode(head)
      id == UnnamedId(keep)
  IN  /\ phase = "unnamed"
      /\ name \in sectionsLeft
      /\ sectionsLeft' = sectionsLeft \ {name}
      /\ owner' = [e \in DOMAIN owner |-> IF e \in head THEN id ELSE owner[e]]
      /\ functions' = IF keep
           THEN Append(functions, [name |-> "", first |-> first, last |-> last,
                                   sub |-> unit.subOf[first]])
           ELSE functions
      /\ UNCHANGED <<vars, typed, phase, symbolsLeft>>

UnnamedDone ==
  /\ phase = "unnamed"
  /\ sectionsLeft = {}
  /\ phase' = "done"
  /\ UNCHANGED <<vars, typed, symbolsLeft, sectionsLeft, functions, owner>>

FinderNext ==
  \/ Read
  \/ EndOfFile
  \/ SkipSymbol
  \/ FindFunction
  \/ NamedDone
  \/ \E name \in Names : FindUnnamed(name)
  \/ UnnamedDone

FinderSpec == FinderInit /\ [][FinderNext]_allVars

-----------------------------------------------------------------------------
(* Properties.                                                             *)

Owned(i) == {e \in DOMAIN owner : owner[e] = i}

\* Two labels of functions in a row, as for a function with two names.
Alias ==
  \E e \in DOMAIN unit.entries :
    IsFunctionLabel(e) /\ unit.next[e] # 0 /\ IsFunctionLabel(unit.next[e])

\* The range every function pass iterates, from first_entry_ to last_entry_, is
\* exactly what GetFunction answers for that function, and starts in the
\* subsection the function is said to be in: this is what the entry list's
\* edits start from.  It holds unless a function has a second name.
RangesAreOwned ==
  phase = "done" /\ ~Alias =>
    \A i \in DOMAIN functions :
      /\ Owned(i) = Between(functions[i].first, functions[i].last)
      /\ functions[i].sub = unit.subOf[functions[i].first]

\* With unnamed functions an instruction of a code section is left without a
\* function, or with one that was deleted, only behind the .size of one, and
\* before the next one's label.
CodeHasFunction ==
  phase = "done" /\ Anonymous =>
    \A e \in DOMAIN unit.entries :
      /\ unit.entries[e].kind = "insn"
      /\ unit.subs[unit.subOf[e]].name \notin Excluded
      /\ owner[e] \in {0, Deleted}
      => \E i \in DOMAIN functions :
           /\ unit.entries[functions[i].last] = Named("size", functions[i].name)
           /\ e \in Between(functions[i].last, Len(unit.entries))
           /\ \A d \in Between(functions[i].last, e) : ~IsFunctionLabel(d)
=============================================================================
