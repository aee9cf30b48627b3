SPECIFICATION Spec
CONSTANTS
  Lists <- MCLists
  Texts <- MCTexts
  MaxEntries = 30
INVARIANTS
  CodeIsKept
  HeldIsAlive
  LoopsAreAlive
  SizesAreCurrent
  OnlyUnsizedAbort
  WalksEnd
CHECK_DEADLOCK FALSE
