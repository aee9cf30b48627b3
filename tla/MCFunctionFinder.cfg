SPECIFICATION FinderSpec
CONSTANTS
  Names <- MCNames
  Numbers <- MCNumbers
  Labels <- MCLabels
  MaxEntries = 6
  MaxDepth = 0
  SymbolOrder <- MCSymbolOrder
  Anonymous = TRUE
INVARIANTS
  RangesAreOwned
  CodeHasFunction
CHECK_DEADLOCK FALSE
