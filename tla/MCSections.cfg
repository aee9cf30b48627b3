SPECIFICATION Spec
CONSTANTS
  Names <- MCNames
  Numbers <- MCNumbers
  Labels <- MCLabels
  MaxEntries = 7
  MaxDepth = 2
INVARIANTS
  SectionsAreLists
  AssembledAlike
  OwnSection
CONSTRAINT
  Bound
CHECK_DEADLOCK FALSE
