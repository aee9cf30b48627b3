CONSTANTS
  Graphs <- MCGraphs
  MaxNonBackPreds = 2
SPECIFICATION FairSpec
INVARIANTS
  LoopsAreComponents
  NaturalLoops
PROPERTIES
  Terminates
CHECK_DEADLOCK FALSE
