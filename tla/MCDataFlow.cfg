CONSTANTS
  a = a
  b = b
  c = c
  r = r
  MaxIterations = 1000
  Problems <- MCProblems
SPECIFICATION FairSpec
INVARIANTS
  SolvedIsSolution
  BelowEverySolution
  IterationBound
  LiveIsPathLive
  ReachingIsPathReaching
PROPERTIES
  BitsAreKept
  Terminates
CHECK_DEADLOCK FALSE
