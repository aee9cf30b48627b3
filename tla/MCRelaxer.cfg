SPECIFICATION Spec
CONSTANTS
  Programs <- MCPrograms
  MaxRuns = 2
INVARIANTS
  JumpsReach
  AlignsAlign
  LeavesNoTrace
  GoReturns
CHECK_DEADLOCK FALSE
