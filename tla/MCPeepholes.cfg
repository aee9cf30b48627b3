SPECIFICATION Spec
CONSTANTS
  Names <- MCNames
  Blocks <- MCBlocks
  Starts <- MCStarts
  LookAhead = 2
INVARIANTS
  DropsAreSound
  RewritesAreSound
CHECK_DEADLOCK FALSE
