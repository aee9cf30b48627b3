CONSTANTS
  r = r
  flags = flags
  rsp = rsp
  Regs <- MCRegs
  Rsp = rsp
  Blocks <- MCBlocks
  LcdAdjustment = 10
  HotBonus = 1
SPECIFICATION FairSpec
INVARIANTS
  EdgesRespected
  ControlStays
  NothingLeftBehind
  PrioritiesAreRight
  SameEffect
PROPERTIES
  Terminates
CHECK_DEADLOCK FALSE
