CONSTANTS
  r = r
  flags = flags
  rsp = rsp
  Regs <- MCRegs
  Rsp = rsp
  Blocks <- MCEndBlocks
  LcdAdjustment = 10
  HotBonus = 1
SPECIFICATION Spec
CHECK_DEADLOCK FALSE
INVARIANT SameEffect
