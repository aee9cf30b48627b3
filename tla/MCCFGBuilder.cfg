CONSTANTS
  Texts <- MCTexts
  FirstFresh = 10
  MaxBuilds = 2
SPECIFICATION Spec
INVARIANTS
  OneBlockEach
  MapsAreRight
  FlowIsExact
CHECK_DEADLOCK FALSE
