SPECIFICATION Spec
CONSTANTS
  Lists <- MCRescheduled
  Texts <- MCTexts
  MaxEntries = 30
INVARIANT ReuseKeepsCode
CHECK_DEADLOCK FALSE
