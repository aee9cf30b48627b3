CONSTANTS
  f = f
  g = g
  u = u
  s1 = s1
  s2 = s2
  lf = lf
  i1 = i1
  i2 = i2
  zf = zf
  d = d
  lg = lg
  j1 = j1
  zg = zg
  x = x
  a = a
  NULL = NULL
  Functions = {f, g, u}
  SubSections = {s1, s2}
  FirstSubSection = s1
  Entries <- MCEntries
  Fresh = {x}
  MaxHeld = 2
  Kind <- MCKind
  FunctionSS <- MCFunctionSS
  Layouts <- MCLayouts
SPECIFICATION Spec
INVARIANTS
  PtrInv
  RangesAreRight
  AbortOnlyWhenLast
PROPERTIES
  RefinesEntrySeq
CHECK_DEADLOCK FALSE
