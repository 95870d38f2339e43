SPECIFICATION Spec
CONSTANTS
  c1 = c1
  c2 = c2
  v1 = v1
  v2 = v2
  Blank = Blank
  NoPage = NoPage
  Client <- MCClient
  Content <- MCContent
  N = 2
  MaxPage = 2
  MaxPins = 4
  KeepDirty = FALSE
  MaxFailures = 0
SYMMETRY MCSymmetry
INVARIANTS
  CleanMatchesDisk
CHECK_DEADLOCK FALSE
