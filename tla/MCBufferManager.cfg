SPECIFICATION Spec
CONSTANTS
  c1 = c1
  c2 = c2
  v1 = v1
  v2 = v2
  Blank = Blank
  NoPage = NoPage
  Client <- MCClient
  Content <- MCContent
  N = 2
  MaxPage = 2
  MaxPins = 4
  KeepDirty = TRUE
  MaxFailures = 1
SYMMETRY MCSymmetry
INVARIANTS
  TypeOK
  TableAgrees
  PinsExact
  NoLostUpdate
  RefusedOnlyWhenPinned
  FreeListExact
PROPERTIES
  LRUOrder
CHECK_DEADLOCK FALSE
