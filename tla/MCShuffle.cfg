SPECIFICATION Spec
CONSTANTS
  N = 2
  InitialWord = {0}
  R = 5
  T = 4
  Empty = Empty
  Placement <- MCPlacement
INVARIANTS
  BarrierSeparates
  ResultExact
PROPERTIES
  WrittenOnce
  EveryNodeReturns
CHECK_DEADLOCK FALSE
