SPECIFICATION Spec
CONSTANTS
  T = 3
  Share = 100
  Sentinel = 7
  NoTuple = NoTuple
  Hash <- MCHash
  Input <- MCInput
INVARIANTS
  BucketsExact
  JoinExact
PROPERTIES
  JoinEnds
CHECK_DEADLOCK FALSE
