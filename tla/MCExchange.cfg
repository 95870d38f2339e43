SPECIFICATION Spec
CONSTANTS
  N = 3
  NoRow = NoRow
  EndOfStream = EndOfStream
  LeftRow <- MCLeftRow
  RightRow <- MCRightRow
  Key <- MCKey
INVARIANTS
  MatchesMeetOnce
PROPERTIES
  Implements
  EveryJoinEnds
CHECK_DEADLOCK FALSE
