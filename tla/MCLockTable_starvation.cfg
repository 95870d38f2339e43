SPECIFICATION FairSpec
CONSTANTS
  t1 = t1
  t2 = t2
  t3 = t3
  o1 = o1
  NoTID = NoTID
  NoRow = NoRow
  TID <- MCTID
  RowID <- MCRowID
  MaxQueue = 1
PROPERTIES
  NoWriterStarvation
