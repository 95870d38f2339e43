SPECIFICATION Spec
CONSTANTS
  t1 = t1
  t2 = t2
  t3 = t3
  table1 = table1
  table2 = table2
  page1 = page1
  page2 = page2
  row1 = row1
  TID <- MCTID
  Node <- MCNode
  Above <- MCAbove
SYMMETRY MCSymmetry
INVARIANTS
  TypeOK
  NodeCompatible
  GrantsByMatrix
  IntentionsHeld
  SubtreeExclusion
CHECK_DEADLOCK FALSE
