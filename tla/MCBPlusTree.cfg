SPECIFICATION Spec
CONSTANTS
  r1 = r1
  r2 = r2
  NoRid = NoRid
  Key <- MCKey
  Rid <- MCRid
  Request <- MCRequest
  LeafCapacity = 2
  InnerCapacity = 4
INVARIANTS
  TypeOK
  LookupExact
  RangeExact
PROPERTIES
  Implements
