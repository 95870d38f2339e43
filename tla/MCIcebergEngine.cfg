SPECIFICATION Spec
CONSTANTS
  sales = sales
  items = items
  NoTable = NoTable
  Table <- MCTable
  Column <- MCColumn
  ColumnType <- MCColumnType
  Value <- MCValue
  Chunk <- MCChunk
  Change <- MCChange
  MaxFiles = 3
  MaxVersions = 3
SYMMETRY MCSymmetry
INVARIANTS
  QueryExact
  NoRowTwice
  TablesApart
PROPERTIES
  Implements
