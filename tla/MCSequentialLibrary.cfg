SPECIFICATION Spec
CONSTANTS
  Capacity = 2
  SortCall <- MCSortCall
  Page <- MCPage
  TablePages <- MCTablePages
  Aggregate <- Total
  TableFiles <- MCTableFiles
  Projection <- MCProjection
  Filters <- MCFilters
  JoinColumn <- MCJoinColumn
  Aggregated = {2, 4}
  IndexedColumn <- MCIndexedColumn
  MaxKey = 9
  Base = 3
INVARIANTS
  MergeSorts
  PlanExact
  ColumnPlanExact
  LookupsAgree
CHECK_DEADLOCK FALSE
