SPECIFICATION SumSpec
CONSTANTS
  v = v
  Huge = Huge
  Empty = Empty
  Absent = Absent
  Key = {1, 2}
  Value <- MCValue
  RowsPerBlock = 2
  PendingCapacity = 2
  MaxRows = 2
  Names = {"a", "b"}
  MaxDepth = 2
  MaxNesting = 3
  MaxPaxRows = 2
INVARIANTS
  StoreSound
  LayoutsExact
PROPERTIES
  CompactExact
  ImplementsMap
CHECK_DEADLOCK FALSE
