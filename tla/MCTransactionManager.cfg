SPECIFICATION SumSpec
CONSTANTS
  k1 = k1
  k2 = k2
  Key <- MCKey
  Isolation <- MCIsolation
  MaxTxn = 4
  MaxGcTxn = 3
  SpKey = {1, 2}
  SpName = {"a", "b"}
  MaxWrites = 3
  MaxSavepoints = 3
  PKey = {1, 2}
  PValue = {1, 2}
  MaxTs = 4
  File = {"a", "b"}
  MaxVersions = 2
  Table = {1, 2}
  Col = {"c", "d"}
  IndexName = {"i", "j"}
  ViewName = {"v"}
  MaxColumns = 2
  MaxIndexes = 2
INVARIANTS
  ValidationExact
  FirstCommitterWins
  TimestampsAccounted
  VersionsSafe
  HistorySafe
PROPERTIES
  ImplementsSI
CHECK_DEADLOCK FALSE
