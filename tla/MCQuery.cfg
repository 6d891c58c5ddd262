SPECIFICATION SumSpec
CONSTANTS
  None = None
  Zero = Zero
  Page = {pa, pb, pc}
  Seeded = {pa, pb}
  Frame = {f1, f2}
  K = 2
  MaxClock = 5
  MaxMarks = 3
  MaxLsn = 1
  ReadErrors = TRUE
  WriteErrors = TRUE
INVARIANTS
  PoolCoherent
  NeverExhausted
  QuerySafe
PROPERTY ScanResistance
CHECK_DEADLOCK FALSE
