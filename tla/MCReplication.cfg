SPECIFICATION SumSpec
CONSTANTS
  Txn = {t1, t2}
  Config <- AllConfigs
  AutoTruncateThreshold = 4
  MaxLsn = 5
  MaxCrashes = 1
  MaxErrors = 1
  Tear = TRUE
  None = None
  Nil = Nil
  NodeId = {1, 2, 3, 4, 5}
  Initial = {1, 2, 3}
  Node = {1, 2}
  Limits <- MCLimits
  MaxSegments = 3
  MaxTime = 2
  Interval = 2
  MaxRestarts = 1
  Thread = {1, 2}
  MaxMessages = 3
  HeartbeatTimeout = 1
  MaxClock = 4
  MaxReplicas = 3
  MaxReads = 5
  MaxPartitions = 4
  MaxOps = 4
  Path = {"p", "q"}
  Data <- MCData
  Offsets = {0, 1}
  Schedules <- MCSchedules
  VfsMaxOps = 4
  MaxReboots = 1
  MaxTxns = 3
  HarnessMaxOps = 2
SYMMETRY TxnSymmetry
INVARIANTS
  Durability
  LsnOrder
  ShippingSafe
  RaftSafe
  TransportSafe
  RecoverySafe
PROPERTY OneWinnerPerTerm
CHECK_DEADLOCK FALSE
