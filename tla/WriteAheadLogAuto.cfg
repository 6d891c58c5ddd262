SPECIFICATION SpecNoCheckpoint
CONSTANTS
  Txn = {t1, t2}
  Config <- AutomaticOnly
  AutoTruncateThreshold = 4
  MaxLsn = 6
  MaxCrashes = 0
  MaxErrors = 0
  Tear = FALSE
SYMMETRY TxnSymmetry
INVARIANTS
  CheckpointsSpaced
CHECK_DEADLOCK FALSE
