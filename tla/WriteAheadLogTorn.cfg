SPECIFICATION Spec
CONSTANTS
  Txn = {t1, t2}
  Config <- ManualOnly
  AutoTruncateThreshold = 4
  MaxLsn = 5
  MaxCrashes = 1
  MaxErrors = 0
  Tear = TRUE
SYMMETRY TxnSymmetry
INVARIANTS
  AckedRecovered
CHECK_DEADLOCK FALSE
