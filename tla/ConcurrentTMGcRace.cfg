SPECIFICATION Spec
CONSTANTS
  None = None
  Thread = {p1, p2}
  Key = {k1}
  MaxTxn = 3
  Mode <- OverlapCollectingOnly
INVARIANT NoLostUpdate
CHECK_DEADLOCK FALSE
