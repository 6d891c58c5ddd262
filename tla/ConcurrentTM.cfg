SPECIFICATION Spec
CONSTANTS
  None = None
  Thread = {p1, p2}
  Key = {k1}
  MaxTxn = 3
  Mode <- AllModes
INVARIANTS
  FirstCommitterWins
  CollectorSafe
PROPERTIES
  CommittedIsFinal
  ImplementsSI
  CallsReturn
CHECK_DEADLOCK FALSE
