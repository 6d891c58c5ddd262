SPECIFICATION StoreSpec
CONSTANTS
  Thread = {t1, t2}
  Token = {1, 2}
  Damaged = Damaged
  MaxTime = 2
  MaxLines = 3
  MaxFaults = 0
INVARIANTS
  SafeToShare
