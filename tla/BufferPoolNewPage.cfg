SPECIFICATION Spec
CONSTANTS
  None = None
  Zero = Zero
  Page = {pa, pb, pc}
  Seeded = {pa, pb}
  Frame = {f1, f2}
  K = 2
  MaxClock = 4
  MaxMarks = 3
  MaxLsn = 0
  ReadErrors = FALSE
  WriteErrors = FALSE
PROPERTY ExistingPagesKept
CHECK_DEADLOCK FALSE
