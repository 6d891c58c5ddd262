SPECIFICATION SumSpec
CONSTANTS
  t1 = t1
  t2 = t2
  Thread = {t1, t2}
  Token = {1, 2}
  Damaged = Damaged
  MaxTime = 2
  MaxLines = 3
  MaxFaults = 2
  User = {1}
  MaxFailedAttempts = 2
  LockoutDuration = 2
  SessionLifetime = 1
  VerifyTime = 1
  MaxNow = 5
  MaxTokens = 2
  MaxKeys = 1
  MaxFailures = 4
  What <- MCWhat
  Time = {1, 2}
  MaxAppends = 4
  Content = {1, 2}
  Providers <- MCProviders
  DataKeys <- MCDataKeys
  Texts <- MCTexts
  Keys <- MCKeys
  Values <- MCValues
  Patterns <- MCPatterns
  Resources <- MCResources
  MaskValues <- MCMaskValues
  MaxBlocks = 7
  Columns = {"c", "d"}
  MaxRows = 1
  Users = {1, 2}
  Custom = {"custom"}
  Permissions = {"read", "write", "create"}
  MaskColumns = {"c", "d"}
  MaskRoles = {"r", "s"}
  MaxWidth = 2
  MaxRules = 2
SYMMETRY Symmetry
INVARIANTS
  Throttled
  StoredUntilEnd
  LoggedOutForGood
  SessionsDurable
  AuditSafe
  EncryptionSafe
  AccessSafe
CHECK_DEADLOCK FALSE
