SPECIFICATION FairSpec
CONSTANTS
  l1 = l1
  l2 = l2
  s1 = s1
  s2 = s2
  Log <- MCLogs
  Sweep <- MCSweeps
  Limit = 1
  LockTtl = 2
  MaxAttempts = 3
  MaxMishaps = 2
INVARIANTS TypeOK OneSend
PROPERTY RetryEnds
ACTION_CONSTRAINT MCMishaps
CHECK_DEADLOCK FALSE
