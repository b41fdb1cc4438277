SPECIFICATION FairSpec
CONSTANTS
  r1 = r1
  r2 = r2
  h1 = h1
  h2 = h2
  Refund <- MCRefunds
  Handler <- MCHandlers
  Total = 2
  MaxDeaths = 1
INVARIANTS TypeOK GrantsFit ToldOnce
PROPERTY ProcessedIsRecorded
CHECK_DEADLOCK FALSE
