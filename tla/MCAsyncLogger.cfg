SPECIFICATION FairSpec
CONSTANTS
  c1 = c1
  c2 = c2
  Callers = {c1, c2}
  Plans <- MCPlans
  Limit = 1
  MaxLogSize = 2
  kRolloverAttemptFrequency = 2
  MaxRounds = 2
INVARIANTS TypeOK NothingLost FlushCovers
PROPERTY CallsReturn
CHECK_DEADLOCK FALSE
