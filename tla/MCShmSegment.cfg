SPECIFICATION Spec
CONSTANTS
  w1 = w1
  w2 = w2
  r = r
  Writers = {w1, w2}
  Readers = {r}
  Plans <- MCPlans
  BlockNum <- MCBlockNum
  kMaxTryLockTimes = 2
  MaxDeaths = 1
  MaxRefs = 3
INVARIANTS TypeOK LockWords FreshReads
CHECK_DEADLOCK FALSE
SYMMETRY Symmetry
