SPECIFICATION Spec
CONSTANTS
  r1 = r1
  r2 = r2
  s1 = s1
  s2 = s2
  All = All
  Receivers = {r1, r2}
  Senders = {s1, s2}
  Plans <- MCPlans
  Messages <- MCMessages
INVARIANTS TypeOK RunsReachAll NoStaleCalls
CHECK_DEADLOCK FALSE
