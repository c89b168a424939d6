SPECIFICATION FairSpec
CONSTANTS
  Processors = {p1, p2}
  Callers = {c1, c2}
  Ids = {reader, plain}
  Routines = {r1, f1}
  IdOf <- MCLiveIdOf
  PrioOf <- MCPrioOf
  Visitors <- MCLiveVisitors
  MAX_PRIO = 2
  Plans <- MCLivePlans
  None = None
  c1 = c1
  c2 = c2
  reader = reader
  plain = plain
  r1 = r1
  r2 = r2
  f1 = f1
  p1 = p1
  p2 = p2
CHECK_DEADLOCK FALSE
PROPERTIES  SleepersWake
