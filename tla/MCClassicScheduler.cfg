SPECIFICATION Spec
CONSTANTS
  Processors = {p1, p2}
  Callers = {c1, c2}
  Ids = {reader, plain}
  Routines = {r1, r2, f1}
  IdOf <- MCIdOf
  PrioOf <- MCPrioOf
  Visitors <- MCVisitors
  MAX_PRIO = 2
  Plans <- MCPlans
  None = None
  c1 = c1
  c2 = c2
  reader = reader
  plain = plain
  r1 = r1
  r2 = r2
  f1 = f1
  p1 = p1
  p2 = p2
SYMMETRY Interchangeable
CHECK_DEADLOCK FALSE
INVARIANTS TypeOK OneRunner ResumesReady TableMatchesQueue OneLiveRoutinePerTask NotificationKept
