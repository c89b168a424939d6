SPECIFICATION FairSpec
CONSTANTS
  p1 = p1
  c1 = c1
  Producers = {p1}
  Consumers = {c1}
  Size = 1
  MaxCalls = 1
  Scenarios <- MCScenarios
  None = None
  Empty = Empty
  Full = Full
  Free = Free
  Torn = Torn
PROPERTY NoItemStranded
CHECK_DEADLOCK FALSE
