SPECIFICATION FairSpec
CONSTANTS
  p1 = p1
  p2 = p2
  c1 = c1
  c2 = c2
  Producers = {p1, p2}
  Consumers = {c1, c2}
  Size = 2
  MaxCalls = 4
  Scenarios <- MCScenarios
  None = None
  Empty = Empty
  Full = Full
  Free = Free
  Torn = Torn
INVARIANTS
  TypeOK
  RingBounds
  SlotsOwned
PROPERTIES
  ImplementsFifo
  RefusalsJustified
  PlainCallsReturn
  NoItemStranded
  WaitersReleased

CHECK_DEADLOCK FALSE
