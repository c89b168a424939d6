SPECIFICATION Spec
CONSTANTS
  Users = {u1, u2}
  Timers = {periodic, oneshot, tooshort}
  Period <- MCPeriod
  Oneshot <- MCOneshot
  Plans <- MCPlans
  TickDuration = 2
  TIMING_WHEEL_SIZE = 2
  BOUNDED_QUEUE_SIZE = 1
  TIMER_TASK_MAX_INTERVAL = 3
  UINT64_MAX = 63
  MaxTasks = 2
  MaxTime = 6
  u1 = u1
  u2 = u2
  periodic = periodic
  oneshot = oneshot
  tooshort = tooshort
CHECK_DEADLOCK FALSE
INVARIANTS TypeOK RoundsExact OnePlace SettledStop
PROPERTY NotEarly
