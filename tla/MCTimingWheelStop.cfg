SPECIFICATION Spec
CONSTANTS
  Users = {u1}
  Timers = {periodic}
  Period <- MCPeriod
  Oneshot <- MCOneshot
  Plans <- MCPlans
  TickDuration = 2
  TIMING_WHEEL_SIZE = 2
  BOUNDED_QUEUE_SIZE = 1
  TIMER_TASK_MAX_INTERVAL = 3
  UINT64_MAX = 63
  MaxTasks = 1
  MaxTime = 6
  u1 = u1
  periodic = periodic
CHECK_DEADLOCK FALSE
INVARIANT StopTakesEffect
