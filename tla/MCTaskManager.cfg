SPECIFICATION FairSpec
CONSTANTS
  Clients = {c1, c2}
  Workers = {worker1, worker2}
  Asyncs = 2
  task_queue_size = 2
PROPERTY FuturesReady
CHECK_DEADLOCK FALSE
