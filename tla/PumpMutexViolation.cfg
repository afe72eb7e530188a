CONSTANTS
  a1 = a1
  a2 = a2
  Apps = {a1, a2}
  Run = Run
  Task = Task
  NULL = NULL
  CMD_QUEUE_DEPTH = 2
  Budgets <- Contention
SPECIFICATION FairSpec
CHECK_DEADLOCK FALSE
PROPERTY MutexServed
