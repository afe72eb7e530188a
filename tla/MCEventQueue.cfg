CONSTANTS
  Events = {e1, e2, e3}
  Threads = {t1, t2}
  RunTasks = {r1, r2}
  NULL = NULL
SPECIFICATION FairSpec
INVARIANTS
  TypeOK
  ListOK
  NoLostWakeup
PROPERTIES
  ImplementsFifo
  EventServed
