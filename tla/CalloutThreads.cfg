CONSTANTS
  Callouts = {c1, c2}
  Inline = {c2}
  Threads = {t1}
  Run = Run
  MultiThread = TRUE
  Delays = {0, 2}
  MaxTime = 3
  MaxResets = 2
  NULL = NULL
SPECIFICATION FairSpec
CHECK_DEADLOCK FALSE
INVARIANTS
  TimersOK
  NoMissedDeadline
PROPERTY FiresEventually
