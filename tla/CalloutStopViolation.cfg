CONSTANTS
  Callouts = {c1}
  Inline = {}
  Threads = {t1}
  Run = Run
  MultiThread = TRUE
  Delays = {0, 2}
  MaxTime = 2
  MaxResets = 1
  NULL = NULL
SPECIFICATION Spec
CHECK_DEADLOCK FALSE
PROPERTY StopCancels
