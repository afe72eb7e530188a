CONSTANTS
  Threads = {t1, t2, t3}
  Slots = {"host", "gap", "parker"}
  MaxDrivers = 3
  MaxRuns = 2
SPECIFICATION LifeSpec
CHECK_DEADLOCK FALSE
INVARIANTS OneDriver NoDangling FreshWhenFree
