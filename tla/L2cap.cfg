CONSTANTS
  PoolSizes = {2, 3}
  MaxSdus = 4
  MaxFaults = 2
  NULL = NULL
SPECIFICATION FairSpec
CHECK_DEADLOCK FALSE
INVARIANTS
  BuffersOwnedOnce
  NeverStarved
  EchoesFaithful
PROPERTIES
  EchoReturns
