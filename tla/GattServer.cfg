CONSTANTS
  ServiceLists <- MCServiceLists
  Conns = {h1, h2}
  MAX_SUBSCRIBERS = 2
  MaxFaults = 3
  MaxResets = 2
SPECIFICATION FairSpec
CHECK_DEADLOCK FALSE
INVARIANTS
  TableFaithful
  HeapBalanced
  SubscribersMirror
  AckedWasHeard
PROPERTIES
  AdvertisesAgain
  SubscriberServed
