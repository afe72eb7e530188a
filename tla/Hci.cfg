CONSTANTS
  CMD_QUEUE_DEPTH = 2
  ACL_QUEUE_DEPTH = 2
  EvtCount = 1
  EvtLoCount = 1
  AclCount = 1
  Credits = 2
  Budgets <- MCBudgets
SPECIFICATION FairSpec
CHECK_DEADLOCK FALSE
INVARIANTS
  CommandsInOrder
  AclInOrder
  AcksTruthful
  BuffersConserved
PROPERTY CommandAnswered
