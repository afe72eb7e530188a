CONSTANTS
  t1 = t1
  t2 = t2
  t3 = t3
  NONE = NONE
  Contexts <- MCContexts
  ctx_id <- MCCtxId
  MaxDepth = 3
SPECIFICATION CsSpec
INVARIANTS
  Exclusive
  KnowsAndKeeps
