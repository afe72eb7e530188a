CONSTANTS
  evt = evt
  cmd = cmd
  none = none
  e1 = e1
  e2 = e2
  NULL = NULL
  Pools = {evt, cmd, none}
  Blocks = {e1, e2}
  Layout <- ThreePools
  Clients = {u1, u2}
SPECIFICATION MemSpec
INVARIANTS
  FreeListOK
  HandedOutOnce
  PoolListOK
SYMMETRY Alike
