CONSTANTS
  NONE = NONE
  Programs = {"app", "std", "scanner", "std_scanner", "calls"}
  Addrs = {a1, a2}
  Payloads <- MCPayloads
  DEVICE_NAME <- MCName
  Peers <- MCPeers
  MaxProcs = 2
  MaxCalls = 2
  MaxFaults = 2
  MaxResets = 1
SPECIFICATION FairSpec
CHECK_DEADLOCK FALSE
INVARIANTS
  PeerNamed
  WritesHitTargets
  CompletedOnce
  EndsForCause
PROPERTIES
  EndsOnDisconnect
