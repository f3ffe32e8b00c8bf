SPECIFICATION FairSpec
CONSTANTS
  Credentials = {c1, c2}
  Lifetimes = {1, 2, 5}
  MaxSkew = 2
  Timeout = 3
  MaxCalls = 3
  MaxOverdue = 1
  Disturbances = {"spec", "delete", "secret", "revoke"}
  FaultKinds = {"rejected", "lost", "slow", "crash", "stale"}
  MaxDisturbances = 2
  MaxFaults = 2
  None = None
CHECK_DEADLOCK FALSE
INVARIANT CachedTokenIsLive
PROPERTY EventuallyTruthful
