SPECIFICATION FairSpec
CONSTANTS
  Credentials = {c1, c2, c3, c4}
  Nonces = {n1, n2}
  Configs = {g1, g2}
  Identities = {i1}
  CreationChoices = {"CreateOrAdopt"}
  DeletionChoices = {"Delete"}
  InitiallyAttached = {}
  Disturbances = {"spec", "delete", "secret", "claim", "detach", "revoke", "configure", "dependency"}
  FaultKinds = {"rejected", "lost", "crash", "stale"}
  MaxDisturbances = 1
  MaxFaults = 2
  None = None
CHECK_DEADLOCK FALSE
PROPERTIES EventuallyHealthy DeletionCompletes
