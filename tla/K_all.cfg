SPECIFICATION FairSpec
CONSTANTS
  AuthIDs = {a1, a2, a3, a4}
  InitiallyAttached = {a1}
  Identities = {i1, i2}
  Configs = {g1, g2}
  DeclaredConfigs = {g1}
  Tokens = {t1, t2}
  CreationChoices = {"Adopt", "CreateOrAdopt"}
  DeletionChoices = {"Delete"}
  Disturbances = {"spec", "delete", "detach", "attach", "configure", "identity", "secret", "connection"}
  FaultKinds = {"rejected", "lost", "crash", "stale"}
  MaxDisturbances = 2
  MaxFaults = 1
  None = None
CHECK_DEADLOCK FALSE
INVARIANT TypeOK
PROPERTIES RecordsTogether DeletionDetachesRecorded EventuallyAsDeclared DeletionCompletes
