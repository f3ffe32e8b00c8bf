SPECIFICATION FairSpec
CONSTANTS
  EnvironmentIDs = {e1, e2, e3, e4}
  InitiallyPresent = {e1}
  Projects = {p1, p2}
  Configs = {g1, g2}
  CreationChoices = {"Adopt", "CreateOrAdopt"}
  DeletionChoices = {"Delete"}
  Disturbances = {"spec", "delete", "remove", "configure", "project", "connection"}
  FaultKinds = {"rejected", "lost", "crash", "stale"}
  MaxDisturbances = 2
  MaxFaults = 1
  None = None
CHECK_DEADLOCK FALSE
INVARIANT TypeOK
PROPERTIES RecordsTogether DeletionDeletesRecorded EventuallyAsDeclared DeletionCompletes
