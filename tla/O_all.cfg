SPECIFICATION FairSpec
CONSTANTS
  OrganizationIDs = {o1, o2, o3}
  InitiallyPresent = {o1}
  CreationChoices = {"Create", "Adopt", "CreateOrAdopt"}
  DeletionChoices = {"Delete"}
  Disturbances = {"spec", "delete", "remove", "rename", "credential", "connection"}
  FaultKinds = {"rejected", "lost", "crash", "stale"}
  MaxDisturbances = 2
  MaxFaults = 1
  None = None
CHECK_DEADLOCK FALSE
INVARIANTS TypeOK OneOrganization
PROPERTIES DeletionDeletesRecorded EventuallyAsDeclared DeletionCompletes
