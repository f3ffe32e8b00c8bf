SPECIFICATION FairSpec
CONSTANTS
  ProjectIDs = {p1, p2, p3}
  InitiallyPresent = {}
  Organizations = {o1, o2}
  TokenOrganization = o1
  TokenNamesIdentity = TRUE
  Bindings = {FALSE, TRUE}
  Names = {n1}
  Slugs = {None}
  Descriptions = {d0, d1}
  NoDescription = d0
  Protections = {FALSE, TRUE}
  CreationChoices = {"CreateOrAdopt"}
  DeletionChoices = {"Delete"}
  Disturbances = {"spec", "delete", "remove", "configure", "organization", "connection"}
  FaultKinds = {"rejected", "lost", "crash", "stale"}
  MaxDisturbances = 2
  MaxFaults = 1
  None = None
CHECK_DEADLOCK FALSE
PROPERTIES EventuallyAsDeclared DeletionCompletes
