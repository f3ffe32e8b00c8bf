SPECIFICATION FairSpec
CONSTANTS
  ProjectIDs = {p0, p1, p2}
  InitiallyPresent = {}
  Organizations = {o1, o2}
  TokenOrganization = o1
  TokenNamesIdentity = TRUE
  Bindings = {TRUE}
  Names = {n1}
  Slugs = {None}
  Descriptions = {d0, d1}
  NoDescription = d0
  Protections = {FALSE}
  CreationChoices = {"CreateOrAdopt"}
  DeletionChoices = {"Delete"}
  Disturbances = {"remove"}
  FaultKinds = {}
  MaxDisturbances = 1
  MaxFaults = 0
  None = None
CHECK_DEADLOCK FALSE
PROPERTY VanishedIsReplaced
