SPECIFICATION Spec
CONSTANTS
  ProjectIDs = {p0, p1, p2}
  InitiallyPresent = {p0}
  Organizations = {o1, o2}
  TokenOrganization = o1
  TokenNamesIdentity = TRUE
  Bindings = {TRUE, FALSE}
  Names = {n1}
  Slugs = {None, s1}
  Descriptions = {d1}
  NoDescription = d0
  Protections = {FALSE}
  CreationChoices = {"Adopt", "CreateOrAdopt"}
  DeletionChoices = {"Delete"}
  Disturbances = {"spec", "delete", "remove", "configure", "organization"}
  FaultKinds = {"rejected", "lost", "crash", "stale"}
  MaxDisturbances = 2
  MaxFaults = 2
  None = None
SYMMETRY FreshSymmetry
CHECK_DEADLOCK FALSE
INVARIANTS TypeOK OneProject
PROPERTIES RecordedInsideBoundary DeletionDeletesRecorded OutsideIsUntouched
