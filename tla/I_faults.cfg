SPECIFICATION Spec
CONSTANTS
  IdentityIDs = {i1, i2, i3}
  InitiallyPresent = {}
  Projects = {p1, p2, q1}
  Organizations = {o1, o2}
  OrganizationOf <- TwoOrganizations
  ProjectRefs = {app, infra}
  HomeRef = app
  Targets <- TargetsInside
  Scopes = {"Project", "Organization"}
  Names = {n1}
  Configs = {g1, g2}
  ProtectedConfigs = {}
  RoleSets = {r1}
  OtherRoles = other
  CreationChoices = {"Adopt", "CreateOrAdopt"}
  DeletionChoices = {"Delete"}
  Disturbances = {"spec", "delete", "remove", "dependency"}
  FaultKinds = {"lost", "crash", "stale"}
  MaxDisturbances = 2
  MaxFaults = 2
  None = None
  p1 = p1 p2 = p2 q1 = q1 o1 = o1 o2 = o2 app = app infra = infra
SYMMETRY FreshSymmetry
CHECK_DEADLOCK FALSE
INVARIANTS TypeOK OneIdentity RecordedAtHome
PROPERTIES ReadyHonest GrantsInside DeletionDeletesRecorded
