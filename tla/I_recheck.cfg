SPECIFICATION Spec
CONSTANTS
  IdentityIDs = {i1}
  InitiallyPresent = {}
  Projects = {p1, p2, q1}
  Organizations = {o1, o2}
  OrganizationOf <- TwoOrganizations
  ProjectRefs = {app}
  HomeRef = app
  Targets <- TargetsAcross
  Scopes = {"Organization"}
  Names = {n1}
  Configs = {g1}
  ProtectedConfigs = {}
  RoleSets = {r1}
  OtherRoles = other
  CreationChoices = {"Create"}
  DeletionChoices = {"Delete"}
  Disturbances = {"dependency"}
  FaultKinds = {}
  MaxDisturbances = 1
  MaxFaults = 0
  None = None
  p1 = p1 p2 = p2 q1 = q1 o1 = o1 o2 = o2 app = app infra = infra
CHECK_DEADLOCK FALSE
PROPERTY GrantsInside
