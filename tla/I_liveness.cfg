SPECIFICATION FairSpec
CONSTANTS
  IdentityIDs = {i1, i2, i3}
  InitiallyPresent = {}
  Projects = {p1, p2, q1}
  Organizations = {o1, o2}
  OrganizationOf <- OneOrganization
  ProjectRefs = {app, infra}
  HomeRef = app
  Targets <- TargetsOneOrganization
  Scopes = {"Project", "Organization"}
  Names = {n1}
  Configs = {g1, g2}
  ProtectedConfigs = {g2}
  RoleSets = {r1}
  OtherRoles = other
  CreationChoices = {"CreateOrAdopt"}
  DeletionChoices = {"Delete"}
  Disturbances = {"spec", "delete", "remove", "configure", "grant", "dependency"}
  FaultKinds = {"rejected", "lost", "crash", "stale"}
  MaxDisturbances = 1
  MaxFaults = 1
  None = None
  p1 = p1 p2 = p2 q1 = q1 o1 = o1 o2 = o2 app = app infra = infra
CHECK_DEADLOCK FALSE
PROPERTIES EventuallyAsDeclared DeletionCompletes
