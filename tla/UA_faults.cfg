SPECIFICATION Spec
CONSTANTS
  Credentials = {c1, c2, c3}
  Nonces = {n1, n2}
  Configs = {g1, g2}
  Identities = {i1}
  CreationChoices = {"Create", "Adopt", "CreateOrAdopt"}
  DeletionChoices = {"Orphan", "Delete"}
  InitiallyAttached = {}
  Disturbances = {"spec", "delete", "secret", "claim", "revoke", "detach", "configure", "dependency"}
  FaultKinds = {"rejected", "lost", "crash", "stale"}
  MaxDisturbances = 2
  MaxFaults = 1
  None = None
SYMMETRY CredentialSymmetry
CHECK_DEADLOCK FALSE
INVARIANTS PublishedNotRotatedOut NoStrayCredential RotationHonoured DeleteLeavesNothing
PROPERTIES DeletionDetachesRecorded ImplementsRotation
