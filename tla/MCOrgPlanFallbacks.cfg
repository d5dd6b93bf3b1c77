CONSTANTS
  Ids <- Ids3
  References <- References3
  MemberOf <- MemberOf3
  OrdWrap = 256
  Manifests <- MCManifests
SPECIFICATION Spec
INVARIANT AcyclicByConstruction
CHECK_DEADLOCK FALSE
