CONSTANTS
  Ids <- Ids3
  References <- References3
  MemberOf <- MemberOf3
  OrdWrap = 2
  Manifests <- MCManifests
SPECIFICATION Spec
INVARIANTS
  NoMemberLost
  FirstDeclaredFirst
  RejectsOnlyFallbacks
  FileOrderIsPlan
PROPERTY ImplementsDelivery
CHECK_DEADLOCK FALSE
