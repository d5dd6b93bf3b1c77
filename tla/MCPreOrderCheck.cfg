CONSTANTS
  N = 4
  TierCount = 3
  NONE <- MCNone
  ParentField <- MCParentField
  Tier <- MCTier
SPECIFICATION Spec
INVARIANTS
  TypeOK
  AcceptedIsTree
PROPERTIES
  Terminates
  ImplementsDecision
CHECK_DEADLOCK FALSE
