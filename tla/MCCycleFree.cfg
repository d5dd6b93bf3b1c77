CONSTANTS
  N = 4
  MaxEdges = 2
  Lists <- MCLists
SPECIFICATION Spec
INVARIANTS
  OkMeansAcyclic
  CycleIsReal
  ReportsCycle
PROPERTIES
  Terminates
CHECK_DEADLOCK FALSE
