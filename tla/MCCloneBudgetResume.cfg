CONSTANTS
  Repos <- MCRepos
  Kb <- MCKb
  MaxKb = 3
  Ceiling = 4
  Jobs = 2
  AdmitTries = 2
  TreeSizes = {1, 4}
  PartSizes = {0, 1}
  MaxRuns = 2
SPECIFICATION Spec
INVARIANT ChargedIsBytesOnDisk
CHECK_DEADLOCK FALSE
