CONSTANTS
  Forms = {"single", "bundle", "org"}
  Titles <- MCTitles
  Classify <- MCClassify
  Levels = {1, 2}
  Texts = {"x"}
  Codes = {"x"}
  FrontText = "front"
  ArtifactText = "artifact"
  GateText = "gate"
  None = "none"
  MaxBlocks <- MCMaxBlocks
  MaxSkills = 2
SPECIFICATION Spec
INVARIANTS
  TypeOK
  NeverRefused
  CommitmentsVerify
  VerifiedWithinTier
  NoProseInRouting
  RoundTrip
CHECK_DEADLOCK FALSE
