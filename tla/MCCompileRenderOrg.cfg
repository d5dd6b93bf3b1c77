CONSTANTS
  Forms = {"org"}
  Titles <- MCTitles
  Classify <- MCClassify
  Levels = {1, 2}
  Texts = {"x"}
  Codes = {"x"}
  FrontText = "front"
  ArtifactText = "artifact"
  GateText = "gate"
  None = "none"
  MaxBlocks <- MCMaxBlocksOrg
  MaxSkills = 1
SPECIFICATION Spec
INVARIANT MemberRoundTrip
CHECK_DEADLOCK FALSE
