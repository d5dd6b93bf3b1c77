CONSTANTS
  q1 = q1
  q2 = q2
  blank = blank
  x = x
  y = y
  Clients = {x, y}
  Tools <- MCTools
  Names <- MCNames
  Rank <- MCRank
  Shelves <- MCShelves
  Releases <- MCReleases
  MaxBytes = 5
  Queries = {q1, q2, blank}
  Limits = {2}
  Lexical <- MCLexical
  Similar <- MCSimilar
  Wordless = {blank}
SPECIFICATION Spec
INVARIANTS
  TypeOK
  SearchTrue
  ToolsAnswerTruly
PROPERTY SearchAnswered
CHECK_DEADLOCK FALSE
