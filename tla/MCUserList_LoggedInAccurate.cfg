CONSTANTS
  Paths <- MCPaths
  SystemPaths <- MCSystemPaths
  Names <- MCNames
  SessionPaths <- MCSessionPaths
  SessionUser <- MCSessionUser
  Rank <- MCRank
  Langs <- MCLangs
  MaxChanges = 3
SPECIFICATION Spec
INVARIANTS
  LoggedInAccurate
CHECK_DEADLOCK FALSE
