CONSTANTS
  Paths <- MCPaths
  SystemPaths <- MCSystemPaths
  Names <- MCNames
  SessionPaths <- MCSessionPaths
  SessionUser <- MCSessionUser
  Rank <- MCRank
  Langs <- MCLangs
  MaxChanges = 3
SPECIFICATION FairSpec
PROPERTY ListConverges
INVARIANTS
  TypeOK
  UsersUnique
  UserListAccurate
  LiveSessionsKnown
  UserValuesFresh
CHECK_DEADLOCK FALSE
