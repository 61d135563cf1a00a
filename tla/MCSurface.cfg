CONSTANTS
  Conn <- MCConn
  Sub <- MCSub
  RoleSub <- MCRoleSub
  Request = {add, rename}
  RoleRequest = {add, rename}
  OpId = {op}
  Content = {v0}
  Genesis = v0
  Grants <- MCGrants
  Expires <- MCExpires
  None = None
  MaxCommits = 3
  MaxTime = 1
  MaxFaults = 1
  Misfit = Misfit
  Occurrence = {1, 2, 3, 4}
  Value = {1, 2}
  AtStart = AtStart
  AtEnd = AtEnd
  Size = {0, 1, 3}
  Forged = Forged
  Nothing = None
  Public = "public"
  PublicSurface <- MCPublicSurface
  Role <- MCRole
  Authenticator <- MCAuthenticator
  AccountRow <- MCAccountRow
  SessionRow <- MCSessionRow
  Grant <- MCGrant
  Node <- MCNode
  NodePath <- MCNodePath
  Seed <- MCSeed
  Selection <- MCSelection
  Context = {"default"}
  Address <- MCAddress
  Scope <- MCScope
  Descendant <- MCDescendant
  Args <- MCArgs
  MaxClock = 1
  MaxMoves = 5
SPECIFICATION SurfaceSpec
CHECK_DEADLOCK FALSE
INVARIANTS
  CompletionBarrier
  OneCutPerConnection
  NoWatchOutlivesAuthority
  RetryReobservesOneCommit
  ClientHoldsTheWindow
  AnswersRevealNoRole
  ReachIsWhatIsShown
PROPERTY
  FrontiersNeverRegress
