CONSTANTS
  Conn <- MCConn
  Sub <- MCTwoSubs
  RoleSub <- MCOneSub
  ScalarSub <- MCSecond
  Viewer <- MCViewer
  Request = {add}
  RoleRequest = {add}
  OpId = {op}
  Content = {v0, v1}
  Genesis = v0
  Grants <- MCGrants
  Expires <- MCExpires
  None = None
  Closed = Closed
  Capacity = 3
  CleanResumeOnly = TRUE
  MaxCommits = 2
  MaxTime = 1
  MaxFaults = 1
  MaxFrames = 3
  MaxCuts = 1
SPECIFICATION ConnectSpec
CHECK_DEADLOCK FALSE
INVARIANTS
  StreamReconstructs
  CommittedIsOnTheStream
PROPERTY RowsNeedAuthority
