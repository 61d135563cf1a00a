CONSTANTS
  Conn <- MCConn
  Sub <- MCTwoSubs
  RoleSub <- MCOneSub
  ScalarSub = {}
  Viewer <- MCViewer
  Request = {add}
  RoleRequest = {}
  OpId = {}
  Content = {v0, v1}
  Genesis = v0
  Grants <- MCGrants
  Expires <- MCExpires
  None = None
  Closed = Closed
  Capacity = 3
  CleanResumeOnly = FALSE
  MaxCommits = 2
  MaxTime = 0
  MaxFaults = 0
  MaxFrames = 3
  MaxCuts = 1
SPECIFICATION ConnectSpec
CHECK_DEADLOCK FALSE
INVARIANT
  ResumeIsGapless
