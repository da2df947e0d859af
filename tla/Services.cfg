SPECIFICATION Spec
CONSTANTS
  Logged = {1, 4}
  OldTip = 2
  MaxBlock = 4
  Conns = {c1}
  FilterIds = {f1, f2}
  Polls = {p1, p2}
  MaxFilters = 1
  NoFilter = NoFilter
  SubIds = {s1, s2}
  MaxWSConnections = 1
  MaxWSSubscriptionsPerConn = 2
  EventBuf = 1
  SendBuf = 2
  NoSub = NoSub
  StartBlock = 0
  MaxBlocksPerTick = 2
  Requests = {r1, r2}
  IPs = {ip1}
  Addrs = {x, y}
  PerIP = 2
  PerAddress = 1
  Funds = 1
  Windows = 1
  NoRequest = NoRequest
  Deployments <- SmallDeployments
CHECK_DEADLOCK FALSE
INVARIANTS DatabaseIsOneBlock LogsAreComplete PollsMissNothing  RowsHaveNoGap PaymentsWithinLimit 
PROPERTIES IndexCatchesUp DeadConnectionsEnd
