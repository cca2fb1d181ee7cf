CONSTANTS
  Radios = {r1}
  PageLimit = 1
  VerifKept = 1
  PingKept = 1
  SeedGrace = 0
  MaxEvents = 3
  MaxAdmin = 2
  Horizon = 2
  None = None
  Players = {a, b}
  Cells = {0, 3}
  Stamps = {1, 2}
  MaxSpeed = 1
  Window = 2
  PageSize = 2
  Depth = 3
  MaxPackets = 3
  MaxHands = 1
  FaultLimit = 1
  Codes = {c1, c2}
  Squares = {1, 2}
  Batch = 1
  Shapes = {{1, 2}, {2}}
  StableFor = 1
  MaxTime = 2
  TxnRows = 1
  RegionCodes = {boi}
  Slugs = {s1, s2, s3, boi}
  GroupIds = {1, 2, 3}
  Askers = {p1}
  DailyLimit = 1
  Day = 2
  MaxRequests = 3
SPECIFICATION MCSpec
INVARIANTS OldEventsPaintOnce DecidedUpToCursor LastFixIsNewest MembershipIsCurrent NoGroupHoldsItself
CHECK_DEADLOCK FALSE
