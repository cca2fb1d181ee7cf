CONSTANTS
  Handlers = {ann}
  Sessions = {bob}
  Workers = {ingest}
  Conns = {r1, r2, r3, r4}
  PoolMax = 1
  MaxBroken = 1
  public = public
  authed = authed
  group = group
  region = region
  Procs = {p1, p2}
  Alone = {p1}
  Clients = {c1}
  Boards = {b1, b2}
  GroupTtl = 2
  RegionTtl = 1
  Ttl = 1
  BuildTime = 1
  PublishTime = 1
  FaultLimit = 1
  None = None
SPECIFICATION MCSpec
INVARIANTS OneBorrower TransactionsAreOwned ShownForAudience RegionalIsFresh
PROPERTIES WaitersAreServed ReadersCatchUp
CHECK_DEADLOCK FALSE
