\* Two players share one radio's tag and post sessions of the first two ticks,
\* up to two batches of two pings.
CONSTANTS
  Followed = {"pings"}
  Players = {p1, p2}
  Radios = {r1, r2}
  Cells = {c1, c2}
  Tags = {t1}
  r1 = r1
  r2 = r2
  c1 = c1
  c2 = c2
  t1 = t1
  tower = tower
  hash = hash
  Ids <- EitherId
  Names <- HashOfR2
  None = None
  Pings <- Shapes
  Dist <- Far
  GlitchSpeed = 1
  Clamp = 1
  Lag = 1
  Retention = 1
  TagRetention = 1
  ClaimCap = 1
  ClaimWindow = 1
  NodeTtl = 1
  DirectoryTtl = 1
  BatchSize = 2
  MaxBatches = 2
  MaxAdverts = 0
  Horizon = 2
  Nodes = {}
  Brokers = {mqtt}
  Feeds = {feed}
  McFeeds = {feed}
  mqtt = mqtt
  feed = feed
  Order <- FeedFirst
  Nets <- TwoNets
  Weekday <- OneDayEach
  Week = 2
  Window = 2
  BufferKept = 0
  SeenKept = 2
  SeasonDays = 2
  MaxSent = 2
  MaxChanges = 1
SPECIFICATION MCSpec
SYMMETRY Interchangeable
VIEW WithoutEvidence
INVARIANTS PaidOnceWhileKept TagPaysOnePlayer
CHECK_DEADLOCK FALSE
