\* Check-ins; or an id that may be either a repeater or a player's radio, the list of
\* radios and the directory of repeaters, each cached.
CONSTANTS
  Followed = {"check-ins", "pings"}
  Nodes = {n1}
  Players = {p1}
  Brokers = {mqtt}
  Feeds = {feed}
  McFeeds = {feed}
  mqtt = mqtt
  feed = feed
  Order <- FeedFirst
  Nets <- TwoNets
  Weekday <- OneDayEach
  Week = 2
  Window = 2
  BufferKept = 0
  SeenKept = 2
  SeasonDays = 2
  MaxSent = 2
  MaxChanges = 1
  Horizon = 3
  None = None
  Radios = {r1, r2}
  Cells = {c1}
  Tags = {}
  r1 = r1
  r2 = r2
  c1 = c1
  c2 = c2
  t1 = t1
  tower = tower
  hash = hash
  Ids <- EitherId
  Names <- HashOfR2
  Pings <- Echoes
  Dist <- Far
  GlitchSpeed = 1
  Clamp = 1
  Lag = 0
  Retention = 3
  TagRetention = 1
  ClaimCap = 1
  ClaimWindow = 1
  NodeTtl = 2
  DirectoryTtl = 2
  BatchSize = 1
  MaxBatches = 2
  MaxAdverts = 2
SPECIFICATION MCSpec
INVARIANTS BufferedPaysOneSeason StreakIsAttended
PROPERTIES RadiosAreNotCredited
CHECK_DEADLOCK FALSE
