CONSTANTS
  Followed = {"keys"}
  Players = {u1, u2}
  Accounts = {a1}
  Keys = {k1, k2}
  Teams = {red, blue}
  Processes = {v1, v2}
  KeyTtl = 1
  CacheMax = 1
  MonthStart <- SameTick
  MonthEnd <- NextTick
  MaxLookups = 1
  MaxRequests = 1
  MaxQueue = 1
  MaxRoutes = 2
  Horizon = 1
  None = None
  ann = ann
  bob = bob
  Persons = {ann, bob}
  mail = mail
  disc = disc
  claim = claim
  Identities = {mail, disc, claim}
  Provider <- ProviderOf
  Address <- AddressOf
  Verified <- IsVerified
  Person <- PersonOf
  MaxTickets = 1
  MaxFlight = 1
  MaxSessions = 1
  MaxSecrets = 1
  MaxAtOnce = 3
  MaxHistory = 2
  Claimants = {}
  McRadios = {}
  MtRadios = {}
  Names = {mine, other}
  Codes = {code1}
  Connectors = {c1}
  Procs = {w1}
  Tasks = {}
  Window = 1
  Throttle = 1
  MaxCalls = 2
  MaxTime = 2
  NameOf <- OneName
SPECIFICATION MCSpec
SYMMETRY Alike
INVARIANTS RevokedKeyDies OneSwitchAMonth
CHECK_DEADLOCK FALSE
