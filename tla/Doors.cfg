CONSTANTS
  Followed = {"doors", "claims", "watchers"}
  Accounts = {a1, a2}
  ann = ann
  bob = bob
  Persons = {ann, bob}
  mail = mail
  disc = disc
  claim = claim
  Identities = {mail, disc, claim}
  Provider <- ProviderOf
  Address <- AddressOf
  Verified <- IsVerified
  Person <- PersonOf
  MaxTickets = 1
  MaxFlight = 1
  MaxRequests = 1
  MaxSessions = 1
  MaxSecrets = 1
  Horizon = 2
  None = None
  MaxAtOnce = 3
  MaxHistory = 2
  Claimants = {ann}
  Players = {ann, bob}
  McRadios = {r1}
  MtRadios = {m1}
  Names = {mine, other}
  Codes = {code1}
  Connectors = {c1}
  Procs = {w1}
  Tasks = {t1, t2}
  Window = 1
  Throttle = 1
  MaxCalls = 2
  MaxTime = 2
  NameOf <- OneName
  Keys = {k1}
  Teams = {red}
  Processes = {}
  KeyTtl = 1
  CacheMax = 1
  MonthStart <- SameTick
  MonthEnd <- NextTick
  MaxLookups = 1
  MaxQueue = 1
  MaxRoutes = 2
SPECIFICATION MCSpec
SYMMETRY Same
CONSTRAINT Small
INVARIANTS HasDoor SecondFactorHolds OneWatcher
PROPERTY ClaimsAreProven
CHECK_DEADLOCK FALSE
