CONSTANTS
  Followed = {"Startup", "Connections", "Places"}
  Players = {ann}
  Boards = {mc, mt}
  Places <- ThreePlaces
  Files <- TwoFiles
  Procs = {worker, another}
  Loaders = {worker, another}
  Near <- Neighbours
  Quota = 2
  Cap = 4
  BatchPlaces = 2
  Rollback = FALSE
  MaxVisits = 2
  MaxStops = 2
  MaxFiles = 1
  Horizon = 1
  Web = {w1, w2}
  Worker = w0
  Sessions = {s1}
  v1 = v1
  q1 = q1
  o1 = o1
  Events = {v1, q1, o1}
  Kind <- MCKind
  Indexes = {i1}
  MaxCaptures = 2
  CrashLimit = 1
  Admins = {p1, p2}
  Urls = {u1, u2}
  Malformed = {u2}
  Filters = {f1, f2}
  Creds = {s1}
  MaxRows = 3
  MaxEdits = 3
  FaultLimit = 1
  None = None
SPECIFICATION MCSpec
INVARIANTS CreditedStaysDrawn SelfHealing CaptureLogSurvives ConversionLosesNothing
PROPERTIES BootsComeUp EditsTakeEffect
CHECK_DEADLOCK FALSE
