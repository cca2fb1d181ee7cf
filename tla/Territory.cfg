CONSTANTS
  Players = {p1, p2}
  Teams = {red, blue}
  Cells = {c1}
  Repeaters = {r1, r2, r3}
  r1 = r1
  r2 = r2
  r3 = r3
  Longer <- OnePrefix
  DeferId = DeferId
  NoTeam = NoTeam
  NoRow = NoRow
  Points = 4
  MaxPoints = 4
  Bonus = 1
  Decay = 2
  Defense = 1
  Cooldown = 2
  Clamp = 1
  Retention = 4
  ZeroSpan = 3
  MaxPerSweep = 1
  Releases = TRUE
  Lag = 0
  ClientClocks <- Clocks
  Horizon = 7
  Spammers = {q1}
  Sole = {green}
  SpamEnds = 5
SPECIFICATION MCSpec
SYMMETRY Interchangeable
VIEW Read
INVARIANTS OwnerIsRecorded DefenseHeld OwnershipExactUntilRelease CreditsAreSpaced
CHECK_DEADLOCK FALSE
