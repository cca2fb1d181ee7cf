\* One worker, as deployed, and a batch that always fails.
CONSTANTS
  Workers = {w1}
  Payloads = {p1, p2, bad}
  Poison = {bad}
  QueueMax = 3
  DrainBatch = 2
  MaxAttempts = 2
  FaultLimit <- EveryFault
  MaxCrashes = 1
  MaxSubmits = 3
SPECIFICATION FairSpec
PROPERTIES LedgerSpec Drains
CHECK_DEADLOCK FALSE
