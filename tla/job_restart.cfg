CONSTANTS
  a = a  b = b  c = c  d = d
  alice = alice  bob = bob  ws = ws  ws2 = ws2  k = k  g = g
  NoJob = NoJob
  NoKey = NoKey
  Job = {a, b, c}
  Request <- RestartRequests
  Graph = {}
  GraphRequest <- NoGraph
  MaxConcurrent = 2
  MaxPerUser = 2
  ResourceLimit <- Lanes
  MaxRetryAttempts = 2
  MaxRestarts = 1
  MaxLag = 2
SPECIFICATION Spec
INVARIANTS DependenciesHeld IdempotentAdmission
PROPERTIES DurableOutcome ImplementsLedger
CHECK_DEADLOCK FALSE
