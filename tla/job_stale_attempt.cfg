CONSTANTS
  a = a  b = b  c = c  d = d
  alice = alice  bob = bob  ws = ws  ws2 = ws2  k = k  g = g
  NoJob = NoJob
  NoKey = NoKey
  Job = {a}
  Request <- OneRetried
  Graph = {}
  GraphRequest <- NoGraph
  MaxConcurrent = 2
  MaxPerUser = 2
  ResourceLimit <- Lanes
  MaxRetryAttempts = 2
  MaxRestarts = 0
  MaxLag = 1
SPECIFICATION Spec
INVARIANTS OutcomeOfLastAttempt
CHECK_DEADLOCK FALSE
