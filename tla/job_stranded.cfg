CONSTANTS
  a = a  b = b  c = c  d = d
  alice = alice  bob = bob  ws = ws  ws2 = ws2  k = k  g = g
  NoJob = NoJob
  NoKey = NoKey
  Job = {a, b, c}
  Request <- ChainRequests
  Graph = {g}
  GraphRequest <- ReverseGraph
  MaxConcurrent = 2
  MaxPerUser = 1
  ResourceLimit <- Lanes
  MaxRetryAttempts = 2
  MaxRestarts = 0
  MaxLag = 1
SPECIFICATION FairSpec
PROPERTIES DependentsFail
CHECK_DEADLOCK FALSE
