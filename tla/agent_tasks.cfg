CONSTANTS
  t1 = t1
  t2 = t2
  ann = ann
  NoOwner = NoOwner
  Tasks = {t1, t2}
  OwnerOf <- OwnersOf
  RepoOf <- ReposOf
  Sharing = {t1, t2}
  MaxAgents = 2
  OwnerLimit = 2
  RepoLimit = 0
  QueueLimit = 2
  OwnerQueueLimit = 2
  MaxPasses = 1
  MaxRestarts = 1
SPECIFICATION FairSpec
INVARIANTS TypeOK LimitsRespected NoStrayAgent NothingEligibleWaits LaneIsAccounted
PROPERTIES NoOvertaking QueueMoves
CHECK_DEADLOCK FALSE
