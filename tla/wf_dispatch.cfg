CONSTANTS
  Graphs = {"repair", "beside"}
  MaxVisits = 2
  MaxRuns = 4
  Clock = 1
  Plan <- Plans
  MaxRestarts = 1
  MaxSweeps = 1
SPECIFICATION FairDispatchSpec
INVARIANTS RecordIsOfThisVisit NothingStrays
PROPERTIES DispatchConcludes
CHECK_DEADLOCK FALSE
