CONSTANTS
  None = None
  MaxTurns = 2
  MaxRestores = 0
  MaxFaults = 1
SPECIFICATION Spec
INVARIANTS OpenIsUpToDate
CHECK_DEADLOCK FALSE
