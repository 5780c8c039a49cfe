CONSTANTS
  None = None
  MaxTurns = 2
  MaxRestores = 1
  MaxFaults = 1
SPECIFICATION FairSpec
INVARIANTS UndoneTurnsLeave TurnsAreInHead
PROPERTIES ChangesArePublished
CONSTRAINT NotParted
CHECK_DEADLOCK FALSE
