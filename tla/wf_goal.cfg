CONSTANTS
  Modes = {"all"}
  Verify = {FALSE}
  ReviewFix = {TRUE}
  Templates = {"goal"}
  Extra = {}
  MaxVisits = 4
  MaxRuns = 30
  Clock = 0
  Plan <- Chosen
SPECIFICATION AuditSpec
INVARIANTS GoalMet
CHECK_DEADLOCK FALSE
