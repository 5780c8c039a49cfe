CONSTANTS
  Graphs = {"family", "gateBeside", "twoOfThree"}
  Waits = {"all", "any"}
  Rounds = {TRUE, FALSE}
  MaxVisits = 2
  MaxRuns = 8
  Clock = 1
  Plan <- Plans
SPECIFICATION AuditSpec
INVARIANTS TypeOK BudgetRespected LiveRunHasWork AcceptedWritersAlternate
PROPERTIES FanInIsComplete
CHECK_DEADLOCK FALSE
