CONSTANTS
  Modes = {"high-risk", "all", "off"}
  Verify = {TRUE, FALSE}
  ReviewFix = {TRUE, FALSE}
  Templates = {"implement-then-review", "goal", "plan-then-implement", "explore-then-implement", "multi-lens-review", "plan-gate-then-implement"}
  Extra = {"evidence-audit", "chat-turn"}
  MaxVisits = 8
  MaxRuns = 64
  Clock = 0
  Plan <- Chosen
SPECIFICATION AuditFairSpec
INVARIANTS PassJudgesTheLastChange RejectionIsNotSkipped NothingWrittenUnapproved SingleWriter EndsWithOneConclusion GoalMetWithoutReviewFix
PROPERTIES RunConcludes NoDoubleDispatch
CHECK_DEADLOCK FALSE
