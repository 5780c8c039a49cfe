----------------------------- MODULE MCWorkflow -----------------------------
(* The product's workflows as instances for TLC.                             *)
EXTENDS WorkflowAudit, WorkflowTemplates

CONSTANTS Modes, Verify, ReviewFix, Extra, Templates, MaxVisits, MaxRuns, Clock

Requested ==
  {o \in Options(Modes) : o.template \in Templates /\ o.verify \in Verify /\ o.reviewFix \in ReviewFix}
    \cup {o \in {Audit, Chat} : o.template \in Extra}
Limit(o) ==
  IF o = Chat THEN ChatTurnBudget(2)
  ELSE [maxNodeRuns |-> MaxRuns, maxVisitsPerNode |-> MaxVisits, maxRunMs |-> Clock]
Chosen ==
  {[name |-> o, def |-> Build(o), budget |-> Limit(o),
    adoptable |-> IF o = Chat THEN {"turn"} ELSE {}] : o \in Requested}
=============================================================================
