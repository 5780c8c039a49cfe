---------------------------- MODULE WorkflowAudit ----------------------------
(* What a run of the product's workflows may conclude, and from what: a      *)
(* WorkflowRun with the history its trace would show. The history never      *)
(* guards a step.                                                            *)
EXTENDS WorkflowRun

VARIABLES
  since,    \* <<node, outcome>> decided since an author was last started
  ever,     \* <<node, outcome>> decided in the whole run
  gathered  \* join -> predecessors whose outcome led to it since it was last started

history == <<since, ever, gathered>>

Started(n) == visits'[n] > visits[n]

AuditInit ==
  Init /\ since = {} /\ ever = {} /\ gathered = [j \in Joins |-> {}]

(* n, if its outcome takes an edge to j.                                     *)
Arriving(n, outcome, j) == {n : i \in {i \in Matched(Def, n, outcome) : Target(i) = j}}

Note(n, outcome) ==
  LET decided == {<<n, outcome>> : m \in {n} \cap Deciders(Def)} IN
  /\ ever' = ever \cup decided
  /\ since' = IF \E m \in Authors(Def) : Started(m) THEN {} ELSE since \cup decided
  /\ gathered' = [j \in Joins |->
       IF Started(j) THEN {}
       ELSE gathered[j] \cup Arriving(n, outcome, j)]

AuditStep(n) ==
  \/ \E o \in Outcomes(Def.node[n]) : Report(n, o) /\ Note(n, o)
  \/ SettleJoin(n) /\ Note(n, "success")
  \/ Continue(n) /\ Note(n, "human:continue")

AuditNext ==
  \/ Start /\ UNCHANGED history
  \/ \E n \in plan.adoptable, k \in 1..Limits.maxVisitsPerNode : Adopt(n, k) /\ UNCHANGED history
  \/ \E n \in Ids(Def) : AuditStep(n)
  \/ Sweep /\ UNCHANGED history
  \/ Expire /\ UNCHANGED history
  \/ Tick /\ UNCHANGED history

AuditSpec == AuditInit /\ [][AuditNext]_<<vars, history>>
AuditFairSpec == AuditSpec /\ WF_vars(Reports)

-----------------------------------------------------------------------------
Judged(verdict, seen) == \E n \in Verdicts(Def) : <<n, verdict>> \in seen

(* A pass is a verdict on what is in the working tree, or in the report, at  *)
(* the end: no author ran after the capture that was judged, and the judge   *)
(* said so, in every loop of every template (qaap-workflow-ir.ts:896-907).   *)
PassJudgesTheLastChange ==
  bindings \cap Passed # {} =>
    /\ Judged("verdict:pass", since)
    /\ active \cap Authors(Def) = {}
    /\ \A n \in Captures(Def) : <<n, "success">> \in since

(* A change that a reviewer rejected never ends as "review skipped", however *)
(* often it was fixed and captured again (qaap-workflow-ir.ts:901-907).      *)
RejectionIsNotSkipped ==
  "review.skipped" \in bindings => ever \cap Rejecting(Def) = {}

(* In the two planned templates nothing is written before the plan was       *)
(* approved, by the person or by the judge, and a rejected plan is planned   *)
(* again first (qaap-workflow-ir.ts:583-590, 634-635, 660-663).              *)
NothingWrittenUnapproved ==
  \A n \in CwdWriters(Def) :
    "plan" \in Ids(Def) /\ visits[n] > 0 => ever \cap Approvals # {}

(* At most one turn that may edit the working tree is active, whatever the   *)
(* interleaving of the branches (qaap-workflow-ir.ts:340-345).               *)
SingleWriter == \A m, n \in active \cap CwdWriters(Def) : m = n

(* No branch of a template is stranded: a run that ends on its own ends at   *)
(* an emit with exactly one conclusion, or because a node without an edge    *)
(* for its failure ended it as failed (qaap-workflow-ir.ts:827-829, 915-918).*)
(* A rejected change and a successful run exclude each other.                *)
EndsWithOneConclusion ==
  /\ reason # "stalled"
  /\ status = "succeeded" => reason = "emit"
  /\ bindings # {} => status \in {"succeeded", "failed"} /\ Cardinality(bindings) = 1
  /\ status = "succeeded" => bindings \cap Rejections = {}

(* A fan-in starts what comes after it only when as many predecessors as it  *)
(* waits for came in since it last did so, also when a loop passes through   *)
(* the join again (qaap-workflow-run.ts:306-322). Who reported is no longer  *)
(* active, or was started again at once.                                     *)
Reporting == {n \in active : n \notin active' \/ Started(n)}
FanInIsComplete ==
  [][status # "none" => \A j \in Joins : Started(j) =>
       Cardinality(gathered[j] \cup Reporting) >= Required(Def, j)]_<<vars, history>>

(* A run that verifies succeeds only after a check that passed on the tree   *)
(* it leaves behind. Without the review fix loop:                            *)
GoalMet ==
  "verify" \in Ids(Def) /\ status = "succeeded" /\ visits["implement"] > 0
    => <<"verify", "success">> \in since
GoalMetWithoutReviewFix == "implement-review-fix" \notin Ids(Def) => GoalMet
=============================================================================
