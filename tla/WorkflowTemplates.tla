-------------------------- MODULE WorkflowTemplates --------------------------
(* The definitions the product starts: the builders of                       *)
(* common/qaap-workflow-ir.ts and common/qaap-chat-turn-workflow.ts, for     *)
(* every combination of options the template registry passes to them.        *)
(*                                                                           *)
(* A part of a graph is [node, edges]; a builder joins the parts its options *)
(* ask for in the order the code pushes them. Prompts, agents, cost tiers    *)
(* and artifacts do not decide what runs next and are left out.              *)
EXTENDS WorkflowIR, TLC

Part(node, edges) == [node |-> node, edges |-> edges]
Nothing == Part([n \in {} |-> 0], <<>>)
p ++ q == Part(p.node @@ q.node, p.edges \o q.edges)

Reader(capability) == AgentTurn(capability, "cwd-readonly", FALSE)
Judge == AgentTurn("judge", "cwd-readonly", TRUE)
Writer == AgentTurn("implement", "cwd", FALSE)

(* One edge per label from a node to one target.                             *)
Edges(from, to, labels) == [i \in DOMAIN labels |-> Edge(from, to, labels[i])]
Unfinished == <<"fail", "blocked">>

-----------------------------------------------------------------------------
(* The options of buildImplementThenReviewWorkflow, as the registry sets     *)
(* them: o.template with the deployment's review mode and the two switches   *)
(* of the start request.                                                     *)
WithVerify(o) == o.verify \/ o.template = "goal"
VerdictNode(o) == IF o.template = "multi-lens-review" THEN "review-synthesis" ELSE "judge"
AfterImplement(o) == IF WithVerify(o) THEN "verify" ELSE "implement"

ImplementPart ==
  Part("implement" :> Writer @@ "done-skip" :> Emit("review.skipped"),
       Edges("implement", "done-skip", Unfinished))

(* A person approves the plan.                                               *)
PlanPart ==
  Part("plan" :> Reader("explore") @@ "approve-plan" :> HumanGate
         @@ "done-unplanned" :> Emit("plan.failed"),
       <<Edge("plan", "approve-plan", "success")>>
         \o Edges("plan", "done-unplanned", Unfinished)
         \o <<Edge("approve-plan", "implement", "human:continue")>>)

(* Mutant: a judge that cannot tell lets the plan through.                   *)
PlanGateLenient ==
  Part("plan" :> Reader("explore") @@ "judge-plan" :> Judge
         @@ "done-unplanned" :> Emit("plan.failed")
         @@ "done-plan-inconclusive" :> Emit("plan.inconclusive"),
       <<Edge("plan", "judge-plan", "success")>>
         \o Edges("plan", "done-unplanned", Unfinished)
         \o <<Edge("judge-plan", "implement", "verdict:pass"),
              Edge("judge-plan", "plan", "verdict:fail"),
              Edge("judge-plan", "implement", "verdict:inconclusive")>>
         \o Edges("judge-plan", "done-unplanned", Unfinished))

(* A judge approves the plan, or sends it back to the plan turn.             *)
PlanGatePart ==
  Part("plan" :> Reader("explore") @@ "judge-plan" :> Judge
         @@ "done-unplanned" :> Emit("plan.failed")
         @@ "done-plan-inconclusive" :> Emit("plan.inconclusive"),
       <<Edge("plan", "judge-plan", "success")>>
         \o Edges("plan", "done-unplanned", Unfinished)
         \o <<Edge("judge-plan", "implement", "verdict:pass"),
              Edge("judge-plan", "plan", "verdict:fail"),
              Edge("judge-plan", "done-plan-inconclusive", "verdict:inconclusive")>>
         \o Edges("judge-plan", "done-unplanned", Unfinished))

Explorers == <<"explore-structure", "explore-verification">>
ExplorationPart ==
  Part([n \in {Explorers[i] : i \in DOMAIN Explorers} |-> Reader("explore")]
         @@ "explored" :> Join("all", 0),
       [i \in DOMAIN Explorers |-> Edge(Explorers[i], "explored", "always")]
         \o <<Edge("explored", "implement", "always")>>)

(* Mutant: the fix is believed without a second check.                       *)
VerifyOnce ==
  Part("verify" :> Deterministic("verify") @@ "implement-fix" :> Writer
         @@ "done-unverified" :> Emit("verify.failed"),
       <<Edge("implement", "verify", "success"),
         Edge("verify", "implement-fix", "fail"),
         Edge("implement-fix", "done-skip", "success")>>
         \o Edges("implement-fix", "done-unverified", Unfinished))
VerifyPart ==
  Part("verify" :> Deterministic("verify") @@ "implement-fix" :> Writer
         @@ "done-unverified" :> Emit("verify.failed"),
       <<Edge("implement", "verify", "success"),
         Edge("verify", "implement-fix", "fail"),
         Edge("implement-fix", "verify", "success")>>
         \o Edges("implement-fix", "done-unverified", Unfinished))

ReviewOffPart(o) == Part(Nothing.node, <<Edge(AfterImplement(o), "done-skip", "success")>>)

Lenses == <<"judge-correctness", "judge-safety", "judge-intent">>
(* Mutant: a lens that fails never reaches the join.                         *)
LensStranded ==
  Part([n \in {Lenses[i] : i \in DOMAIN Lenses} |-> Reader("judge")]
         @@ "reviewed" :> Join("all", 0) @@ "review-synthesis" :> Judge,
       [i \in DOMAIN Lenses |-> Edge("git-diff", Lenses[i], "success")]
         \o [i \in DOMAIN Lenses |-> Edge(Lenses[i], "reviewed", "success")]
         \o <<Edge("reviewed", "review-synthesis", "always"),
              Edge("review-synthesis", "done-inconclusive", "blocked")>>)
(* Mutant: the lenses lead to the synthesis without a join.                  *)
LensPartNoJoin ==
  Part([n \in {Lenses[i] : i \in DOMAIN Lenses} |-> Reader("judge")]
         @@ "review-synthesis" :> Judge,
       [i \in DOMAIN Lenses |-> Edge("git-diff", Lenses[i], "success")]
         \o [i \in DOMAIN Lenses |-> Edge(Lenses[i], "review-synthesis", "always")]
         \o <<Edge("review-synthesis", "done-inconclusive", "blocked")>>)
LensPart ==
  Part([n \in {Lenses[i] : i \in DOMAIN Lenses} |-> Reader("judge")]
         @@ "reviewed" :> Join("all", 0) @@ "review-synthesis" :> Judge,
       [i \in DOMAIN Lenses |-> Edge("git-diff", Lenses[i], "success")]
         \o [i \in DOMAIN Lenses |-> Edge(Lenses[i], "reviewed", "always")]
         \o <<Edge("reviewed", "review-synthesis", "always"),
              Edge("review-synthesis", "done-inconclusive", "blocked")>>)
JudgePart == Part("judge" :> Judge, <<Edge("git-diff", "judge", "success")>>)

RiskGatePart(o) ==
  Part("risk-classify" :> Deterministic("risk-classify") @@ "git-diff" :> Deterministic("git-diff")
         @@ "done-pass" :> Emit("review.passed") @@ "done-fail" :> Emit("review.failed")
         @@ "done-inconclusive" :> Emit("review.inconclusive"),
       <<Edge(AfterImplement(o), "risk-classify", "success"),
         Edge("risk-classify", IF o.reviewMode = "all" THEN "git-diff" ELSE "done-skip", "risk:low"),
         Edge("risk-classify", "git-diff", "risk:high")>>)

VerdictPart(o) ==
  LET v == VerdictNode(o) IN
  Part(Nothing.node,
       <<Edge("git-diff", "done-inconclusive", "fail"),
         Edge(v, "done-pass", "verdict:pass"),
         Edge(v, "done-inconclusive", "verdict:inconclusive"),
         Edge(v, "done-inconclusive", "fail")>>)

(* Mutant: the fix is judged on the old capture.                             *)
ReviewFixUncaptured(o) ==
  Part("implement-review-fix" :> Writer,
       <<Edge(VerdictNode(o), "implement-review-fix", "verdict:fail"),
         Edge("implement-review-fix", VerdictNode(o), "success")>>
         \o Edges("implement-review-fix", "done-fail", Unfinished))
(* Mutant: the fix goes through the risk gate again.                         *)
ReviewFixReclassified(o) ==
  Part("implement-review-fix" :> Writer,
       <<Edge(VerdictNode(o), "implement-review-fix", "verdict:fail"),
         Edge("implement-review-fix", "risk-classify", "success")>>
         \o Edges("implement-review-fix", "done-fail", Unfinished))
(* A rejected change is fixed and captured again, past the risk gate.        *)
ReviewFixPart(o) ==
  Part("implement-review-fix" :> Writer,
       <<Edge(VerdictNode(o), "implement-review-fix", "verdict:fail"),
         Edge("implement-review-fix", "git-diff", "success")>>
         \o Edges("implement-review-fix", "done-fail", Unfinished))
RejectedPart(o) == Part(Nothing.node, <<Edge(VerdictNode(o), "done-fail", "verdict:fail")>>)

ReviewPart(o) ==
  IF o.reviewMode = "off" THEN ReviewOffPart(o)
  ELSE RiskGatePart(o)
         ++ (IF o.template = "multi-lens-review" THEN LensPart ELSE JudgePart)
         ++ VerdictPart(o)
         ++ (IF o.reviewFix THEN ReviewFixPart(o) ELSE RejectedPart(o))

ImplementEntry(o) ==
  CASE o.template \in {"plan-then-implement", "plan-gate-then-implement"} -> <<"plan">>
    [] o.template = "explore-then-implement" -> Explorers
    [] OTHER -> <<"implement">>

PrefixPart(o) ==
  CASE o.template = "plan-then-implement"      -> PlanPart
    [] o.template = "plan-gate-then-implement" -> PlanGatePart
    [] o.template = "explore-then-implement"   -> ExplorationPart
    [] OTHER                                   -> Nothing

ImplementThenReview(o) ==
  LET g == ImplementPart ++ PrefixPart(o)
             ++ (IF WithVerify(o) THEN VerifyPart ELSE Nothing) ++ ReviewPart(o)
  IN [entry |-> ImplementEntry(o), node |-> g.node, edges |-> g.edges]

-----------------------------------------------------------------------------
(* Three read-only investigators, a synthesis and a judge that may send the  *)
(* report back for revision.                                                 *)
Investigators == <<"audit-auth", "audit-inputs", "audit-integrations">>
EvidenceAudit ==
  [entry |-> Investigators,
   node  |-> [n \in {Investigators[i] : i \in DOMAIN Investigators} |-> Reader("explore")]
               @@ "audit-mapped" :> Join("all", 0)
               @@ "audit-synthesis" :> Reader("synthesize") @@ "audit-judge" :> Judge
               @@ "audit-revise" :> Reader("synthesize")
               @@ "audit-pass" :> Emit("audit.passed") @@ "audit-fail" :> Emit("audit.failed")
               @@ "audit-inconclusive" :> Emit("audit.inconclusive"),
   edges |-> [i \in DOMAIN Investigators |-> Edge(Investigators[i], "audit-mapped", "always")]
               \o <<Edge("audit-mapped", "audit-synthesis", "always"),
                    Edge("audit-synthesis", "audit-judge", "success")>>
               \o Edges("audit-synthesis", "audit-inconclusive", Unfinished)
               \o <<Edge("audit-judge", "audit-pass", "verdict:pass"),
                    Edge("audit-judge", "audit-revise", "verdict:fail")>>
               \o Edges("audit-judge", "audit-inconclusive",
                        <<"verdict:inconclusive", "fail", "blocked">>)
               \o <<Edge("audit-revise", "audit-judge", "success")>>
               \o Edges("audit-revise", "audit-fail", Unfinished)]

(* The turn of a conversation: its own node, model fallbacks and continues,  *)
(* each resumed in place after a restart.                                    *)
TurnNodes == {"turn", "turn-fallback", "turn-continue"}
TurnEdges(n) ==
  Edges(n, "settle-delivered", <<"success", "success:warned">>)
    \o <<Edge(n, "settle-failed", "fail"), Edge(n, "settle-blocked", "blocked"),
         Edge(n, n, "resume:restart")>>
ChatTurn ==
  [entry |-> <<"turn">>,
   node  |-> [n \in TurnNodes |-> AgentTurn("general", "cwd", FALSE)]
               @@ "settle-delivered" :> Emit("turn.delivered")
               @@ "settle-failed" :> Emit("turn.failed")
               @@ "settle-blocked" :> Emit("turn.blocked"),
   edges |-> TurnEdges("turn") \o TurnEdges("turn-fallback") \o TurnEdges("turn-continue")
               \o <<Edge("turn", "turn-fallback", "retry:model"),
                    Edge("turn-fallback", "turn-fallback", "retry:model"),
                    Edge("turn", "turn-continue", "continue:auto"),
                    Edge("turn-fallback", "turn-continue", "continue:auto"),
                    Edge("turn-continue", "turn-continue", "continue:auto")>>]

(* The budget of a chat turn: a backstop above the ceilings of the product,  *)
(* and no clock.                                                             *)
AtLeast(x, y) == IF x < y THEN y ELSE x
ChatTurnBudget(maxRestartResumes) ==
  LET resumes == AtLeast(maxRestartResumes, 1) IN
  [maxNodeRuns |-> AtLeast(12, (resumes + 2) * Cardinality(TurnNodes)),
   maxVisitsPerNode |-> AtLeast(4, resumes + 2),
   maxRunMs |-> 0]

-----------------------------------------------------------------------------
(* What the registry can be asked to build.                                  *)
ImplementTemplates ==
  {"implement-then-review", "goal", "plan-then-implement", "explore-then-implement",
   "multi-lens-review", "plan-gate-then-implement"}

(* The goal template ignores the verify switch: it always verifies. The      *)
(* builder ignores the review fix loop when reviews are off.                 *)
Options(modes) ==
  {o \in [template : ImplementTemplates, reviewMode : modes, verify : BOOLEAN, reviewFix : BOOLEAN] :
     /\ o.template = "goal" => ~o.verify
     /\ o.reviewMode = "off" => ~o.reviewFix}
Audit == [template |-> "evidence-audit", reviewMode |-> "off", verify |-> FALSE, reviewFix |-> FALSE]
Chat == [template |-> "chat-turn", reviewMode |-> "off", verify |-> FALSE, reviewFix |-> FALSE]

Build(o) ==
  CASE o = Audit -> EvidenceAudit
    [] o = Chat  -> ChatTurn
    [] OTHER     -> ImplementThenReview(o)
=============================================================================
