--------------------------- MODULE TemplateShapes ---------------------------
(* Every definition of the product has the shapes from which the theorems    *)
(* about runs follow, so what they promise holds of its runs with any        *)
(* budget. The strands of a template leave out all but one branch of a       *)
(* fan-out, and the nodes a run is confined to are those it can reach.       *)
EXTENDS WorkflowShapes, WorkflowTemplates

Products ==
  {[def |-> Build(o), adoptable |-> IF o = Chat THEN {"turn"} ELSE {}]
     : o \in Options({"high-risk", "all", "off"}) \cup {Audit, Chat}}

Branches(d) == {Ids(d) \ (b \ {x}) : b \in FanOuts(d), x \in UNION FanOuts(d)}
KnownStrands(d) == {S \in {Ids(d)} \cup Branches(d) : Strand(d, S)}

Within(d, start, decisions) ==
  LET hop[k \in 0..Cardinality(Ids(d))] ==
        IF k = 0 THEN start
        ELSE LET near == hop[k - 1]
                 Leaving(n) == {o \in Heard(d, n) : <<n, o>> \notin decisions}
             IN near \cup UNION {UNION {Starts(d, n, o) : o \in Leaving(n)} : n \in near}
  IN hop[Cardinality(Ids(d))]
Undecided(p, decision) == Within(p.def, Beginning(p) \cup Authors(p.def), {decision})

(* Every node is on a strand, the writers on one, and a gate on one with each*)
(* other node: a person is asked alone.                                      *)
ASSUME TemplatesHaveStrands ==
  \A p \in Products : LET C == KnownStrands(p.def) IN
    /\ UNION C = Ids(p.def) /\ \E S \in C : CwdWriters(p.def) \subseteq S
    /\ \A g \in OfKind(p.def, "human-gate") : Alone(p.def, C, g)

(* From the entry only an approval leads to a writer.                        *)
ASSUME TemplatesApprovePlans ==
  \A p \in Products : "plan" \in Ids(p.def) => PlansAreApproved(p, Within(p.def, Beginning(p), Approvals))

(* Only a verdict passes, and only after the captures of the last change.    *)
ASSUME TemplatesJudgePasses ==
  \A p \in Products : PassesAreJudged(p, KnownStrands(p.def),
                                   [g \in Captures(p.def) |-> Undecided(p, <<g, "success">>)])

(* No way leads from a rejection to "review skipped".                        *)
ASSUME TemplatesKeepRejections ==
  \A p \in Products : RejectionsStand(p, KnownStrands(p.def),
    Within(p.def, UNION {Starts(p.def, x[1], x[2]) : x \in Rejecting(p.def)}, {}))

(* Branches are started together and meet before an emit.                    *)
ASSUME TemplatesConcludeOnce ==
  \A p \in Products : ConcludesOnce(p, KnownStrands(p.def), Within(p.def, Beginning(p), {}))

(* Without a review fix only failures end a run between the implementation   *)
(* and its check.                                                            *)
ASSUME TemplatesCheckGoals ==
  \A p \in Products : "verify" \in Ids(p.def) /\ "implement-review-fix" \notin Ids(p.def) =>
    GoalsAreChecked(p, KnownStrands(p.def), Undecided(p, <<"verify", "success">>),
                    Within(p.def, {"implement"}, {}))
=============================================================================
