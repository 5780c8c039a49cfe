-------------------------- MODULE MCWorkflowDispatch --------------------------
(* Two small graphs: a turn that is checked and repaired in a loop, and a    *)
(* turn beside a job before a join, behind a gate.                           *)
EXTENDS WorkflowDispatch, TemplateShapes

CONSTANTS Graphs, MaxVisits, MaxRuns, Clock

Turn == AgentTurn("implement", "cwd", FALSE)

(* The verify loop of the implement template.                                *)
Repair ==
  [entry |-> <<"implement">>,
   node  |-> [n \in {"implement", "verify"} |->
                IF n = "verify" THEN Deterministic("verify") ELSE Turn],
   edges |-> <<Edge("implement", "verify", "success"), Edge("verify", "implement", "fail")>>]

Beside ==
  [entry |-> <<"gate">>,
   node  |-> [n \in {"gate", "turn", "job", "join"} |->
                CASE n = "gate" -> HumanGate
                  [] n = "turn" -> Turn
                  [] n = "job"  -> Deterministic("git-diff")
                  [] OTHER      -> Join("all", 0)],
   edges |-> <<Edge("gate", "turn", "human:continue"), Edge("gate", "job", "human:continue"),
               Edge("turn", "join", "always"), Edge("job", "join", "always")>>]

Named == [repair |-> Repair, beside |-> Beside]
Plans ==
  {[def |-> Named[g], adoptable |-> {},
    budget |-> [maxNodeRuns |-> MaxRuns, maxVisitsPerNode |-> MaxVisits, maxRunMs |-> Clock]]
     : g \in Graphs}

(* They have the shape the theorems about the dispatcher assume.             *)
ASSUME GraphsHaveStrands == \A p \in Plans : OnStrands(p.def) /\ GatesStandAlone(p.def)
=============================================================================
