-------------------------- MODULE MCWorkflowGraphs --------------------------
(* Small graphs that are no template: what the reducer promises for any      *)
(* definition its validation accepts.                                        *)
EXTENDS WorkflowAudit

CONSTANTS Graphs, Waits, Rounds, MaxVisits, MaxRuns, Clock

(* Four nodes behind a source: two branches, a join that waits as told, and  *)
(* a node after it. Every branch and the last node may write; the second     *)
(* branch is taken on any outcome, on one, or together with nothing; either  *)
(* branch may skip the join, and the last node may start the round again.    *)
Family ==
  [left : {"cwd", "cwd-readonly"}, right : {"cwd", "cwd-readonly"}, last : {"cwd", "cwd-readonly"},
   entry : {"source", "both"}, rightWhen : {"always", "success", "fail"},
   wait : Waits, joins : {"both", "left"}, again : Rounds]

Turn(isolation) == AgentTurn("implement", isolation, FALSE)
OptionalEdge(c, e) == IF c THEN <<e>> ELSE <<>>

FamilyGraph(f) ==
  [entry |-> IF f.entry = "source" THEN <<"source">> ELSE <<"left", "right">>,
   node  |-> [n \in {"source", "left", "right", "join", "last"} |->
                CASE n = "source" -> Deterministic("verify")
                  [] n = "left"   -> Turn(f.left)
                  [] n = "right"  -> Turn(f.right)
                  [] n = "last"   -> Turn(f.last)
                  [] OTHER        -> Join(f.wait, 0)],
   edges |-> <<Edge("source", "left", "success"), Edge("source", "right", f.rightWhen),
               Edge("left", "join", "success"), Edge("join", "last", "always")>>
               \o OptionalEdge(f.joins = "both", Edge("right", "join", "always"))
               \o OptionalEdge(f.again, Edge("last", "source", "fail"))]

(* A gate beside a turn, both before a join, and two of three branches are   *)
(* enough for another.                                                       *)
GateBeside ==
  [entry |-> <<"gate", "left">>,
   node  |-> [n \in {"gate", "left", "join", "last"} |->
                CASE n = "gate" -> HumanGate
                  [] n = "join" -> Join("all", 0)
                  [] OTHER      -> Turn("cwd-readonly")],
   edges |-> <<Edge("gate", "join", "human:continue"), Edge("left", "join", "always"),
               Edge("join", "last", "always")>>]
TwoOfThree ==
  [entry |-> <<"a", "b", "c">>,
   node  |-> [n \in {"a", "b", "c", "join", "last"} |->
                IF n = "join" THEN Join("n", 2) ELSE Turn("cwd-readonly")],
   edges |-> <<Edge("a", "join", "success"), Edge("b", "join", "success"), Edge("c", "join", "success"),
               Edge("join", "last", "always"), Edge("last", "a", "fail"), Edge("last", "b", "fail")>>]

Named == [gateBeside |-> GateBeside, twoOfThree |-> TwoOfThree]
Limit(visitsPerNode, runs) ==
  [maxNodeRuns |-> runs, maxVisitsPerNode |-> visitsPerNode, maxRunMs |-> Clock]

(* A named graph has the budget for a second round through its join.         *)
Plans ==
  {[def |-> Named[g], adoptable |-> {}, budget |-> Limit(MaxVisits + 1, MaxRuns + 3)]
     : g \in Graphs \ {"family"}}
  \cup {[def |-> FamilyGraph(f), adoptable |-> {}, budget |-> Limit(MaxVisits, MaxRuns)]
           : f \in {f \in Family : "family" \in Graphs}}

(* No node leads back to itself and every join waits for all.                *)
OneRound ==
  /\ \A j \in Joins : Def.node[j].wait = "all"
  /\ \A i \in DOMAIN Def.edges : Def.edges[i].from \notin Reachable(Def, Target(i))

(* What the validation accepts never has two writers of the working tree     *)
(* active at once, whatever order the branches report in, when the graph has *)
(* no loop and its joins wait for all (qaap-workflow-ir.ts:340-345).         *)
AcceptedWritersAlternate == OneRound => SingleWriter
=============================================================================
