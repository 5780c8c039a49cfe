----------------------------- MODULE WorkflowRun -----------------------------
(* One run of a workflow: the reducer of common/qaap-workflow-run.ts, as the  *)
(* run store (node/qaap-workflow-run-store.ts) applies it to the reports of  *)
(* the runtimes, of the dispatcher and of people. A mutation of the store is *)
(* one step: it is computed and queued for the disk without a pause.         *)
(*                                                                           *)
(* A run is a record in the code; here each field is a variable. "none" in   *)
(* status is a run that has not been started, in reason an absent            *)
(* terminationReason. active is a set: the array of the code is only         *)
(* filtered, searched and measured, so it differs from one only when a node  *)
(* is dispatched twice, which visits still counts.                           *)
EXTENDS WorkflowShapes

CONSTANT Plan   \* what a run may be started with: [def, budget, adoptable]

ASSUME DefinitionAssumption ==
  \A p \in Plan :
    /\ IsFiniteSet(Ids(p.def))
    /\ p.def.edges \in Seq([from : Ids(p.def), to : Ids(p.def), when : STRING])
    /\ p.def.entry \in Seq(Ids(p.def))
    /\ \A j \in OfKind(p.def, "join") : p.def.node[j].n \in Int

(* maxRunMs 0 stands for a run without a clock; adoptable are the nodes a    *)
(* run of the definition can be adopted on.                                  *)
ASSUME PlanAssumption ==
  \A p \in Plan :
    /\ p.budget \in [maxNodeRuns : Nat, maxVisitsPerNode : Nat, maxRunMs : Nat]
    /\ p.adoptable \subseteq Ids(p.def)

(* A node has at most one edge to a join for any outcome: two would count as *)
(* an arrival and its repetition.                                            *)
ASSUME JoinEdgeAssumption ==
  \A p \in Plan : \A i, h \in DOMAIN p.def.edges :
    LET e == p.def.edges[i]  f == p.def.edges[h] IN
    i # h /\ e.from = f.from /\ e.to = f.to /\ p.def.node[e.to].kind = "join"
      => e.when # f.when /\ "always" \notin {e.when, f.when}

VARIABLES
  plan,       \* the definition and the budget the run embeds
  status,
  active,     \* dispatched nodes that have not reported
  visits,     \* node -> how often it was dispatched
  arrivals,   \* join -> predecessors that arrived in its current round
  fired,      \* joins that were released in their current round
  bindings,   \* the emitted keys
  nodeRuns,   \* dispatches of the whole run
  reason,     \* why it ended
  age,        \* time since createdAt, in units of the clock
  swept,      \* where the deadline sweep is with this run
  doomed      \* jobs the sweep cancelled that have not reported

vars == <<plan, status, active, visits, arrivals, fired, bindings, nodeRuns, reason, age, swept, doomed>>

Def == plan.def
Limits == plan.budget
Kind(n) == Def.node[n].kind
Joins == OfKind(Def, "join")
Target(i) == Def.edges[i].to

Live == {"running", "awaiting-human"}
Ended == {"succeeded", "failed", "budget-exhausted"}
Reason == {"none", "emit", "no-edge", "stalled", "max-node-runs", "max-visits", "run-timeout"}

(* A limit ended the run, whatever its branches were doing.                  *)
Exhausted == reason \in {"max-visits", "max-node-runs", "run-timeout"}

-----------------------------------------------------------------------------
(* Mutant: the end forgets why.                                              *)
TerminateSilently(end, why) == status' = end /\ UNCHANGED reason /\ active' = {}
Terminate(end, why) == status' = end /\ reason' = why /\ active' = {}

(* Dispatch the listed nodes in the order of their indices. The loop stops   *)
(* at the first one the budget refuses; those before it stay counted.        *)
Before(ready, i) == {h \in ready : h < i}
(* Mutant: the budget is compared before it is spent.                        *)
RoomOffByOne(ready, i) == nodeRuns + Cardinality(Before(ready, i)) <= Limits.maxNodeRuns
Room(ready, i) == nodeRuns + Cardinality(Before(ready, i)) < Limits.maxNodeRuns
Fresh(node, ready, i) ==
  visits[node[i]] + Cardinality({h \in Before(ready, i) : node[h] = node[i]})
    < Limits.maxVisitsPerNode

Dispatch(kept, node, ready) ==
  LET released == {i \in ready : \A h \in Before(ready, i) \cup {i} :
                                    Room(ready, h) /\ Fresh(node, ready, h)}
      dispatched == {node[i] : i \in released}
  IN /\ visits' = [n \in Ids(Def) |-> visits[n] + Cardinality({i \in released : node[i] = n})]
     /\ nodeRuns' = nodeRuns + Cardinality(released)
     /\ \/ /\ released = ready
           /\ active' = kept \cup dispatched
           /\ status' = IF \E n \in dispatched : Kind(n) = "human-gate"
                          THEN "awaiting-human" ELSE "running"
           /\ reason' = "none"
        \/ \E i \in ready \ released :
             /\ Before(ready, i) \subseteq released
             /\ Terminate("budget-exhausted", IF Room(ready, i) THEN "max-visits" ELSE "max-node-runs")

(* A predecessor that reaches a join it has not fed since the join fired is  *)
(* late and swallowed; one that fed it opens the next round.                 *)
Late(j, from) == j \in fired /\ from \notin arrivals[j]
(* Mutant: a new round keeps the arrivals of the one before.                 *)
ArrivedNoReset(j, from) == arrivals[j] \cup {from}
Arrived(j, from) ==
  IF j \in fired /\ from \in arrivals[j] THEN {from} ELSE arrivals[j] \cup {from}
Fires(j, from) == ~Late(j, from) /\ Cardinality(Arrived(j, from)) >= Required(Def, j)

PendingJoin(arrived, done) == \E j \in Joins : arrived[j] # {} /\ j \notin done

(* Mutant: a run whose last branch died before a join waits for it.          *)
SettleWaiting(kept, outcome, taken) ==
  /\ UNCHANGED <<visits, nodeRuns>>
  /\ \/ (kept # {} \/ PendingJoin(arrivals', fired'))
          /\ active' = kept /\ status' = "running" /\ UNCHANGED reason
     \/ kept = {} /\ ~PendingJoin(arrivals', fired') /\ Terminate("succeeded", "emit")

(* Nothing was released: other branches go on, or the run is over.           *)
Settle(kept, outcome, taken) ==
  /\ UNCHANGED <<visits, nodeRuns>>
  /\ \/ kept # {} /\ active' = kept /\ status' = "running" /\ UNCHANGED reason
     \/ kept = {} /\ PendingJoin(arrivals', fired') /\ Terminate("failed", "stalled")
     \/ kept = {} /\ ~PendingJoin(arrivals', fired')
        /\ Terminate(IF outcome \in Failing THEN "failed" ELSE "succeeded",
                     IF taken = {} THEN "no-edge" ELSE "emit")

(* The reducer: book one outcome and compute what must start next.           *)
Advance(n, outcome) ==
  LET taken == Matched(Def, n, outcome)
      emits == {i \in taken : Kind(Target(i)) = "emit"}
      met   == {Target(i) : i \in taken} \cap Joins
      ready == {i \in taken \ emits : Target(i) \in Joins => Fires(Target(i), n)}
  IN /\ UNCHANGED <<plan, age, swept>>
     /\ doomed' = doomed \ {n}
     /\ arrivals' = [j \in Joins |-> IF j \in met THEN Arrived(j, n) ELSE arrivals[j]]
     /\ fired' = {j \in fired : j \in met => Late(j, n)} \cup {j \in met : Fires(j, n)}
     /\ bindings' = bindings \cup {Def.node[Target(i)].bindingKey : i \in emits}
     /\ IF ready = {}
          THEN Settle(active \ {n}, outcome, taken)
          ELSE Dispatch(active \ {n}, [i \in DOMAIN Def.edges |-> Target(i)], ready)

-----------------------------------------------------------------------------
Init ==
  /\ plan \in Plan
  /\ status = "none" /\ active = {} /\ fired = {} /\ bindings = {}
  /\ visits = [n \in Ids(Def) |-> 0]
  /\ arrivals = [j \in Joins |-> {}]
  /\ nodeRuns = 0 /\ reason = "none" /\ age = 0
  /\ swept = "no" /\ doomed = {}

(* store.start: an invalid definition is refused, and nothing is kept.       *)
Start ==
  /\ status = "none" /\ ValidDef(Def)
  /\ Dispatch({}, Def.entry, DOMAIN Def.entry)
  /\ UNCHANGED <<plan, arrivals, fired, bindings, age, swept, doomed>>

(* store.adoptRun: a run parked on a node that was running outside of it,    *)
(* with the visits its conversation already counted.                         *)
Adopt(n, seedVisits) ==
  /\ status = "none" /\ ValidDef(Def) /\ n \in plan.adoptable
  /\ seedVisits \in 1..Limits.maxVisitsPerNode /\ seedVisits <= Limits.maxNodeRuns
  /\ status' = "running" /\ active' = {n}
  /\ visits' = [visits EXCEPT ![n] = seedVisits]
  /\ nodeRuns' = seedVisits
  /\ UNCHANGED <<plan, arrivals, fired, bindings, reason, age, swept, doomed>>

(* A runtime reports the end of its work, or the dispatcher reports "fail"   *)
(* for a node that could not start, ran too long or died with the backend.   *)
Report(n, outcome) ==
  /\ n \in active /\ status \in Live
  /\ Kind(n) \in {"agent-turn", "deterministic"}
  /\ outcome \in Outcomes(Def.node[n])
  /\ swept = "found" => n \in doomed /\ outcome = "blocked"
  /\ Advance(n, outcome)

(* Mutant: the dispatcher settles another kind of bookkeeping node.          *)
SettleJoinNever(n) ==
  n \in active /\ status \in Live /\ Kind(n) = "router" /\ Advance(n, "success")
(* The dispatcher settles a fired join itself, at once.                      *)
SettleJoin(n) == n \in active /\ status \in Live /\ Kind(n) = "join" /\ Advance(n, "success")

(* A person continues the run. The endpoint looks at the run's status and at *)
(* whether the node is active.                                               *)
Continue(n) ==
  n \in active /\ status = "awaiting-human" /\ swept # "found" /\ Advance(n, "human:continue")

(* The deadline sweep finds a running run older than its clock and cancels   *)
(* its work. The job runtime announces a cancelled job at once, so its       *)
(* "blocked" is queued before the end of the run; a turn is announced after  *)
(* its log was read, too late. Both are one turn of the event loop: nothing  *)
(* else comes between. A job the dispatcher has not attached yet is not      *)
(* cancelled.                                                                *)
SweepFinds(cancelled) ==
  /\ status = "running" /\ swept = "no" /\ Limits.maxRunMs # 0 /\ age > Limits.maxRunMs
  /\ swept' = "found"
  /\ doomed' = cancelled
  /\ UNCHANGED <<plan, status, active, visits, arrivals, fired, bindings, nodeRuns, reason, age>>

Sweep == \E cancelled \in SUBSET {n \in active : Kind(n) = "deterministic"} : SweepFinds(cancelled)

(* The sweep ends the run, unless a report of the cancelled work did.        *)
Expire ==
  /\ swept = "found" /\ doomed \cap active = {}
  /\ swept' = "done" /\ doomed' = {}
  /\ IF status \in Live THEN Terminate("budget-exhausted", "run-timeout")
       ELSE UNCHANGED <<status, active, reason>>
  /\ UNCHANGED <<plan, visits, arrivals, fired, bindings, nodeRuns, age>>

(* Time passes; an age beyond the limit is one value.                        *)
Tick ==
  /\ status \in Live /\ swept = "no" /\ Limits.maxRunMs # 0 /\ age <= Limits.maxRunMs
  /\ age' = age + 1
  /\ UNCHANGED <<plan, status, active, visits, arrivals, fired, bindings, nodeRuns, reason, swept, doomed>>

Step(n) ==
  \/ \E o \in Outcomes(Def.node[n]) : Report(n, o)
  \/ SettleJoin(n)
  \/ Continue(n)

Next ==
  \/ Start
  \/ \E n \in plan.adoptable : \E k \in 1..Limits.maxVisitsPerNode : Adopt(n, k)
  \/ \E n \in Ids(Def) : Step(n)
  \/ Sweep
  \/ Expire
  \/ Tick

(* Every node's work ends: a runtime reports it or the sweep gives it up. A  *)
(* sweep that found a run goes on. People and the clock owe nothing.         *)
Reports ==
  \/ \E n \in Ids(Def) : SettleJoin(n) \/ \E o \in Outcomes(Def.node[n]) : Report(n, o)
  \/ Expire

Spec == Init /\ [][Next]_vars
FairSpec == Spec /\ WF_vars(Reports)

-----------------------------------------------------------------------------
(* Every field of the run keeps its type, and only an ended run says why.    *)
TypeOK ==
  /\ plan \in Plan
  /\ status \in {"none"} \cup Live \cup Ended
  /\ active \subseteq Ids(Def)
  /\ visits \in [Ids(Def) -> Nat]
  /\ arrivals \in [Joins -> SUBSET Ids(Def)]
  /\ fired \subseteq Joins
  /\ nodeRuns \in Nat
  /\ reason \in Reason /\ (reason # "none" <=> status \in Ended)
  /\ age \in Nat
  /\ swept \in {"no", "found", "done"}
  /\ doomed \subseteq Ids(Def)

(* The loops of a graph are bounded by the run alone: no report, in any      *)
(* order and over any fan-out, dispatches beyond the two budgets, and a node *)
(* is never counted more often than the run (qaap-workflow-run.ts:42-47).    *)
BudgetRespected ==
  /\ nodeRuns <= Limits.maxNodeRuns
  /\ \A n \in Ids(Def) : visits[n] <= Limits.maxVisitsPerNode /\ visits[n] <= nodeRuns

(* A live run always waits for somebody, and an ended one for nobody: the    *)
(* reducer has no state from which no report can arrive                      *)
(* (qaap-workflow-run.ts:214-224, 241-256).                                  *)
LiveRunHasWork == status \in Live <=> active # {}

(* A node is dispatched again only by its own report, which leaves every     *)
(* other active node where it is: never while its earlier dispatch is still  *)
(* unreported, when two pieces of work would answer for one entry of active  *)
(* (qaap-workflow-run.ts:282-297).                                           *)
NoDoubleDispatch ==
  [][\A n \in active \cap active' : visits'[n] > visits[n] =>
       \A m \in active \ {n} : m \in active' /\ visits'[m] = visits[m]]_vars

(* Under the fairness of the runtimes every run ends or waits for a person,  *)
(* whatever its nodes report.                                                *)
RunConcludes == status = "running" ~> status \in Ended \cup {"awaiting-human"}
=============================================================================
