----------------------------- MODULE WorkflowIR -----------------------------
(* The intermediate representation of a workflow (common/qaap-workflow-ir.ts *)
(* and -outcome.ts): nodes, edges labelled with outcomes, the validation a   *)
(* definition passes before a run starts, and the edges one outcome takes.   *)
(*                                                                           *)
(* A definition is [entry: a sequence of ids, node: id -> node, edges: a     *)
(* sequence of edges]. Ids are the domain of node, so they are unique.       *)
EXTENDS Integers, FiniteSets, Sequences

AgentTurn(capability, isolation, sentinel) ==
  [kind |-> "agent-turn", capability |-> capability, isolation |-> isolation,
   requireSentinel |-> sentinel]
Deterministic(op) == [kind |-> "deterministic", op |-> op]
Join(wait, n) == [kind |-> "join", wait |-> wait, n |-> n]
HumanGate == [kind |-> "human-gate"]
Emit(key) == [kind |-> "emit", bindingKey |-> key]

Edge(from, to, when) == [from |-> from, to |-> to, when |-> when]

Ids(d) == DOMAIN d.node
OfKind(d, kind) == {n \in Ids(d) : d.node[n].kind = kind}
Capable(d, c) == {n \in OfKind(d, "agent-turn") : d.node[n].capability = c}
EntryNodes(d) == {d.entry[i] : i \in DOMAIN d.entry}
Outgoing(d, n) == {i \in DOMAIN d.edges : d.edges[i].from = n}

(* The agent turns that may edit the working tree the run is started in.     *)
CwdWriters(d) == {n \in OfKind(d, "agent-turn") : d.node[n].isolation = "cwd"}

-----------------------------------------------------------------------------
(* What a node of each kind can report. A turn that asks for a sentinel      *)
(* reports the verdict it printed; a chat turn (capability general) is       *)
(* classified by its own resolver and by its conversation's boot and model   *)
(* fallback logic; a classifier declares its outcome in the job's result.    *)
AgentOutcomes(node) ==
  {"fail", "blocked"} \cup
  IF node.requireSentinel
    THEN {"verdict:pass", "verdict:fail", "verdict:inconclusive"}
    ELSE IF node.capability = "general"
           THEN {"success", "success:warned", "resume:restart", "retry:model"}
           ELSE {"success"}

DeterministicOutcomes(node) ==
  {"fail", "blocked"} \cup
  IF node.op = "risk-classify" THEN {"risk:low", "risk:high"} ELSE {"success"}

Outcomes(node) ==
  CASE node.kind = "agent-turn"    -> AgentOutcomes(node)
    [] node.kind = "deterministic" -> DeterministicOutcomes(node)
    [] node.kind = "join"          -> {"success"}
    [] node.kind = "human-gate"    -> {"human:continue"}
    [] OTHER                       -> {}

(* What a rich outcome means to a node that declares no edge for it.         *)
BaseOutcome(o) ==
  CASE o \in {"resume:restart", "retry:model", "success:warned"} -> "fail"
    [] o = "continue:auto" -> "success"
    [] OTHER -> o

(* Mutant: every edge of the node is taken.                                  *)
MatchedAnyLabel(d, n, o) == Outgoing(d, n)
(* The edges an outcome takes: a fan-out takes several at once, a node       *)
(* without a matching edge ends its branch.                                  *)
Matched(d, n, o) ==
  LET Taking(x) == {i \in Outgoing(d, n) : d.edges[i].when \in {"always", x}}
  IN IF d.node[n].kind = "emit" THEN {}
     ELSE IF Taking(o) # {} THEN Taking(o) ELSE Taking(BaseOutcome(o))

(* How many distinct predecessors a join waits for.                          *)
Feeders(d, j) == {d.edges[i].from : i \in {i \in DOMAIN d.edges : d.edges[i].to = j}}
Required(d, j) ==
  LET expected == Cardinality(Feeders(d, j)) IN
  CASE d.node[j].wait = "all" -> expected
    [] d.node[j].wait = "any" -> 1
    [] OTHER -> IF d.node[j].n < expected THEN d.node[j].n ELSE expected

-----------------------------------------------------------------------------
(* Validation.                                                               *)

Reachable(d, start) ==
  LET hop[k \in 0..Cardinality(Ids(d))] ==
        IF k = 0 THEN {start}
        ELSE LET near == hop[k - 1]
             IN near \cup {d.edges[i].to : i \in {i \in DOMAIN d.edges : d.edges[i].from \in near}}
  IN hop[Cardinality(Ids(d))]

(* Mutant: the entry is not a fan-out.                                       *)
FanOutsWithoutEntry(d) ==
  {b \in UNION {{{d.edges[i].to : i \in {i \in Outgoing(d, n) : d.edges[i].when \in {"always", w}}}
                   : w \in {d.edges[i].when : i \in Outgoing(d, n)}}
                : n \in Ids(d)}
   : Cardinality(b) >= 2}
(* The sets of nodes one step can start together: the entry, and for every   *)
(* node and label the targets of the edges with that label or none.          *)
FanOuts(d) ==
  {b \in {EntryNodes(d)} \cup
     UNION {{{d.edges[i].to : i \in {i \in Outgoing(d, n) : d.edges[i].when \in {"always", w}}}
               : w \in {d.edges[i].when : i \in Outgoing(d, n)}}
            : n \in Ids(d)}
   : Cardinality(b) >= 2}

(* Two branches of one fan-out that both reach a writer of their own, one    *)
(* that not every branch reaches.                                            *)
ConcurrentWriters(d, branches) ==
  LET reach == [b \in branches |-> Reachable(d, b)]
      shared == {n \in Ids(d) : \A b \in branches : n \in reach[b]}
      owners == {b \in branches : (reach[b] \ shared) \cap CwdWriters(d) # {}}
  IN Cardinality(owners) >= 2

ValidDef(d) ==
  /\ Ids(d) # {}
  /\ \A n \in Ids(d) : d.node[n].kind # "router"
  /\ \A n \in OfKind(d, "join") : d.node[n].wait = "n" => d.node[n].n >= 1
  /\ \A n \in Capable(d, "judge") : d.node[n].isolation = "cwd-readonly"
  /\ d.entry # <<>> /\ EntryNodes(d) \subseteq Ids(d)
  /\ \A i \in DOMAIN d.edges : {d.edges[i].from, d.edges[i].to} \subseteq Ids(d)
  /\ \A b \in FanOuts(d) : ~ConcurrentWriters(d, b)
=============================================================================
