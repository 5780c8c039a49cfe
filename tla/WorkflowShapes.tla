--------------------------- MODULE WorkflowShapes ---------------------------
(* Shapes of a definition from which the promises of its runs follow,        *)
(* whatever the budget and the order of the reports. They are conditions on  *)
(* the graph alone: TLC evaluates them for the definitions of the product,   *)
(* and the theorems about runs assume them.                                  *)
EXTENDS WorkflowIR

AtMostOne(S) == \A x, y \in S : x = y

(* What may be reported for a node: its own outcomes, and the endpoint that  *)
(* continues a gate does not look at the kind of the node.                   *)
Heard(d, n) == Outcomes(d.node[n]) \cup {"human:continue"}

(* The edges by which an outcome of n starts a node of S. An emit is         *)
(* recorded and never started.                                               *)
Entering(d, S, n, o) ==
  {i \in Matched(d, n, o) : d.edges[i].to \in S /\ d.node[d.edges[i].to].kind # "emit"}

(* A join of S that waits for all, somebody of S among them.                 *)
Gathers(d, S, j) ==
  /\ d.node[j].kind = "join" /\ Required(d, j) = Cardinality(Feeders(d, j))
  /\ Feeders(d, j) \cap S # {}

(* A strand is a set of nodes in which a run is at one place at most: it is  *)
(* entered once, a node of it hands over to one node of it, and what is      *)
(* outside comes in only through joins that wait for the strand itself.      *)
Strand(d, S) ==
  /\ AtMostOne({i \in DOMAIN d.entry : d.entry[i] \in S})
  /\ \A n \in Ids(d) : \A o \in Heard(d, n) :
       IF n \in S THEN AtMostOne(Entering(d, S, n, o))
         ELSE \A i \in Entering(d, S, n, o) : Gathers(d, S, d.edges[i].to)

Strands(d) == {S \in SUBSET Ids(d) : Strand(d, S)}

(* Two nodes of one strand are never active together.                        *)
Apart(d, m, n) == \E S \in Strands(d) : {m, n} \subseteq S

(* Every node is dispatched once at a time.                                  *)
OnStrands(d) == \A n \in Ids(d) : Apart(d, n, n)

(* The writers of the working tree take turns.                               *)
WritersApart(d) == \E S \in Strands(d) : CwdWriters(d) \subseteq S

(* Nothing goes on beside n: strands of C show it.                           *)
Alone(d, C, n) == \A m \in Ids(d) : \E S \in C : {m, n} \subseteq S

(* While a person is asked nothing else goes on.                             *)
GatesStandAlone(d) == \A g \in OfKind(d, "human-gate") : Alone(d, Strands(d), g)

-----------------------------------------------------------------------------
(* What a run may conclude, from the parts of the graph it can be in. Here p *)
(* is what a run is started with, C are strands of its definition, and S, R  *)
(* are sets of nodes which show the shape.                                   *)

(* The turns that produce what the rest of the run judges, and the nodes     *)
(* whose outcome is a decision on it.                                        *)
Authors(d) == CwdWriters(d) \cup Capable(d, "synthesize")
Verdicts(d) == {n \in OfKind(d, "agent-turn") : d.node[n].requireSentinel}
Deciders(d) == Verdicts(d) \cup OfKind(d, "deterministic") \cup OfKind(d, "human-gate")
Captures(d) == {n \in OfKind(d, "deterministic") : d.node[n].op = "git-diff"}

Approvals == {<<"approve-plan", "human:continue">>, <<"judge-plan", "verdict:pass">>}
Rejecting(d) == (Verdicts(d) \ {"judge-plan"}) \X {"verdict:fail"}
Passed == {"review.passed", "audit.passed"}
Rejections == {"review.failed", "audit.failed", "plan.failed", "verify.failed", "turn.failed"}
Failing == {"fail", "blocked", "verdict:fail"}

(* What an outcome starts, and what it emits.                                *)
Emitting(d, n, o) == {i \in Matched(d, n, o) : d.node[d.edges[i].to].kind = "emit"}
Starts(d, n, o) == {d.edges[i].to : i \in Matched(d, n, o) \ Emitting(d, n, o)}
Emits(d, n, o) == {d.node[d.edges[i].to].bindingKey : i \in Emitting(d, n, o)}

Beginning(p) == EntryNodes(p.def) \cup p.adoptable

(* A run inside S stays there until one of the decisions is taken.           *)
StaysUntil(d, S, decisions) ==
  \A n \in S : \A o \in Heard(d, n) : <<n, o>> \in decisions \/ Starts(d, n, o) \subseteq S

(* The emit of such a key ends the run: there is nothing else it could do.   *)
LastWord(d, C, keys) ==
  \A n \in Ids(d) : \A o \in Heard(d, n) :
    Emits(d, n, o) \cap keys # {} => Alone(d, C, n) /\ Starts(d, n, o) = {}

(* Outside S a decision has been taken since an author last worked: authors  *)
(* work alone, and whatever is started begins in S.                          *)
DecidedOutside(p, C, decision, S) ==
  LET d == p.def IN
  /\ Beginning(p) \cup Authors(d) \subseteq S /\ StaysUntil(d, S, {decision})
  /\ decision[1] \in Deciders(d) /\ \A a \in Authors(d) : Alone(d, C, a)

(* Until a plan is approved a run stays where nothing is written.            *)
PlansAreApproved(p, S) ==
  LET d == p.def IN
  /\ Beginning(p) \subseteq S /\ S \cap CwdWriters(d) = {} /\ StaysUntil(d, S, Approvals)
  /\ {a[1] : a \in Approvals} \cap Ids(d) \subseteq Deciders(d)

(* Only a verdict emits a pass, and only where every capture was taken.      *)
PassesAreJudged(p, C, R) ==
  LET d == p.def
      Passing(n, o) == Emits(d, n, o) \cap Passed # {}
  IN /\ LastWord(d, C, Passed)
     /\ \A n \in Ids(d) : \A o \in Heard(d, n) : Passing(n, o) => n \in Verdicts(d) /\ o = "verdict:pass"
     /\ \A g \in Captures(d) :
          /\ DecidedOutside(p, C, <<g, "success">>, R[g])
          /\ \A n \in R[g] : \A o \in Heard(d, n) : ~Passing(n, o)

(* A rejection leads to where no review is skipped.                          *)
RejectionsStand(p, C, S) ==
  LET d == p.def IN
  /\ LastWord(d, C, {"review.skipped"}) /\ StaysUntil(d, S, {})
  /\ \A n \in Ids(d) : \A o \in Heard(d, n) :
       /\ <<n, o>> \in Rejecting(d) => Alone(d, C, n) /\ Starts(d, n, o) \subseteq S
       /\ n \in S \/ <<n, o>> \in Rejecting(d) => "review.skipped" \notin Emits(d, n, o)

(* The predecessors of a join are started together, each of them only when   *)
(* none is active, and whatever they report leads to the join.               *)
FedTogether(p, C, j) ==
  LET d == p.def
      F == Feeders(d, j)
  IN /\ Required(d, j) = Cardinality(F) /\ F \cap OfKind(d, "join") = {}
     /\ EntryNodes(d) \cap F \in {{}, F} /\ p.adoptable \cap F = {}
     /\ \A n \in Ids(d) : \A o \in Heard(d, n) :
          IF n \in F THEN j \in Starts(d, n, o) /\ Starts(d, n, o) \cap F = {}
            ELSE \/ Starts(d, n, o) \cap F = {}
                 \/ F \subseteq Starts(d, n, o) /\ \A c \in F : \E S \in C : {n, c} \subseteq S

(* Nothing is emitted twice or beside other work, what has no edge failed,   *)
(* and so did what leads to a rejection. R are the nodes a run can reach.    *)
ConcludesOnce(p, C, R) ==
  LET d == p.def IN
  /\ Beginning(p) \subseteq R
  /\ \A g \in OfKind(d, "human-gate") : Alone(d, C, g)
  /\ \A j \in OfKind(d, "join") : FedTogether(p, C, j)
  /\ \A n \in R : \A o \in Outcomes(d.node[n]) :
       /\ Starts(d, n, o) \subseteq R
       /\ Emits(d, n, o) # {} => Alone(d, C, n) /\ AtMostOne(Matched(d, n, o))
       /\ Matched(d, n, o) = {} \/ Emits(d, n, o) \cap Rejections # {} => o \in Failing

(* Nothing but a failure ends the run between the implementation, which      *)
(* leads into Q, and the check that passes, which leads out of S.            *)
GoalsAreChecked(p, C, S, Q) ==
  LET d == p.def IN
  /\ "implement" \in Q /\ StaysUntil(d, Q, {})
  /\ "implement" \in EntryNodes(d) => EntryNodes(d) \subseteq Q
  /\ \A g \in OfKind(d, "human-gate") : Alone(d, C, g)
  /\ DecidedOutside(p, C, <<"verify", "success">>, S)
  /\ \A n \in Ids(d) : \A o \in Heard(d, n) :
       "implement" \in Starts(d, n, o) => Alone(d, C, n) /\ Starts(d, n, o) \subseteq Q
  /\ \A n \in S \cap Q : \A o \in Outcomes(d.node[n]) \ Failing :
       <<n, o>> = <<"verify", "success">> \/ Starts(d, n, o) \ OfKind(d, "join") # {}
=============================================================================
