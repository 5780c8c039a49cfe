-------------------------- MODULE WorkflowRunProofs --------------------------
(* What holds of a run of every workflow that can be written down, with any  *)
(* budget: its types, that it never waits for nobody, and that it never      *)
(* dispatches beyond its budgets.                                            *)
EXTENDS WorkflowRun, FiniteSetTheorems, SequenceTheorems, TLAPS

-----------------------------------------------------------------------------
(* Counting                                                                  *)

(* A finite set of numbers in which every element has fewer than m smaller   *)
(* ones has at most m elements: two of them would have equally many.         *)
LEMMA Counted ==
  ASSUME NEW S \in SUBSET Int, IsFiniteSet(S), NEW m \in Nat,
         \A h \in S : Cardinality({g \in S : g < h}) < m
  PROVE  Cardinality(S) <= m
<1> DEFINE Smaller(h) == {g \in S : g < h}
           f == [h \in S |-> Cardinality(Smaller(h))]
<1>1. \A h \in S : IsFiniteSet(Smaller(h)) /\ Cardinality(Smaller(h)) \in Nat
  <2>1. \A h \in S : Smaller(h) \in SUBSET S
    OBVIOUS
  <2>2. QED
    BY <2>1, FS_Subset, FS_CardinalityType
<1>2. \A g, h \in S : g < h => f[g] < f[h]
  <2> SUFFICES ASSUME NEW g \in S, NEW h \in S, g < h
               PROVE  f[g] < f[h]
    OBVIOUS
  <2>1. Cardinality(Smaller(g) \cup {g}) = Cardinality(Smaller(g)) + 1
    <3>1. g \notin Smaller(g)
      OBVIOUS
    <3> HIDE DEF Smaller
    <3>2. QED
      BY <1>1, <3>1, FS_AddElement
  <2>2. Smaller(g) \cup {g} \in SUBSET Smaller(h)
    <3> SUFFICES ASSUME NEW x \in Smaller(g) \cup {g} PROVE x \in Smaller(h)
      OBVIOUS
    <3>1. x \in S /\ x \in Int /\ g \in Int /\ h \in Int /\ x <= g
      OBVIOUS
    <3>2. QED
      BY <3>1
  <2>3. Cardinality(Smaller(g) \cup {g}) <= Cardinality(Smaller(h))
    <3> HIDE DEF Smaller
    <3>1. QED
      BY <1>1, <2>2, FS_Subset
  <2> HIDE DEF Smaller
  <2>4. QED
    BY <1>1, <2>1, <2>3
<1>3. f \in [S -> 0..(m - 1)]
  <2> HIDE DEF Smaller
  <2>1. \A h \in S : Cardinality(Smaller(h)) \in 0..(m - 1)
    BY <1>1 DEF Smaller
  <2>2. QED
    BY <2>1
<1>4. IsFiniteSet(0..(m - 1)) /\ Cardinality(0..(m - 1)) = m
  BY FS_Interval
<1>5. Cardinality(S) \in Nat
  BY FS_CardinalityType
<1>6. \A x, y \in S : x # y => f[x] # f[y]
  <2> HIDE DEF f
  <2>1. \A x \in S : f[x] \in Int
    BY <1>3
  <2>2. QED
    BY <1>2, <2>1
<1>7. QED
  <2> HIDE DEF f
  <2> SUFFICES ASSUME Cardinality(S) > m PROVE FALSE
    BY <1>5
  <2>1. \E x, y \in S : x # y /\ f[x] = f[y]
    BY <1>3, <1>4, FS_PigeonHole
  <2>2. QED
    BY <1>6, <2>1

(* The part of a finite set that satisfies a condition is a set to count.    *)
LEMMA Countable ==
  ASSUME NEW S, IsFiniteSet(S), NEW T \in SUBSET S
  PROVE  IsFiniteSet(T) /\ Cardinality(T) \in Nat /\ Cardinality(T) <= Cardinality(S)
BY FS_Subset, FS_CardinalityType

-----------------------------------------------------------------------------
(* What a run knows of its definition                                        *)

LEMMA SequenceFacts ==
  ASSUME NEW T, NEW s \in Seq(T)
  PROVE  /\ DOMAIN s \in SUBSET Int /\ IsFiniteSet(DOMAIN s)
         /\ \A i \in DOMAIN s : s[i] \in T
<1>1. DOMAIN s = 1..Len(s) /\ Len(s) \in Nat /\ \A i \in 1..Len(s) : s[i] \in T
  OBVIOUS
<1>2. IsFiniteSet(1..Len(s))
  BY <1>1, FS_Interval
<1>3. QED
  BY <1>1, <1>2

LEMMA EntryFacts ==
  ASSUME plan \in Plan
  PROVE  /\ DOMAIN Def.entry \in SUBSET Int /\ IsFiniteSet(DOMAIN Def.entry)
         /\ \A i \in DOMAIN Def.entry : Def.entry[i] \in Ids(Def)
<1>1. Def.entry \in Seq(Ids(Def))
  BY DefinitionAssumption DEF Def
<1>2. QED
  BY <1>1, SequenceFacts

LEMMA EdgeFacts ==
  ASSUME plan \in Plan
  PROVE  /\ DOMAIN Def.edges \in SUBSET Int /\ IsFiniteSet(DOMAIN Def.edges)
         /\ \A i \in DOMAIN Def.edges : Target(i) \in Ids(Def)
<1> DEFINE EdgeOf == [from : Ids(Def), to : Ids(Def), when : STRING]
<1>1. Def.edges \in Seq(EdgeOf)
  BY DefinitionAssumption DEF Def
<1>2. /\ DOMAIN Def.edges \in SUBSET Int /\ IsFiniteSet(DOMAIN Def.edges)
      /\ \A i \in DOMAIN Def.edges : Def.edges[i] \in EdgeOf
  <2> HIDE DEF EdgeOf
  <2>1. QED
    BY <1>1, SequenceFacts
<1>3. QED
  BY <1>2 DEF Target

LEMMA LimitFacts ==
  ASSUME plan \in Plan
  PROVE  /\ Limits.maxNodeRuns \in Nat /\ Limits.maxVisitsPerNode \in Nat
         /\ plan.adoptable \in SUBSET Ids(Def)
BY PlanAssumption DEF Limits, Def

LEMMA JoinFacts == Joins \in SUBSET Ids(Def)
BY DEF Joins, OfKind

(* A step that keeps the plan keeps the definition.                          *)
LEMMA PlanKept ==
  ASSUME plan' = plan
  PROVE  Def' = Def /\ Ids(Def)' = Ids(Def) /\ Joins' = Joins /\ Limits' = Limits
BY DEF Def, Ids, Joins, OfKind, Limits

-----------------------------------------------------------------------------
(* Dispatch                                                                  *)

(* What Dispatch books: the nodes it counts are a part of those it was given,*)
(* all of them unless the run ends, and each found room.                     *)
LEMMA DispatchBooks ==
  ASSUME NEW kept, NEW node, NEW ready \in SUBSET Int, Dispatch(kept, node, ready)
  PROVE  \E released \in SUBSET ready :
           /\ \A i \in released : /\ Room(ready, i) /\ Fresh(node, ready, i)
                                  /\ Before(ready, i) = {h \in released : h < i}
           /\ visits' = [n \in Ids(Def) |-> visits[n] + Cardinality({i \in released : node[i] = n})]
           /\ nodeRuns' = nodeRuns + Cardinality(released)
           /\ \/ /\ released = ready
                 /\ active' = kept \cup {node[i] : i \in released}
                 /\ status' \in Live
                 /\ reason' = "none"
              \/ /\ active' = {}
                 /\ status' = "budget-exhausted"
                 /\ reason' \in {"max-visits", "max-node-runs"}
<1> DEFINE released == {i \in ready : \A h \in Before(ready, i) \cup {i} :
                                        Room(ready, h) /\ Fresh(node, ready, h)}
<1>1. released \in SUBSET ready
  OBVIOUS
<1>2. \A i \in released : Room(ready, i) /\ Fresh(node, ready, i)
  OBVIOUS
<1>3. ASSUME NEW i \in released
      PROVE  Before(ready, i) = {h \in released : h < i}
  <2>1. ASSUME NEW h \in Before(ready, i) PROVE h \in released
    <3>1. Before(ready, h) \cup {h} \subseteq Before(ready, i) \cup {i}
      <4>1. ASSUME NEW k \in Before(ready, h) PROVE k \in Before(ready, i)
        <5>1. k \in ready /\ k \in Int /\ h \in Int /\ i \in Int /\ k < h /\ h < i
          BY DEF Before
        <5>2. QED
          BY <5>1 DEF Before
      <4>2. QED
        BY <4>1
    <3>2. h \in ready
      BY DEF Before
    <3>3. QED
      BY <3>1, <3>2
  <2>2. QED
    BY <2>1, <1>1 DEF Before
<1>4. /\ visits' = [n \in Ids(Def) |-> visits[n] + Cardinality({i \in released : node[i] = n})]
      /\ nodeRuns' = nodeRuns + Cardinality(released)
      /\ \/ /\ released = ready
            /\ active' = kept \cup {node[i] : i \in released}
            /\ status' \in Live
            /\ reason' = "none"
         \/ /\ active' = {}
            /\ status' = "budget-exhausted"
            /\ reason' \in {"max-visits", "max-node-runs"}
  BY DEF Dispatch, Terminate, Live
<1>5. QED
  <2> HIDE DEF released
  <2>1. QED
    BY <1>1, <1>2, <1>3, <1>4

(* Dispatch keeps the types of what it assigns.                              *)
LEMMA DispatchType ==
  ASSUME TypeOK, NEW kept \in SUBSET Ids(Def), NEW node, NEW ready \in SUBSET Int,
         IsFiniteSet(ready), \A i \in ready : node[i] \in Ids(Def),
         Dispatch(kept, node, ready)
  PROVE  /\ visits' \in [Ids(Def) -> Nat] /\ nodeRuns' \in Nat
         /\ active' \in SUBSET Ids(Def)
         /\ status' \in Live \cup Ended
         /\ reason' \in Reason /\ (reason' # "none" <=> status' \in Ended)
<1>1. PICK released \in SUBSET ready :
           /\ visits' = [n \in Ids(Def) |-> visits[n] + Cardinality({i \in released : node[i] = n})]
           /\ nodeRuns' = nodeRuns + Cardinality(released)
           /\ \/ /\ released = ready
                 /\ active' = kept \cup {node[i] : i \in released}
                 /\ status' \in Live
                 /\ reason' = "none"
              \/ /\ active' = {}
                 /\ status' = "budget-exhausted"
                 /\ reason' \in {"max-visits", "max-node-runs"}
  BY DispatchBooks
<1>2. \A T \in SUBSET released : Cardinality(T) \in Nat
  BY Countable
<1>3. visits' \in [Ids(Def) -> Nat]
  <2>1. \A n \in Ids(Def) : visits[n] \in Nat
    BY DEF TypeOK
  <2>2. \A n \in Ids(Def) : Cardinality({i \in released : node[i] = n}) \in Nat
    BY <1>2
  <2>3. QED
    BY <1>1, <2>1, <2>2
<1>4. nodeRuns' \in Nat
  BY <1>1, <1>2 DEF TypeOK
<1>5. active' \in SUBSET Ids(Def)
  BY <1>1
<1>6. QED
  BY <1>1, <1>3, <1>4, <1>5 DEF Live, Ended, Reason

(* Dispatch leaves a run that is live waiting for what it dispatched.        *)
LEMMA DispatchWork ==
  ASSUME NEW kept, NEW node, NEW ready \in SUBSET Int, ready # {},
         Dispatch(kept, node, ready)
  PROVE  status' \in Live <=> active' # {}
<1>1. PICK released \in SUBSET ready :
        \/ released = ready /\ active' = kept \cup {node[i] : i \in released} /\ status' \in Live
        \/ active' = {} /\ status' = "budget-exhausted"
  BY DispatchBooks
<1>2. {node[i] : i \in ready} # {}
  OBVIOUS
<1>3. QED
  BY <1>1, <1>2 DEF Live

(* Dispatch stays within both budgets.                                       *)
LEMMA DispatchBudget ==
  ASSUME TypeOK, BudgetRespected, NEW kept, NEW node, NEW ready \in SUBSET Int,
         IsFiniteSet(ready), \A i \in ready : node[i] \in Ids(Def),
         Dispatch(kept, node, ready)
  PROVE  /\ nodeRuns' <= Limits.maxNodeRuns
         /\ \A n \in Ids(Def) : visits'[n] <= Limits.maxVisitsPerNode /\ visits'[n] <= nodeRuns'
<1> DEFINE Of(R, n) == {i \in R : node[i] = n}
<1>1. PICK released \in SUBSET ready :
           /\ \A i \in released : /\ Room(ready, i) /\ Fresh(node, ready, i)
                                  /\ Before(ready, i) = {h \in released : h < i}
           /\ visits' = [n \in Ids(Def) |-> visits[n] + Cardinality(Of(released, n))]
           /\ nodeRuns' = nodeRuns + Cardinality(released)
  BY DispatchBooks
<1>2. \A T \in SUBSET released : IsFiniteSet(T) /\ Cardinality(T) \in Nat
  BY Countable
<1>3. /\ Limits.maxNodeRuns \in Nat /\ Limits.maxVisitsPerNode \in Nat
      /\ nodeRuns \in Nat /\ \A n \in Ids(Def) : visits[n] \in Nat
  BY LimitFacts DEF TypeOK
<1>4. nodeRuns' <= Limits.maxNodeRuns
  <2> DEFINE m == Limits.maxNodeRuns - nodeRuns
  <2>1. m \in Nat
    BY <1>3 DEF BudgetRespected
  <2>2. \A h \in released : Cardinality({g \in released : g < h}) < m
    <3> SUFFICES ASSUME NEW h \in released PROVE Cardinality({g \in released : g < h}) < m
      OBVIOUS
    <3>1. nodeRuns + Cardinality({g \in released : g < h}) < Limits.maxNodeRuns
      BY <1>1 DEF Room
    <3>2. Cardinality({g \in released : g < h}) \in Nat
      BY <1>2
    <3>3. QED
      BY <1>3, <3>1, <3>2
  <2>3. released \in SUBSET Int /\ IsFiniteSet(released) /\ Cardinality(released) \in Nat
    BY <1>2
  <2>4. Cardinality(released) <= m
    <3> HIDE DEF m
    <3>1. QED
      BY <2>1, <2>2, <2>3, Counted
  <2>5. QED
    BY <1>1, <1>3, <2>3, <2>4
<1>5. ASSUME NEW n \in Ids(Def)
      PROVE  visits'[n] <= Limits.maxVisitsPerNode /\ visits'[n] <= nodeRuns'
  <2> DEFINE S == Of(released, n)
             m == Limits.maxVisitsPerNode - visits[n]
  <2>1. m \in Nat
    BY <1>3 DEF BudgetRespected
  <2>2. S \in SUBSET released /\ S \in SUBSET Int
    OBVIOUS
  <2>3. IsFiniteSet(S) /\ Cardinality(S) \in Nat /\ Cardinality(S) <= Cardinality(released)
    <3> HIDE DEF S
    <3>1. QED
      BY <1>2, <2>2, Countable
  <2>4. \A h \in S : Cardinality({g \in S : g < h}) < m
    <3> SUFFICES ASSUME NEW h \in S PROVE Cardinality({g \in S : g < h}) < m
      OBVIOUS
    <3>1. {g \in Before(ready, h) : node[g] = node[h]} = {g \in S : g < h}
      <4>1. Before(ready, h) = {g \in released : g < h} /\ node[h] = n
        BY <1>1
      <4>2. QED
        BY <4>1
    <3>2. visits[n] + Cardinality({g \in S : g < h}) < Limits.maxVisitsPerNode
      <4>1. Fresh(node, ready, h) /\ node[h] = n
        BY <1>1
      <4> HIDE DEF S
      <4>2. QED
        BY <3>1, <4>1 DEF Fresh
    <3>3. Cardinality({g \in S : g < h}) \in Nat
      BY <1>2
    <3> HIDE DEF S
    <3>4. QED
      BY <1>3, <3>2, <3>3
  <2>5. Cardinality(S) <= m
    <3> HIDE DEF m, S
    <3>1. QED
      BY <2>1, <2>2, <2>3, <2>4, Counted
  <2>6. visits'[n] = visits[n] + Cardinality(S)
    BY <1>1
  <2>7. visits[n] <= nodeRuns
    BY DEF BudgetRespected
  <2>8. Cardinality(released) \in Nat
    BY <1>2
  <2> HIDE DEF S
  <2>9. QED
    BY <1>1, <1>3, <2>3, <2>5, <2>6, <2>7, <2>8
<1>6. QED
  BY <1>4, <1>5

-----------------------------------------------------------------------------
(* Advance                                                                   *)

LEMMA MatchedEdges ==
  ASSUME NEW n, NEW o
  PROVE  Matched(Def, n, o) \in SUBSET DOMAIN Def.edges
BY DEF Matched, Outgoing

(* What Advance leaves to Settle or to Dispatch.                             *)
LEMMA AdvanceBooks ==
  ASSUME TypeOK, NEW n \in Ids(Def), NEW o, Advance(n, o)
  PROVE  \E taken, ready \in SUBSET DOMAIN Def.edges :
           IF ready = {} THEN Settle(active \ {n}, o, taken)
             ELSE Dispatch(active \ {n}, [i \in DOMAIN Def.edges |-> Target(i)], ready)
<1> DEFINE taken == Matched(Def, n, o)
           emits == {i \in taken : Kind(Target(i)) = "emit"}
           ready == {i \in taken \ emits : Target(i) \in Joins => Fires(Target(i), n)}
<1>1. taken \in SUBSET DOMAIN Def.edges /\ ready \in SUBSET DOMAIN Def.edges
  BY MatchedEdges
<1>2. IF ready = {} THEN Settle(active \ {n}, o, taken)
        ELSE Dispatch(active \ {n}, [i \in DOMAIN Def.edges |-> Target(i)], ready)
  BY DEF Advance
<1>3. QED
  <2> HIDE DEF taken, ready
  <2>1. QED
    BY <1>1, <1>2

(* The joins of a run keep their types.                                      *)
LEMMA AdvanceJoins ==
  ASSUME TypeOK, NEW n \in Ids(Def), NEW o, Advance(n, o)
  PROVE  /\ plan' = plan /\ age' = age /\ swept' = swept /\ doomed' = doomed \ {n}
         /\ arrivals' \in [Joins -> SUBSET Ids(Def)]
         /\ fired' \in SUBSET Joins
<1> DEFINE taken == Matched(Def, n, o)
           met == {Target(i) : i \in taken} \cap Joins
<1>1. /\ plan' = plan /\ age' = age /\ swept' = swept /\ doomed' = doomed \ {n}
      /\ arrivals' = [j \in Joins |-> IF j \in met THEN Arrived(j, n) ELSE arrivals[j]]
      /\ fired' = {j \in fired : j \in met => Late(j, n)} \cup {j \in met : Fires(j, n)}
  BY DEF Advance
<1>2. \A j \in Joins : arrivals[j] \in SUBSET Ids(Def)
  BY DEF TypeOK
<1>3. \A j \in Joins : Arrived(j, n) \in SUBSET Ids(Def)
  BY <1>2 DEF Arrived
<1>4. arrivals' \in [Joins -> SUBSET Ids(Def)]
  <2> HIDE DEF met
  <2>1. QED
    BY <1>1, <1>2, <1>3
<1>5. fired' \in SUBSET Joins
  <2>1. fired \in SUBSET Joins
    BY DEF TypeOK
  <2>2. met \in SUBSET Joins
    OBVIOUS
  <2> HIDE DEF met
  <2>3. QED
    BY <1>1, <2>1, <2>2
<1>6. QED
  BY <1>1, <1>4, <1>5

LEMMA AdvanceType ==
  ASSUME TypeOK, status \in Live, NEW n \in Ids(Def), NEW o, Advance(n, o)
  PROVE  TypeOK'
<1> DEFINE kept == active \ {n}
           node == [i \in DOMAIN Def.edges |-> Target(i)]
<1>1. PICK taken, ready \in SUBSET DOMAIN Def.edges :
        IF ready = {} THEN Settle(kept, o, taken) ELSE Dispatch(kept, node, ready)
  BY AdvanceBooks
<1>2. plan \in Plan /\ kept \in SUBSET Ids(Def) /\ age \in Nat
        /\ swept \in {"no", "found", "done"} /\ doomed \in SUBSET Ids(Def)
  BY DEF TypeOK
<1>3. /\ visits' \in [Ids(Def) -> Nat] /\ nodeRuns' \in Nat
      /\ active' \in SUBSET Ids(Def)
      /\ status' \in Live \cup Ended
      /\ reason' \in Reason /\ (reason' # "none" <=> status' \in Ended)
  <2>1. CASE ready = {}
    <3>1. Settle(kept, o, taken)
      BY <1>1, <2>1
    <3>2. visits' = visits /\ nodeRuns' = nodeRuns
      BY <3>1 DEF Settle
    <3>3. \/ active' = kept /\ status' = "running" /\ reason' = reason
          \/ active' = {} /\ status' \in Ended /\ reason' \in {"stalled", "no-edge", "emit"}
      BY <3>1 DEF Settle, Terminate, Ended
    <3>4. reason = "none"
      BY DEF TypeOK, Live, Ended
    <3> HIDE DEF kept
    <3>5. QED
      BY <1>2, <3>2, <3>3, <3>4 DEF TypeOK, Live, Ended, Reason
  <2>2. CASE ready # {}
    <3>1. Dispatch(kept, node, ready)
      BY <1>1, <2>2
    <3>2. ready \in SUBSET Int /\ IsFiniteSet(ready) /\ \A i \in ready : node[i] \in Ids(Def)
      BY <1>2, EdgeFacts, Countable
    <3> HIDE DEF kept, node
    <3>3. QED
      BY <1>2, <3>1, <3>2, DispatchType
  <2>3. QED
    BY <2>1, <2>2
<1>4. /\ plan' = plan /\ age' = age /\ swept' = swept /\ doomed' = doomed \ {n}
      /\ arrivals' \in [Joins -> SUBSET Ids(Def)] /\ fired' \in SUBSET Joins
  BY AdvanceJoins
<1>5. Ids(Def)' = Ids(Def) /\ Joins' = Joins
  BY <1>4, PlanKept
<1>6. QED
  BY <1>2, <1>3, <1>4, <1>5 DEF TypeOK

LEMMA AdvanceWork ==
  ASSUME TypeOK, NEW n \in Ids(Def), NEW o, Advance(n, o)
  PROVE  status' \in Live <=> active' # {}
<1> DEFINE kept == active \ {n}
           node == [i \in DOMAIN Def.edges |-> Target(i)]
<1>1. PICK taken, ready \in SUBSET DOMAIN Def.edges :
        IF ready = {} THEN Settle(kept, o, taken) ELSE Dispatch(kept, node, ready)
  BY AdvanceBooks
<1>2. CASE ready = {}
  <2>1. \/ kept # {} /\ active' = kept /\ status' = "running"
        \/ active' = {} /\ status' \in {"failed", "succeeded"}
    BY <1>1, <1>2 DEF Settle, Terminate
  <2>2. QED
    BY <2>1 DEF Live
<1>3. CASE ready # {}
  <2>1. ready \in SUBSET Int
    BY EdgeFacts DEF TypeOK
  <2>2. QED
    BY <1>1, <1>3, <2>1, DispatchWork
<1>4. QED
  BY <1>2, <1>3

LEMMA AdvanceBudget ==
  ASSUME TypeOK, BudgetRespected, NEW n \in Ids(Def), NEW o, Advance(n, o)
  PROVE  BudgetRespected'
<1> DEFINE kept == active \ {n}
           node == [i \in DOMAIN Def.edges |-> Target(i)]
<1>1. PICK taken, ready \in SUBSET DOMAIN Def.edges :
        IF ready = {} THEN Settle(kept, o, taken) ELSE Dispatch(kept, node, ready)
  BY AdvanceBooks
<1>2. /\ nodeRuns' <= Limits.maxNodeRuns
      /\ \A m \in Ids(Def) : visits'[m] <= Limits.maxVisitsPerNode /\ visits'[m] <= nodeRuns'
  <2>1. CASE ready = {}
    <3>1. visits' = visits /\ nodeRuns' = nodeRuns
      BY <1>1, <2>1 DEF Settle
    <3>2. QED
      BY <3>1 DEF BudgetRespected
  <2>2. CASE ready # {}
    <3>1. Dispatch(kept, node, ready)
      BY <1>1, <2>2
    <3>2. ready \in SUBSET Int /\ IsFiniteSet(ready) /\ \A i \in ready : node[i] \in Ids(Def)
      BY EdgeFacts, Countable DEF TypeOK
    <3> HIDE DEF kept, node
    <3>3. QED
      BY <3>1, <3>2, DispatchBudget
  <2>3. QED
    BY <2>1, <2>2
<1>3. Limits' = Limits /\ Ids(Def)' = Ids(Def)
  BY AdvanceJoins, PlanKept
<1>4. QED
  BY <1>2, <1>3 DEF BudgetRespected

(* Reports, joins and people all advance a live run.                         *)
LEMMA StepAdvances ==
  ASSUME NEW n, Step(n)
  PROVE  status \in Live /\ \E o : Advance(n, o)
BY DEF Step, Report, SettleJoin, Continue, Live

-----------------------------------------------------------------------------
(* Types                                                                     *)

LEMMA InitType == ASSUME Init PROVE TypeOK
<1>1. plan \in Plan /\ \A n \in Ids(Def) : 0 \in Nat
  BY DEF Init
<1>2. visits \in [Ids(Def) -> Nat] /\ arrivals \in [Joins -> SUBSET Ids(Def)]
  BY DEF Init
<1>3. QED
  BY <1>1, <1>2 DEF Init, TypeOK, Live, Ended, Reason

LEMMA StartType == ASSUME TypeOK, Start PROVE TypeOK'
<1>1. /\ plan' = plan /\ arrivals' = arrivals /\ fired' = fired /\ age' = age
      /\ swept' = swept /\ doomed' = doomed
      /\ Dispatch({}, Def.entry, DOMAIN Def.entry)
  BY DEF Start
<1>2. plan \in Plan
  BY DEF TypeOK
<1>3. /\ DOMAIN Def.entry \in SUBSET Int /\ IsFiniteSet(DOMAIN Def.entry)
      /\ \A i \in DOMAIN Def.entry : Def.entry[i] \in Ids(Def)
  BY <1>2, EntryFacts
<1>4. /\ visits' \in [Ids(Def) -> Nat] /\ nodeRuns' \in Nat
      /\ active' \in SUBSET Ids(Def)
      /\ status' \in Live \cup Ended
      /\ reason' \in Reason /\ (reason' # "none" <=> status' \in Ended)
  BY <1>1, <1>3, DispatchType
<1>5. Ids(Def)' = Ids(Def) /\ Joins' = Joins
  BY <1>1, PlanKept
<1>6. QED
  BY <1>1, <1>4, <1>5 DEF TypeOK

LEMMA AdoptType ==
  ASSUME TypeOK, NEW n \in plan.adoptable, NEW k \in 1..Limits.maxVisitsPerNode, Adopt(n, k)
  PROVE  TypeOK'
<1>1. n \in Ids(Def) /\ k \in Nat
  BY LimitFacts DEF TypeOK
<1>2. /\ plan' = plan /\ arrivals' = arrivals /\ fired' = fired /\ age' = age /\ reason' = reason
      /\ swept' = swept /\ doomed' = doomed
      /\ visits' = [visits EXCEPT ![n] = k] /\ nodeRuns' = k
      /\ active' = {n} /\ status' = "running" /\ status = "none"
  BY DEF Adopt
<1>3. visits' \in [Ids(Def) -> Nat]
  BY <1>1, <1>2 DEF TypeOK
<1>4. Ids(Def)' = Ids(Def) /\ Joins' = Joins
  BY <1>2, PlanKept
<1>5. QED
  BY <1>1, <1>2, <1>3, <1>4 DEF TypeOK, Live, Ended

LEMMA ExpireType == ASSUME TypeOK, Expire PROVE TypeOK'
<1>1. /\ plan' = plan /\ arrivals' = arrivals /\ fired' = fired /\ age' = age
      /\ visits' = visits /\ nodeRuns' = nodeRuns /\ swept' = "done" /\ doomed' = {}
  BY DEF Expire
<1>2. \/ status' = "budget-exhausted" /\ reason' = "run-timeout" /\ active' = {}
      \/ status' = status /\ reason' = reason /\ active' = active
  BY DEF Expire, Terminate
<1>3. Ids(Def)' = Ids(Def) /\ Joins' = Joins
  BY <1>1, PlanKept
<1>4. QED
  BY <1>1, <1>2, <1>3 DEF TypeOK, Ended, Reason

LEMMA ClockType == ASSUME TypeOK, Sweep \/ Tick PROVE TypeOK'
<1>1. /\ plan' = plan /\ arrivals' = arrivals /\ fired' = fired
      /\ visits' = visits /\ nodeRuns' = nodeRuns /\ reason' = reason
      /\ status' = status /\ active' = active
  BY DEF Sweep, SweepFinds, Tick
<1>2. \/ swept' = "found" /\ doomed' \in SUBSET active /\ age' = age
      \/ swept' = swept /\ doomed' = doomed /\ age' = age + 1
  BY DEF Sweep, SweepFinds, Tick
<1>3. Ids(Def)' = Ids(Def) /\ Joins' = Joins
  BY <1>1, PlanKept
<1>4. QED
  BY <1>1, <1>2, <1>3 DEF TypeOK

LEMMA StutterType == ASSUME TypeOK, UNCHANGED vars PROVE TypeOK'
<1>1. /\ plan' = plan /\ arrivals' = arrivals /\ fired' = fired /\ age' = age /\ reason' = reason
      /\ visits' = visits /\ nodeRuns' = nodeRuns /\ status' = status /\ active' = active
      /\ swept' = swept /\ doomed' = doomed
  BY DEF vars
<1>2. Ids(Def)' = Ids(Def) /\ Joins' = Joins
  BY <1>1, PlanKept
<1>3. QED
  BY <1>1, <1>2 DEF TypeOK

LEMMA StepType == ASSUME TypeOK, [Next]_vars PROVE TypeOK'
<1>1. CASE Start
  BY <1>1, StartType
<1>2. CASE \E n \in plan.adoptable : \E k \in 1..Limits.maxVisitsPerNode : Adopt(n, k)
  BY <1>2, AdoptType
<1>3. CASE \E n \in Ids(Def) : Step(n)
  BY <1>3, StepAdvances, AdvanceType
<1>4. CASE Sweep \/ Tick
  BY <1>4, ClockType
<1>5. CASE Expire
  BY <1>5, ExpireType
<1>6. CASE UNCHANGED vars
  BY <1>6, StutterType
<1>7. QED
  BY <1>1, <1>2, <1>3, <1>4, <1>5, <1>6 DEF Next

(* Every field of a run keeps its type, for every definition and budget      *)
(* (qaap-workflow-run.ts:130-149).                                           *)
THEOREM RunTypeCorrect == Spec => []TypeOK
<1>1. Init => TypeOK
  BY InitType
<1>2. TypeOK /\ [Next]_vars => TypeOK'
  BY StepType
<1>3. QED
  BY <1>1, <1>2, PTL DEF Spec

-----------------------------------------------------------------------------
(* Work                                                                      *)

(* A live run always waits for somebody and an ended one for nobody, over    *)
(* every graph: the fan-outs, joins and dead branches of a run never leave   *)
(* it without a report that could move it (qaap-workflow-run.ts:214-256).    *)
THEOREM RunHasWork == Spec => []LiveRunHasWork
<1>1. Init => LiveRunHasWork
  BY DEF Init, LiveRunHasWork, Live
<1>2. TypeOK /\ LiveRunHasWork /\ [Next]_vars => LiveRunHasWork'
  <2> SUFFICES ASSUME TypeOK, LiveRunHasWork, [Next]_vars PROVE LiveRunHasWork'
    OBVIOUS
  <2>1. CASE Start
    <3>1. Dispatch({}, Def.entry, DOMAIN Def.entry) /\ Def.entry # <<>>
      BY <2>1 DEF Start, ValidDef
    <3>2. DOMAIN Def.entry \in SUBSET Int
      BY EntryFacts DEF TypeOK
    <3>3. DOMAIN Def.entry # {}
      <4>1. Def.entry \in Seq(Ids(Def))
        BY DefinitionAssumption DEF Def, TypeOK
      <4>2. Len(Def.entry) \in Nat \ {0} /\ DOMAIN Def.entry = 1..Len(Def.entry)
        BY <3>1, <4>1, EmptySeq, LenProperties
      <4>3. QED
        BY <4>2
    <3>4. QED
      BY <3>1, <3>2, <3>3, DispatchWork DEF LiveRunHasWork
  <2>2. CASE \E n \in plan.adoptable : \E k \in 1..Limits.maxVisitsPerNode : Adopt(n, k)
    BY <2>2 DEF Adopt, LiveRunHasWork, Live
  <2>3. CASE \E n \in Ids(Def) : Step(n)
    BY <2>3, StepAdvances, AdvanceWork DEF LiveRunHasWork
  <2>4. CASE Sweep \/ Tick
    BY <2>4 DEF Sweep, SweepFinds, Tick, LiveRunHasWork
  <2>5. CASE Expire
    BY <2>5 DEF Expire, Terminate, LiveRunHasWork, Live
  <2>6. CASE UNCHANGED vars
    BY <2>6 DEF vars, LiveRunHasWork
  <2>7. QED
    BY <2>1, <2>2, <2>3, <2>4, <2>5, <2>6 DEF Next
<1>3. QED
  BY <1>1, <1>2, RunTypeCorrect, PTL DEF Spec

-----------------------------------------------------------------------------
(* Budgets                                                                   *)

(* A run that was not started has dispatched nothing, so one that is adopted *)
(* counts the visits it was adopted with and no more.                        *)
Unstarted == status = "none" => nodeRuns = 0
BudgetInv == BudgetRespected /\ Unstarted

LEMMA AdvanceStarted ==
  ASSUME TypeOK, NEW n \in Ids(Def), NEW o, Advance(n, o)
  PROVE  status' # "none"
<1> DEFINE kept == active \ {n}
           node == [i \in DOMAIN Def.edges |-> Target(i)]
<1>1. PICK taken, ready \in SUBSET DOMAIN Def.edges :
        IF ready = {} THEN Settle(kept, o, taken) ELSE Dispatch(kept, node, ready)
  BY AdvanceBooks
<1>2. CASE ready = {}
  BY <1>1, <1>2 DEF Settle, Terminate
<1>3. CASE ready # {}
  <2>1. ready \in SUBSET Int
    BY EdgeFacts DEF TypeOK
  <2>2. status' \in Live \/ status' = "budget-exhausted"
    BY <1>1, <1>3, <2>1, DispatchBooks
  <2>3. QED
    BY <2>2 DEF Live
<1>4. QED
  BY <1>2, <1>3

LEMMA StaysStarted == ASSUME TypeOK, Unstarted, [Next]_vars PROVE Unstarted'
<1>1. CASE Start
  <2>1. Dispatch({}, Def.entry, DOMAIN Def.entry) /\ DOMAIN Def.entry \in SUBSET Int
    BY <1>1, EntryFacts DEF Start, TypeOK
  <2>2. status' \in Live \/ status' = "budget-exhausted"
    BY <2>1, DispatchBooks
  <2>3. QED
    BY <2>2 DEF Unstarted, Live
<1>2. CASE \E n \in plan.adoptable : \E k \in 1..Limits.maxVisitsPerNode : Adopt(n, k)
  BY <1>2 DEF Adopt, Unstarted
<1>3. CASE \E n \in Ids(Def) : Step(n)
  BY <1>3, StepAdvances, AdvanceStarted DEF Unstarted
<1>4. CASE Sweep \/ Tick \/ UNCHANGED vars
  BY <1>4 DEF Sweep, SweepFinds, Tick, vars, Unstarted
<1>5. CASE Expire
  BY <1>5 DEF Expire, Terminate, Unstarted
<1>6. QED
  BY <1>1, <1>2, <1>3, <1>4, <1>5 DEF Next

(* However a graph loops and fans out, a run dispatches no more nodes than   *)
(* its budget, and no node more often than the budget of a node              *)
(* (qaap-workflow-run.ts:260-298).                                           *)
THEOREM RunWithinBudget == Spec => []BudgetRespected
<1>1. Init => BudgetInv
  <2> SUFFICES ASSUME Init PROVE BudgetInv
    OBVIOUS
  <2>1. plan \in Plan /\ nodeRuns = 0 /\ \A n \in Ids(Def) : visits[n] = 0
    BY DEF Init
  <2>2. QED
    BY <2>1, LimitFacts DEF BudgetInv, BudgetRespected, Unstarted
<1>2. TypeOK /\ BudgetInv /\ [Next]_vars => BudgetInv'
  <2> SUFFICES ASSUME TypeOK, BudgetRespected, Unstarted, [Next]_vars PROVE BudgetRespected'
    BY StaysStarted DEF BudgetInv
  <2>1. CASE Start
    <3>1. Dispatch({}, Def.entry, DOMAIN Def.entry) /\ plan' = plan
      BY <2>1 DEF Start
    <3>2. /\ DOMAIN Def.entry \in SUBSET Int /\ IsFiniteSet(DOMAIN Def.entry)
          /\ \A i \in DOMAIN Def.entry : Def.entry[i] \in Ids(Def)
      BY EntryFacts DEF TypeOK
    <3>3. /\ nodeRuns' <= Limits.maxNodeRuns
          /\ \A n \in Ids(Def) : visits'[n] <= Limits.maxVisitsPerNode /\ visits'[n] <= nodeRuns'
      BY <3>1, <3>2, DispatchBudget
    <3>4. QED
      BY <3>1, <3>3, PlanKept DEF BudgetRespected
  <2>2. CASE \E n \in plan.adoptable : \E k \in 1..Limits.maxVisitsPerNode : Adopt(n, k)
    <3>1. PICK n \in plan.adoptable, k \in 1..Limits.maxVisitsPerNode : Adopt(n, k)
      BY <2>2
    <3>2. status = "none" /\ k <= Limits.maxNodeRuns /\ k <= Limits.maxVisitsPerNode /\ k \in Nat
      BY <3>1, LimitFacts DEF Adopt, TypeOK
    <3>3. n \in Ids(Def) /\ plan' = plan /\ nodeRuns' = k /\ visits' = [visits EXCEPT ![n] = k]
      BY <3>1, LimitFacts DEF Adopt, TypeOK
    <3>4. \A m \in Ids(Def) : visits[m] \in Nat /\ visits[m] <= 0
      BY <3>2 DEF TypeOK, BudgetRespected, Unstarted
    <3>5. \A m \in Ids(Def) : visits'[m] <= k
      BY <3>2, <3>3, <3>4 DEF TypeOK
    <3>6. \A m \in Ids(Def) : visits'[m] <= Limits.maxVisitsPerNode
      <4>1. Limits.maxVisitsPerNode \in Nat /\ \A m \in Ids(Def) : visits'[m] \in Nat
        BY <3>2, <3>3, <3>4, LimitFacts DEF TypeOK
      <4>2. QED
        BY <3>2, <3>5, <4>1
    <3>7. QED
      BY <3>2, <3>3, <3>5, <3>6, PlanKept DEF BudgetRespected
  <2>3. CASE \E n \in Ids(Def) : Step(n)
    BY <2>3, StepAdvances, AdvanceBudget
  <2>4. CASE Sweep \/ Tick \/ Expire \/ UNCHANGED vars
    <3>1. plan' = plan /\ visits' = visits /\ nodeRuns' = nodeRuns
      BY <2>4 DEF Sweep, SweepFinds, Tick, Expire, vars
    <3>2. QED
      BY <3>1, PlanKept DEF BudgetRespected
  <2>5. QED
    BY <2>1, <2>2, <2>3, <2>4 DEF Next
<1>3. BudgetInv => BudgetRespected
  BY DEF BudgetInv
<1>4. QED
  BY <1>1, <1>2, <1>3, RunTypeCorrect, PTL DEF Spec

-----------------------------------------------------------------------------
(* Strands                                                                   *)

(* The edges whose target an outcome of n starts, if the budget allows it.   *)
Starting(n, o) ==
  {i \in Matched(Def, n, o) : /\ Kind(Target(i)) # "emit"
                              /\ Target(i) \in Joins => Fires(Target(i), n)}

LEMMA SomeOf ==
  ASSUME NEW S, IsFiniteSet(S), NEW x \in S
  PROVE  Cardinality(S) \in Nat /\ Cardinality(S) >= 1
<1>1. Cardinality(S) \in Nat /\ Cardinality(S) # 0
  BY FS_CardinalityType, FS_EmptySet
<1>2. QED
  BY <1>1

(* Every branch goes on and what was released is active and counted, or the  *)
(* run is over: because this was its last branch, or its budget is spent.    *)
LEMMA AdvanceStarts ==
  ASSUME TypeOK, NEW n \in Ids(Def), NEW o, Advance(n, o)
  PROVE  /\ \A m \in Ids(Def) : /\ visits'[m] \in Nat /\ visits'[m] >= visits[m]
                                /\ visits'[m] > visits[m] => \E i \in Starting(n, o) : Target(i) = m
         /\ \/ /\ active' = (active \ {n}) \cup {Target(i) : i \in Starting(n, o)}
               /\ status' \in Live
               /\ \A i \in Starting(n, o) : visits'[Target(i)] > visits[Target(i)]
            \/ /\ active' = {} /\ status' \in Ended
               /\ active \subseteq {n} \/ reason' \in {"max-visits", "max-node-runs"}
<1> DEFINE ready == Starting(n, o)
           node == [i \in DOMAIN Def.edges |-> Target(i)]
           kept == active \ {n}
<1>1. /\ ready \in SUBSET DOMAIN Def.edges /\ ready \in SUBSET Int /\ IsFiniteSet(ready)
      /\ \A i \in ready : node[i] = Target(i) /\ Target(i) \in Ids(Def)
  <2>1. /\ DOMAIN Def.edges \in SUBSET Int /\ IsFiniteSet(DOMAIN Def.edges)
        /\ \A i \in DOMAIN Def.edges : Target(i) \in Ids(Def)
    BY EdgeFacts DEF TypeOK
  <2>2. ready \in SUBSET DOMAIN Def.edges
    BY MatchedEdges DEF Starting
  <2> HIDE DEF ready
  <2>3. QED
    BY <2>1, <2>2, Countable
<1>2. IF ready = {} THEN Settle(kept, o, Matched(Def, n, o)) ELSE Dispatch(kept, node, ready)
  <2>1. ready = {i \in Matched(Def, n, o) \ {i \in Matched(Def, n, o) : Kind(Target(i)) = "emit"} :
                   Target(i) \in Joins => Fires(Target(i), n)}
    BY DEF Starting
  <2>2. QED
    BY <2>1 DEF Advance
<1>3. \A m \in Ids(Def) : visits[m] \in Nat
  BY DEF TypeOK
<1>4. CASE ready = {}
  <2>1. Settle(kept, o, Matched(Def, n, o))
    BY <1>2, <1>4
  <2>2. visits' = visits
    BY <2>1 DEF Settle
  <2>3. \/ active' = kept /\ status' = "running"
        \/ kept = {} /\ active' = {} /\ status' \in {"failed", "succeeded"}
    BY <2>1 DEF Settle, Terminate
  <2>4. active' = kept => active' = kept \cup {Target(i) : i \in ready}
    BY <1>4
  <2>5. \A i \in ready : visits'[Target(i)] > visits[Target(i)]
    BY <1>4
  <2>6. \A m \in Ids(Def) : visits'[m] = visits[m] /\ visits'[m] \in Nat
    BY <1>3, <2>2
  <2>7. kept = {} => active \subseteq {n}
    OBVIOUS
  <2> HIDE DEF ready, kept
  <2>8. (active' = (active \ {n}) \cup {Target(i) : i \in ready} /\ status' \in Live)
          \/ (active' = {} /\ status' \in Ended /\ active \subseteq {n})
    BY <2>3, <2>4, <2>7 DEF kept, Live, Ended
  <2>9. \A m \in Ids(Def) : visits'[m] \in Nat /\ visits'[m] >= visits[m] /\ ~(visits'[m] > visits[m])
    BY <1>3, <2>6
  <2>10. QED
    BY <2>5, <2>8, <2>9 DEF ready
<1>5. CASE ready # {}
  <2>1. Dispatch(kept, node, ready)
    BY <1>2, <1>5
  <2> HIDE DEF ready, kept, node
  <2>0. ready \in SUBSET Int
    BY <1>1
  <2>2. PICK released \in SUBSET ready :
           /\ visits' = [m \in Ids(Def) |-> visits[m] + Cardinality({i \in released : node[i] = m})]
           /\ \/ /\ released = ready
                 /\ active' = kept \cup {node[i] : i \in released}
                 /\ status' \in Live
              \/ /\ active' = {}
                 /\ status' = "budget-exhausted"
                 /\ reason' \in {"max-visits", "max-node-runs"}
    BY <2>1, <2>0, DispatchBooks
  <2>3. \A m \in Ids(Def) : LET C == {i \in released : node[i] = m} IN
          IsFiniteSet(C) /\ Cardinality(C) \in Nat /\ (C # {} => Cardinality(C) >= 1)
    <3> SUFFICES ASSUME NEW m \in Ids(Def), NEW C, C = {i \in released : node[i] = m}
                 PROVE  IsFiniteSet(C) /\ Cardinality(C) \in Nat /\ (C # {} => Cardinality(C) >= 1)
      OBVIOUS
    <3>1. C \in SUBSET ready
      BY <2>2
    <3>2. IsFiniteSet(C) /\ Cardinality(C) \in Nat
      BY <1>1, <3>1, Countable
    <3>3. QED
      BY <3>2, SomeOf
  <2>4. \A m \in Ids(Def) : {i \in released : node[i] = m} = {} => visits'[m] = visits[m]
    <3>1. Cardinality({}) = 0
      BY FS_EmptySet
    <3>2. QED
      BY <1>3, <2>2, <3>1
  <2>5. \A m \in Ids(Def) : /\ visits'[m] \in Nat /\ visits'[m] >= visits[m]
                            /\ visits'[m] > visits[m] => \E i \in ready : node[i] = m
                            /\ (\E i \in released : node[i] = m) => visits'[m] > visits[m]
    <3> SUFFICES ASSUME NEW m \in Ids(Def)
                 PROVE  /\ visits'[m] \in Nat /\ visits'[m] >= visits[m]
                        /\ visits'[m] > visits[m] => \E i \in ready : node[i] = m
                        /\ (\E i \in released : node[i] = m) => visits'[m] > visits[m]
      OBVIOUS
    <3> DEFINE C == {i \in released : node[i] = m}
    <3>1. Cardinality(C) \in Nat /\ (C # {} => Cardinality(C) >= 1)
      BY <2>3
    <3>2. visits'[m] = visits[m] + Cardinality(C) /\ visits[m] \in Nat
      BY <1>3, <2>2
    <3>3. C = {} => visits'[m] = visits[m]
      BY <2>4
    <3>4. C # {} <=> \E i \in released : node[i] = m
      OBVIOUS
    <3>5. (\E i \in released : node[i] = m) => \E i \in ready : node[i] = m
      OBVIOUS
    <3> HIDE DEF C
    <3>6. QED
      BY <3>1, <3>2, <3>3, <3>4, <3>5
  <2>6. CASE released = ready /\ active' = kept \cup {node[i] : i \in released} /\ status' \in Live
    <3>1. active' = (active \ {n}) \cup {Target(i) : i \in ready}
      BY <1>1, <2>6 DEF kept
    <3>2. \A i \in ready : visits'[Target(i)] > visits[Target(i)]
      BY <1>1, <2>5, <2>6
    <3>3. QED
      BY <1>1, <2>5, <2>6, <3>1, <3>2 DEF ready
  <2>7. CASE active' = {} /\ status' = "budget-exhausted" /\ reason' \in {"max-visits", "max-node-runs"}
    BY <1>1, <2>5, <2>7 DEF ready, Ended
  <2>8. QED
    BY <2>2, <2>6, <2>7
<1>6. QED
  BY <1>4, <1>5

(* A join of S has heard from S in the round it is gathering.                *)
Waits(S, j) == j \notin fired /\ arrivals[j] \cap S # {}

(* A run is at one place of S: at an active node or before a waiting join.   *)
OnePlace(S) ==
  /\ AtMostOne(active \cap S)
  /\ \A j \in Joins \cap S : Waits(S, j) => active \cap S = {}
  /\ AtMostOne({j \in Joins \cap S : Waits(S, j)})

FedByFeeders == \A j \in Joins : arrivals[j] \subseteq Feeders(Def, j)
Untouched == status = "none" => active = {} /\ \A j \in Joins : arrivals[j] = {}
StrandInv ==
  /\ FedByFeeders /\ Untouched
  /\ \A S \in SUBSET Ids(Def) : Strand(Def, S) => OnePlace(S)

LEMMA FeederFacts ==
  ASSUME plan \in Plan, NEW j
  PROVE  Feeders(Def, j) \in SUBSET Ids(Def) /\ IsFiniteSet(Feeders(Def, j))
<1> DEFINE EdgeOf == [from : Ids(Def), to : Ids(Def), when : STRING]
<1>1. Def.edges \in Seq(EdgeOf) /\ IsFiniteSet(Ids(Def))
  BY DefinitionAssumption DEF Def
<1>2. \A i \in DOMAIN Def.edges : Def.edges[i] \in EdgeOf
  <2> HIDE DEF EdgeOf
  <2>1. QED
    BY <1>1, SequenceFacts
<1>3. Feeders(Def, j) \in SUBSET Ids(Def)
  BY <1>2 DEF Feeders
<1>4. QED
  BY <1>1, <1>3, FS_Subset

(* What a step of a node is told for it.                                     *)
LEMMA StepHears ==
  ASSUME NEW n, Step(n)
  PROVE  n \in active /\ status \in Live /\ \E o \in Heard(Def, n) : Advance(n, o)
<1>1. CASE \E o \in Outcomes(Def.node[n]) : Report(n, o)
  BY <1>1 DEF Report, Heard
<1>2. CASE SettleJoin(n)
  <2>1. Def.node[n].kind = "join" /\ Advance(n, "success") /\ n \in active /\ status \in Live
    BY <1>2 DEF SettleJoin, Kind
  <2>2. "success" \in Outcomes(Def.node[n])
    BY <2>1 DEF Outcomes
  <2>3. QED
    BY <2>1, <2>2 DEF Heard
<1>3. CASE Continue(n)
  BY <1>3 DEF Continue, Heard, Live
<1>4. QED
  BY <1>1, <1>2, <1>3 DEF Step

(* What a report changes of the joins it reaches.                            *)
Reached(n, o) == {Target(i) : i \in Matched(Def, n, o)} \cap Joins

LEMMA AdvanceFeeds ==
  ASSUME TypeOK, FedByFeeders, NEW n \in Ids(Def), NEW o, Advance(n, o)
  PROVE  /\ \A j \in Joins \ Reached(n, o) :
              arrivals'[j] = arrivals[j] /\ (j \in fired' <=> j \in fired)
         /\ \A j \in Reached(n, o) :
              /\ arrivals'[j] = Arrived(j, n)
              /\ j \in fired' <=> (j \in fired /\ Late(j, n)) \/ Fires(j, n)
         /\ FedByFeeders'
<1>1. /\ plan' = plan
      /\ arrivals' = [j \in Joins |-> IF j \in Reached(n, o) THEN Arrived(j, n) ELSE arrivals[j]]
      /\ fired' = {j \in fired : j \in Reached(n, o) => Late(j, n)}
                    \cup {j \in Reached(n, o) : Fires(j, n)}
  BY DEF Advance, Reached
<1>2. Reached(n, o) \in SUBSET Joins
  BY DEF Reached
<1>3. \A j \in Reached(n, o) : n \in Feeders(Def, j)
  BY DEF Reached, Matched, Outgoing, Target, Feeders
<1>4. \A j \in Reached(n, o) : Arrived(j, n) \subseteq Feeders(Def, j)
  BY <1>2, <1>3 DEF Arrived, FedByFeeders
<1>5. \A j \in Joins : arrivals'[j] \subseteq Feeders(Def, j)
  BY <1>1, <1>4 DEF FedByFeeders
<1>6. Def' = Def /\ Joins' = Joins
  BY <1>1, PlanKept
<1>7. FedByFeeders'
  BY <1>5, <1>6 DEF FedByFeeders
<1>8. QED
  BY <1>1, <1>2, <1>7

(* A join that gathers a strand is fired from outside only if the strand     *)
(* has come to it: all feeders are there, and those in the strand came       *)
(* before.                                                                   *)
LEMMA FiredFromOutside ==
  ASSUME TypeOK, FedByFeeders, NEW S, NEW n \in Ids(Def), NEW o, n \notin S,
         NEW j \in Reached(n, o), Gathers(Def, S, j), Fires(j, n)
  PROVE  Waits(S, j)
<1>1. j \in Joins /\ n \in Feeders(Def, j)
  BY DEF Reached, Matched, Outgoing, Target, Feeders
<1>2. Feeders(Def, j) \in SUBSET Ids(Def) /\ IsFiniteSet(Feeders(Def, j))
  BY FeederFacts DEF TypeOK
<1>3. Arrived(j, n) \in SUBSET Feeders(Def, j)
  BY <1>1 DEF Arrived, FedByFeeders
<1>4. Arrived(j, n) = Feeders(Def, j)
  <2>1. Cardinality(Arrived(j, n)) >= Cardinality(Feeders(Def, j))
    BY DEF Fires, Gathers
  <2>2. /\ Cardinality(Arrived(j, n)) <= Cardinality(Feeders(Def, j))
        /\ Cardinality(Arrived(j, n)) = Cardinality(Feeders(Def, j)) => Arrived(j, n) = Feeders(Def, j)
    BY <1>2, <1>3, FS_Subset
  <2>3. Cardinality(Arrived(j, n)) \in Nat /\ Cardinality(Feeders(Def, j)) \in Nat
    BY <1>2, <1>3, FS_Subset, FS_CardinalityType
  <2>4. QED
    BY <2>1, <2>2, <2>3
<1>5. PICK c \in Feeders(Def, j) \cap S : c # n
  BY DEF Gathers
<1>6. ~(j \in fired /\ n \in arrivals[j])
  BY <1>4, <1>5 DEF Arrived
<1>7. j \notin fired
  BY <1>6 DEF Fires, Late
<1>8. c \in arrivals[j]
  BY <1>4, <1>5, <1>7 DEF Arrived
<1>9. QED
  BY <1>5, <1>7, <1>8 DEF Waits

LEMMA EnteringFacts ==
  ASSUME NEW S, NEW n, NEW o
  PROVE  /\ \A i \in Starting(n, o) : Target(i) \in S => i \in Entering(Def, S, n, o)
         /\ \A j \in Reached(n, o) \cap S : \E i \in Entering(Def, S, n, o) : Target(i) = j
         /\ \A i \in Starting(n, o) : Target(i) \in Joins => Target(i) \in Reached(n, o) /\ Fires(Target(i), n)
<1>1. \A j \in Joins : Def.node[j].kind # "emit"
  BY DEF Joins, OfKind
<1>2. \A i \in Starting(n, o) : Target(i) \in S => i \in Entering(Def, S, n, o)
  BY DEF Starting, Entering, Target, Kind
<1>3. \A j \in Reached(n, o) \cap S : \E i \in Entering(Def, S, n, o) : Target(i) = j
  BY <1>1 DEF Reached, Entering, Target
<1>4. \A i \in Starting(n, o) : Target(i) \in Joins => Target(i) \in Reached(n, o) /\ Fires(Target(i), n)
  BY DEF Starting, Reached
<1>5. QED
  BY <1>2, <1>3, <1>4

(* The place moves from a node of the strand to at most one of its own.      *)
LEMMA InsideKeeps ==
  ASSUME TypeOK, FedByFeeders, NEW S \in SUBSET Ids(Def), NEW n \in active \cap S, NEW o,
         Advance(n, o), AtMostOne(Entering(Def, S, n, o)), OnePlace(S)
  PROVE  OnePlace(S)'
<1>1. n \in Ids(Def) /\ Joins' = Joins
  BY PlanKept DEF TypeOK, Advance
<1>2. active \cap S = {n} /\ \A j \in Joins \cap S : ~Waits(S, j)
  BY DEF OnePlace, AtMostOne
<1>3. \A x \in active' \cap S : \E i \in Entering(Def, S, n, o) :
        Target(i) = x /\ (x \in Joins => x \in Reached(n, o) /\ Fires(x, n))
  <2>1. active' = (active \ {n}) \cup {Target(i) : i \in Starting(n, o)} \/ active' = {}
    BY <1>1, AdvanceStarts
  <2>2. QED
    BY <1>2, <2>1, EnteringFacts
<1>4. ASSUME NEW j \in Joins \cap S, Waits(S, j)'
      PROVE  /\ ~Fires(j, n) /\ j \in Reached(n, o)
             /\ \E i \in Entering(Def, S, n, o) : Target(i) = j
  <2>1. j \in Reached(n, o)
    BY <1>1, <1>2, <1>4, AdvanceFeeds DEF Waits
  <2>2. ~Fires(j, n)
    BY <1>1, <1>4, <2>1, AdvanceFeeds DEF Waits
  <2>3. QED
    BY <2>1, <2>2, EnteringFacts
<1>5. AtMostOne(active \cap S)'
  BY <1>3 DEF AtMostOne
<1>6. \A j \in Joins \cap S : Waits(S, j)' => active' \cap S = {}
  BY <1>3, <1>4 DEF AtMostOne
<1>7. \A j, h \in Joins \cap S : Waits(S, j)' /\ Waits(S, h)' => j = h
  BY <1>4 DEF AtMostOne
<1>8. QED
  BY <1>1, <1>5, <1>6, <1>7 DEF OnePlace, AtMostOne

(* From outside only a join that the strand already waits at is started.     *)
LEMMA OutsideStarts ==
  ASSUME TypeOK, FedByFeeders, NEW S \in SUBSET Ids(Def), NEW n \in Ids(Def), n \notin S, NEW o,
         \A i \in Entering(Def, S, n, o) : Gathers(Def, S, Target(i)), NEW i \in Starting(n, o), Target(i) \in S
  PROVE  Target(i) \in Joins \cap S /\ Waits(S, Target(i)) /\ Target(i) \in Reached(n, o) /\ Fires(Target(i), n)
<1>1. Gathers(Def, S, Target(i))
  BY EnteringFacts
<1>2. Target(i) \in Joins
  BY <1>1 DEF Gathers, Joins, OfKind
<1>3. Target(i) \in Reached(n, o) /\ Fires(Target(i), n)
  BY <1>2, EnteringFacts
<1>4. QED
  BY <1>1, <1>2, <1>3, FiredFromOutside

LEMMA OutsideKeeps ==
  ASSUME TypeOK, FedByFeeders, NEW S \in SUBSET Ids(Def), NEW n \in active, n \notin S, NEW o,
         Advance(n, o), \A i \in Entering(Def, S, n, o) : Gathers(Def, S, Target(i)), OnePlace(S)
  PROVE  OnePlace(S)'
<1>1. n \in Ids(Def) /\ Joins' = Joins
  BY PlanKept DEF TypeOK, Advance
<1>2. ASSUME NEW j \in Joins \cap S, Waits(S, j)'
      PROVE  Waits(S, j) /\ ~(j \in Reached(n, o) /\ Fires(j, n))
  <2>1. CASE j \notin Reached(n, o)
    BY <1>1, <1>2, <2>1, AdvanceFeeds DEF Waits
  <2>2. CASE j \in Reached(n, o)
    <3>1. arrivals'[j] = Arrived(j, n) /\ j \notin fired' /\ arrivals'[j] \cap S # {}
            /\ ~(j \in fired /\ Late(j, n)) /\ ~Fires(j, n)
      BY <1>1, <1>2, <2>2, AdvanceFeeds DEF Waits
    <3>2. ~(j \in fired /\ n \in arrivals[j])
      BY <3>1 DEF Arrived
    <3>3. j \notin fired
      BY <3>1, <3>2 DEF Late
    <3>4. QED
      BY <3>1, <3>3 DEF Arrived, Waits
  <2>3. QED
    BY <2>1, <2>2
<1>3. ASSUME NEW x \in active' \cap S
      PROVE  x \in active \/ (x \in Joins /\ Waits(S, x) /\ x \in Reached(n, o) /\ Fires(x, n))
  <2>1. active' = (active \ {n}) \cup {Target(i) : i \in Starting(n, o)} \/ active' = {}
    BY <1>1, AdvanceStarts
  <2>2. QED
    BY <1>1, <1>3, <2>1, OutsideStarts
<1>4. AtMostOne(active \cap S)'
  BY <1>3 DEF OnePlace, AtMostOne
<1>5. \A j \in Joins \cap S : Waits(S, j)' => active' \cap S = {}
  BY <1>2, <1>3 DEF OnePlace, AtMostOne
<1>6. \A j, h \in Joins \cap S : Waits(S, j)' /\ Waits(S, h)' => j = h
  BY <1>2 DEF OnePlace, AtMostOne
<1>7. QED
  BY <1>1, <1>4, <1>5, <1>6 DEF OnePlace, AtMostOne

LEMMA AdvanceStrands ==
  ASSUME TypeOK, StrandInv, NEW n \in active, NEW o \in Heard(Def, n), Advance(n, o)
  PROVE  StrandInv'
<1>1. n \in Ids(Def) /\ plan' = plan
  BY DEF TypeOK, Advance
<1>2. Def' = Def /\ Ids(Def)' = Ids(Def)
  BY <1>1, PlanKept
<1>3. FedByFeeders' /\ Untouched'
  BY <1>1, AdvanceFeeds, AdvanceStarted DEF StrandInv, Untouched
<1>4. ASSUME NEW S \in SUBSET Ids(Def), Strand(Def, S)
      PROVE  OnePlace(S)'
  <2>1. FedByFeeders /\ OnePlace(S)
    BY <1>4 DEF StrandInv
  <2>2. IF n \in S THEN AtMostOne(Entering(Def, S, n, o))
          ELSE \A i \in Entering(Def, S, n, o) : Gathers(Def, S, Target(i))
    BY <1>1, <1>4 DEF Strand, Target
  <2>3. CASE n \in S
    BY <2>1, <2>2, <2>3, InsideKeeps
  <2>4. CASE n \notin S
    BY <2>1, <2>2, <2>4, OutsideKeeps
  <2>5. QED
    BY <2>3, <2>4
<1>5. QED
  BY <1>2, <1>3, <1>4 DEF StrandInv

(* A run begins at one node of a strand, and no join has heard of it.        *)
LEMMA FirstPlace ==
  ASSUME TypeOK, StrandInv, status = "none", plan' = plan, arrivals' = arrivals, status' # "none",
         \A S \in SUBSET Ids(Def) : Strand(Def, S) => AtMostOne(active' \cap S)
  PROVE  StrandInv'
<1>1. Def' = Def /\ Ids(Def)' = Ids(Def) /\ Joins' = Joins
  BY PlanKept
<1>2. \A j \in Joins : arrivals'[j] = {}
  BY DEF StrandInv, Untouched
<1>3. FedByFeeders' /\ Untouched'
  BY <1>1, <1>2 DEF FedByFeeders, Untouched
<1>4. \A S \in SUBSET Ids(Def) : Strand(Def, S) => OnePlace(S)'
  <2>1. \A S \in SUBSET Ids(Def) : \A j \in Joins \cap S : ~Waits(S, j)'
    BY <1>2 DEF Waits
  <2>2. QED
    BY <1>1, <2>1 DEF OnePlace, AtMostOne
<1>5. QED
  BY <1>1, <1>3, <1>4 DEF StrandInv

LEMMA StartStrands == ASSUME TypeOK, StrandInv, Start PROVE StrandInv'
<1>1. /\ plan' = plan /\ arrivals' = arrivals /\ status = "none"
      /\ Dispatch({}, Def.entry, DOMAIN Def.entry)
  BY DEF Start
<1>2. DOMAIN Def.entry \in SUBSET Int
  BY EntryFacts DEF TypeOK
<1>3. /\ active' \subseteq {Def.entry[i] : i \in DOMAIN Def.entry}
      /\ status' # "none"
  <2>1. PICK released \in SUBSET DOMAIN Def.entry :
          \/ active' = {} \cup {Def.entry[i] : i \in released} /\ status' \in Live
          \/ active' = {} /\ status' = "budget-exhausted"
    BY <1>1, <1>2, DispatchBooks
  <2>2. QED
    BY <2>1 DEF Live
<1>4. \A S \in SUBSET Ids(Def) : Strand(Def, S) => AtMostOne(active' \cap S)
  BY <1>3 DEF Strand, AtMostOne
<1>5. QED
  BY <1>1, <1>3, <1>4, FirstPlace

LEMMA StrandStep == ASSUME TypeOK, StrandInv, [Next]_vars PROVE StrandInv'
<1>1. CASE Start
  BY <1>1, StartStrands
<1>2. CASE \E n \in plan.adoptable : \E k \in 1..Limits.maxVisitsPerNode : Adopt(n, k)
  <2>1. \E n : /\ plan' = plan /\ arrivals' = arrivals /\ status = "none"
               /\ status' # "none" /\ active' = {n}
    BY <1>2 DEF Adopt
  <2>2. \A S \in SUBSET Ids(Def) : AtMostOne(active' \cap S)
    BY <2>1 DEF AtMostOne
  <2>3. QED
    BY <2>1, <2>2, FirstPlace
<1>3. CASE \E n \in Ids(Def) : Step(n)
  BY <1>3, StepHears, AdvanceStrands
<1>4. CASE Sweep \/ Tick \/ Expire \/ UNCHANGED vars
  <2>1. /\ plan' = plan /\ arrivals' = arrivals /\ fired' = fired
        /\ active' \subseteq active /\ (status' = "none" => status = "none")
    BY <1>4 DEF Sweep, SweepFinds, Tick, Expire, Terminate, vars
  <2>2. Def' = Def /\ Ids(Def)' = Ids(Def) /\ Joins' = Joins
    BY <2>1, PlanKept
  <2>3. FedByFeeders' /\ Untouched'
    BY <2>1, <2>2 DEF StrandInv, FedByFeeders, Untouched
  <2>4. \A S : OnePlace(S) => OnePlace(S)'
    BY <2>1, <2>2 DEF OnePlace, AtMostOne, Waits
  <2>5. QED
    BY <2>2, <2>3, <2>4 DEF StrandInv
<1>5. QED
  BY <1>1, <1>2, <1>3, <1>4 DEF Next

LEMMA RunOnStrands == Spec => []StrandInv
<1>1. Init => StrandInv
  BY DEF Init, StrandInv, FedByFeeders, Untouched, OnePlace, Waits, AtMostOne
<1>2. TypeOK /\ StrandInv /\ [Next]_vars => StrandInv'
  BY StrandStep
<1>3. QED
  BY <1>1, <1>2, RunTypeCorrect, PTL DEF Spec

LEMMA PlacesApart ==
  ASSUME StrandInv, NEW m \in active, NEW n \in active, Apart(Def, m, n)
  PROVE  m = n
BY DEF StrandInv, OnePlace, Apart, Strands, AtMostOne

StrandsAreSerial == \A m, n \in active : m # n => ~Apart(Def, m, n)

(* Two nodes of one strand are never active together: over fan-outs, loops   *)
(* and the rounds of a join, whatever order the branches report in, a run is *)
(* at one place of each strand of its graph, for every definition            *)
(* (qaap-workflow-run.ts:165-258, 300-329).                                  *)
THEOREM StrandsSerial == Spec => []StrandsAreSerial
<1>1. StrandInv => StrandsAreSerial
  BY PlacesApart DEF StrandsAreSerial
<1>2. QED
  BY <1>1, RunOnStrands, PTL

(* A report starts no other active node again if every node is on a strand.  *)
LEMMA AdvanceOnce ==
  ASSUME TypeOK, StrandInv, OnStrands(Def), NEW n \in active, NEW o \in Heard(Def, n), Advance(n, o),
         NEW m \in active, m # n
  PROVE  visits'[m] = visits[m]
<1>1. m \in Ids(Def) /\ n \in Ids(Def)
  BY DEF TypeOK
<1>2. PICK S \in SUBSET Ids(Def) : Strand(Def, S) /\ m \in S
  BY <1>1 DEF OnStrands, Apart, Strands
<1>3. OnePlace(S) /\ FedByFeeders
  BY <1>2 DEF StrandInv
<1>4. n \notin S
  BY <1>2, <1>3 DEF OnePlace, AtMostOne
<1>5. \A i \in Entering(Def, S, n, o) : Gathers(Def, S, Target(i))
  BY <1>1, <1>2, <1>4 DEF Strand, Target
<1>6. ~\E i \in Starting(n, o) : Target(i) = m
  BY <1>1, <1>2, <1>3, <1>4, <1>5, OutsideStarts DEF OnePlace
<1>7. visits[m] \in Nat /\ visits'[m] \in Nat /\ visits'[m] >= visits[m] /\ ~(visits'[m] > visits[m])
  BY <1>1, <1>6, AdvanceStarts DEF TypeOK
<1>8. QED
  BY <1>7

(* When every node of a graph is on a strand, a node is dispatched again     *)
(* only by its own report, and the others stay where they are, for every     *)
(* such definition and any budget (qaap-workflow-run.ts:282-297).            *)
THEOREM DispatchedOnce ==
  ASSUME \A p \in Plan : OnStrands(p.def)
  PROVE  Spec => NoDoubleDispatch
<1>1. ASSUME TypeOK, StrandInv, [Next]_vars,
             NEW n \in active \cap active', visits'[n] > visits[n], NEW m \in active \ {n}
      PROVE  m \in active' /\ visits'[m] = visits[m]
  <2>1. visits[n] \in Nat /\ n \in Ids(Def) /\ m \in Ids(Def) /\ OnStrands(Def)
    BY <1>1 DEF TypeOK, Def
  <2>2. status # "none" /\ ~(visits' = visits)
    BY <2>1, <1>1 DEF StrandInv, Untouched
  <2>3. \E k \in Ids(Def) : Step(k)
    BY <1>1, <2>2 DEF Next, Start, Adopt, Sweep, SweepFinds, Expire, Tick, vars
  <2>4. PICK k \in active : \E o \in Heard(Def, k) : Advance(k, o)
    BY <2>3, StepHears
  <2>5. PICK o \in Heard(Def, k) : Advance(k, o)
    BY <2>4
  <2>6. \A h \in active : h # k => visits'[h] = visits[h]
    BY <1>1, <2>1, <2>5, AdvanceOnce
  <2>7. n = k
    BY <1>1, <2>1, <2>6
  <2>8. active' = (active \ {k}) \cup {Target(i) : i \in Starting(k, o)}
    BY <1>1, <2>1, <2>5, <2>7, AdvanceStarts
  <2>9. QED
    BY <2>6, <2>7, <2>8
<1>2. TypeOK /\ StrandInv /\ [Next]_vars =>
        [\A n \in active \cap active' : visits'[n] > visits[n] =>
           \A m \in active \ {n} : m \in active' /\ visits'[m] = visits[m]]_vars
  BY <1>1
<1>3. QED
  BY <1>2, RunTypeCorrect, RunOnStrands, PTL DEF Spec, NoDoubleDispatch

-----------------------------------------------------------------------------
(* Where a step takes a run                                                  *)

LEMMA ReportMoves ==
  ASSUME TypeOK, NEW n \in Ids(Def), NEW o, Advance(n, o)
  PROVE  /\ plan' = plan /\ Def' = Def
         /\ bindings' = bindings \cup Emits(Def, n, o)
         /\ active' \subseteq (active \ {n}) \cup Starts(Def, n, o)
         /\ \A m \in Ids(Def) :
              /\ visits[m] \in Nat /\ visits'[m] \in Nat /\ visits'[m] >= visits[m]
              /\ visits'[m] > visits[m] => m \in Starts(Def, n, o) /\ (m \in active' \/ active' = {})
<1>1. plan' = plan /\ Def' = Def
  BY PlanKept DEF Advance
<1>2. bindings' = bindings \cup Emits(Def, n, o)
  BY DEF Advance, Emits, Emitting, Kind, Target
<1>3. \A i \in Starting(n, o) : Target(i) \in Starts(Def, n, o)
  BY DEF Starting, Starts, Emitting, Kind, Target
<1>4. active' \subseteq (active \ {n}) \cup Starts(Def, n, o)
  BY <1>3, AdvanceStarts
<1>5. \A m \in Ids(Def) : visits'[m] > visits[m] =>
        m \in Starts(Def, n, o) /\ (m \in active' \/ active' = {})
  BY <1>3, AdvanceStarts
<1>6. \A m \in Ids(Def) : visits[m] \in Nat /\ visits'[m] \in Nat /\ visits'[m] >= visits[m]
  BY AdvanceStarts DEF TypeOK
<1>7. QED
  BY <1>1, <1>2, <1>4, <1>5, <1>6

(* A run that begins does so in the entry, or in the node it is adopted on.  *)
BeginsIn(B) ==
  /\ status = "none" /\ (B = EntryNodes(Def) \/ \E n \in plan.adoptable : B = {n})
  /\ \/ active' = B /\ status' \in Live /\ reason' = "none"
     \/ active' = {} /\ status' = "budget-exhausted" /\ reason' \in {"max-visits", "max-node-runs"}
  /\ \A m \in Ids(Def) : visits'[m] > visits[m] => m \in B

LEMMA DispatchMoves ==
  ASSUME TypeOK, NEW kept, NEW node, NEW ready \in SUBSET Int, Dispatch(kept, node, ready)
  PROVE  /\ \/ active' = kept \cup {node[i] : i \in ready} /\ status' \in Live /\ reason' = "none"
            \/ active' = {} /\ status' = "budget-exhausted" /\ reason' \in {"max-visits", "max-node-runs"}
         /\ \A m \in Ids(Def) : visits'[m] > visits[m] => m \in {node[i] : i \in ready}
<1>1. PICK released \in SUBSET ready :
        /\ \A i \in released : /\ Room(ready, i) /\ Fresh(node, ready, i)
                               /\ Before(ready, i) = {h \in released : h < i}
        /\ visits' = [n \in Ids(Def) |-> visits[n] + Cardinality({i \in released : node[i] = n})]
        /\ nodeRuns' = nodeRuns + Cardinality(released)
        /\ \/ /\ released = ready
              /\ active' = kept \cup {node[i] : i \in released}
              /\ status' \in Live
              /\ reason' = "none"
           \/ /\ active' = {}
              /\ status' = "budget-exhausted"
              /\ reason' \in {"max-visits", "max-node-runs"}
  BY DispatchBooks
<1>2. ASSUME NEW m \in Ids(Def), visits'[m] > visits[m] PROVE m \in {node[i] : i \in ready}
  <2>1. visits'[m] = visits[m] + Cardinality({i \in released : node[i] = m}) /\ visits[m] \in Nat
    BY <1>1 DEF TypeOK
  <2>2. {i \in released : node[i] = m} # {}
    BY <1>2, <2>1, FS_EmptySet
  <2>3. QED
    BY <1>1, <2>2
<1>3. QED
  BY <1>1, <1>2

LEMMA StartMoves == ASSUME TypeOK, Start PROVE BeginsIn(EntryNodes(Def))
<1>1. DOMAIN Def.entry \in SUBSET Int /\ status = "none" /\ Dispatch({}, Def.entry, DOMAIN Def.entry)
  BY EntryFacts DEF Start, TypeOK
<1>2. EntryNodes(Def) = {Def.entry[i] : i \in DOMAIN Def.entry}
  BY DEF EntryNodes
<1>3. QED
  BY <1>1, <1>2, DispatchMoves DEF BeginsIn

LEMMA AloneThen ==
  ASSUME StrandInv, NEW C \in SUBSET Strands(Def), NEW n \in active, Alone(Def, C, n), active \subseteq Ids(Def)
  PROVE  active = {n}
<1>1. \A m \in active : Apart(Def, n, m)
  BY DEF Alone, Apart
<1>2. QED
  BY <1>1, PlacesApart

(* A report that starts nothing settles the run; one that starts something   *)
(* goes on, unless the budget is spent.                                      *)
LEMMA ReportSettles ==
  ASSUME TypeOK, NEW n \in active, NEW o, Advance(n, o)
  PROVE  /\ Starting(n, o) = {} /\ active = {n} =>
              /\ active' = {}
              /\ IF PendingJoin(arrivals', fired')
                   THEN status' = "failed" /\ reason' = "stalled"
                   ELSE /\ status' = IF o \in Failing THEN "failed" ELSE "succeeded"
                        /\ reason' = IF Matched(Def, n, o) = {} THEN "no-edge" ELSE "emit"
         /\ ~(Starting(n, o) = {} /\ active = {n}) =>
              \/ /\ status' \in Live /\ active' = (active \ {n}) \cup {Target(i) : i \in Starting(n, o)}
                 /\ reason' = reason \/ reason' = "none"
              \/ status' = "budget-exhausted" /\ active' = {} /\ reason' \in {"max-visits", "max-node-runs"}
         /\ status' = "awaiting-human" => \E g \in active' : Kind(g) = "human-gate"
<1> DEFINE ready == Starting(n, o)
           node == [i \in DOMAIN Def.edges |-> Target(i)]
           kept == active \ {n}
<1>1. ready \in SUBSET DOMAIN Def.edges /\ ready \in SUBSET Int /\ \A i \in ready : node[i] = Target(i)
  <2>1. DOMAIN Def.edges \in SUBSET Int
    BY EdgeFacts DEF TypeOK
  <2>2. ready \in SUBSET DOMAIN Def.edges
    BY MatchedEdges DEF Starting
  <2> HIDE DEF ready
  <2>3. QED
    BY <2>1, <2>2
<1>2. IF ready = {} THEN Settle(kept, o, Matched(Def, n, o)) ELSE Dispatch(kept, node, ready)
  <2>1. ready = {i \in Matched(Def, n, o) \ {i \in Matched(Def, n, o) : Kind(Target(i)) = "emit"} :
                   Target(i) \in Joins => Fires(Target(i), n)}
    BY DEF Starting
  <2>2. QED
    BY <2>1 DEF Advance
<1>3. kept = {} <=> active = {n}
  OBVIOUS
<1>4. CASE ready = {}
  <2>1. Settle(kept, o, Matched(Def, n, o)) /\ (active \ {n}) \cup {Target(i) : i \in ready} = kept
    BY <1>2, <1>4
  <2> HIDE DEF ready, kept
  <2>2. QED
    BY <1>3, <1>4, <2>1 DEF Settle, Terminate, Live, kept, ready
<1>5. CASE ready # {}
  <2>1. Dispatch(kept, node, ready)
    BY <1>2, <1>5
  <2> HIDE DEF ready, kept, node
  <2>2. PICK released \in SUBSET ready :
          /\ \A i \in released : /\ Room(ready, i) /\ Fresh(node, ready, i)
                                 /\ Before(ready, i) = {h \in released : h < i}
          /\ visits' = [m \in Ids(Def) |-> visits[m] + Cardinality({i \in released : node[i] = m})]
          /\ nodeRuns' = nodeRuns + Cardinality(released)
          /\ \/ /\ released = ready
                /\ active' = kept \cup {node[i] : i \in released}
                /\ status' \in Live
                /\ reason' = "none"
             \/ /\ active' = {}
                /\ status' = "budget-exhausted"
                /\ reason' \in {"max-visits", "max-node-runs"}
    BY <1>1, <2>1, DispatchBooks
  <2>3. {node[i] : i \in ready} = {Target(i) : i \in ready}
    BY <1>1
  <2>4. status' = "awaiting-human" => \E g \in active' : Kind(g) = "human-gate"
    BY <2>1 DEF Dispatch, Terminate
  <2>5. QED
    BY <1>5, <2>2, <2>3, <2>4 DEF kept, ready
<1>6. QED
  BY <1>4, <1>5

(* While a person is asked, a gate is active.                                *)
GateInv == status = "awaiting-human" => \E g \in active : Kind(g) = "human-gate"

LEMMA GateStep == ASSUME TypeOK, GateInv, [Next]_vars PROVE GateInv'
<1>1. CASE Start
  <2>1. Dispatch({}, Def.entry, DOMAIN Def.entry) /\ plan' = plan
    BY <1>1 DEF Start
  <2>2. QED
    BY <2>1, PlanKept DEF Dispatch, Terminate, GateInv, Kind
<1>2. CASE \E n \in plan.adoptable : \E k \in 1..Limits.maxVisitsPerNode : Adopt(n, k)
  BY <1>2 DEF Adopt, GateInv
<1>3. CASE \E n \in Ids(Def) : Step(n)
  <2>1. PICK n \in active : \E o : Advance(n, o)
    BY <1>3, StepHears
  <2>2. PICK o : Advance(n, o)
    BY <2>1
  <2>3. Def' = Def
    BY <2>2, PlanKept DEF Advance
  <2>4. QED
    BY <2>2, <2>3, ReportSettles DEF GateInv, Kind
<1>4. CASE Sweep \/ Tick \/ Expire \/ UNCHANGED vars
  <2>1. Def' = Def
    BY <1>4, PlanKept DEF Sweep, SweepFinds, Tick, Expire, vars
  <2>2. status' = "awaiting-human" => status = "awaiting-human" /\ active' = active
    BY <1>4 DEF Sweep, SweepFinds, Tick, Expire, Terminate, vars
  <2>3. QED
    BY <2>1, <2>2 DEF GateInv, Kind
<1>5. QED
  BY <1>1, <1>2, <1>3, <1>4 DEF Next

LEMMA GatesAreAsked == Spec => []GateInv
<1>1. Init => GateInv
  BY DEF Init, GateInv
<1>2. TypeOK /\ GateInv /\ [Next]_vars => GateInv'
  BY GateStep
<1>3. QED
  BY <1>1, <1>2, RunTypeCorrect, PTL DEF Spec
=============================================================================
