------------------------- MODULE WorkflowAuditProofs -------------------------
(* What a run may conclude, and from what, for every workflow of a shape     *)
(* that the product's templates have (TemplateShapes), with any budget.      *)
EXTENDS WorkflowAudit, WorkflowRunProofs

-----------------------------------------------------------------------------
(* The history watches a run and never guides it                             *)

LEMMA AuditHears ==
  ASSUME NEW n, AuditStep(n)
  PROVE  /\ Step(n) /\ n \in active /\ status \in Live
         /\ \E o \in Heard(Def, n) : Advance(n, o) /\ Note(n, o)
<1>1. CASE \E o \in Outcomes(Def.node[n]) : Report(n, o) /\ Note(n, o)
  BY <1>1 DEF Report, Heard, Step
<1>2. CASE SettleJoin(n) /\ Note(n, "success")
  <2>1. Def.node[n].kind = "join" /\ Advance(n, "success") /\ n \in active /\ status \in Live
    BY <1>2 DEF SettleJoin, Kind
  <2>2. "success" \in Outcomes(Def.node[n])
    BY <2>1 DEF Outcomes
  <2>3. QED
    BY <1>2, <2>1, <2>2 DEF Heard, Step
<1>3. CASE Continue(n) /\ Note(n, "human:continue")
  BY <1>3 DEF Continue, Heard, Live, Step
<1>4. QED
  BY <1>1, <1>2, <1>3 DEF AuditStep

(* The other steps leave the history and what was bound and counted alone.   *)
Quiet ==
  \/ Start
  \/ \E n \in plan.adoptable, k \in 1..Limits.maxVisitsPerNode : Adopt(n, k)
  \/ Sweep \/ Expire \/ Tick \/ UNCHANGED vars

LEMMA AuditSteps ==
  ASSUME [AuditNext]_<<vars, history>>
  PROVE  /\ (Quiet /\ UNCHANGED history) \/ \E n \in Ids(Def) : AuditStep(n)
         /\ [Next]_vars
<1>1. (Quiet /\ UNCHANGED history) \/ \E n \in Ids(Def) : AuditStep(n)
  BY DEF AuditNext, Quiet
<1>2. Quiet => [Next]_vars
  BY DEF Quiet, Next
<1>3. (\E n \in Ids(Def) : AuditStep(n)) => Next
  BY AuditHears DEF Next
<1>4. QED
  BY <1>1, <1>2, <1>3

LEMMA AuditIsRun == AuditSpec => Spec
<1>1. AuditInit => Init
  BY DEF AuditInit
<1>2. [AuditNext]_<<vars, history>> => [Next]_vars
  BY AuditSteps
<1>3. QED
  BY <1>1, <1>2, PTL DEF AuditSpec, Spec

(* At most one turn that may edit the working tree is active, in every run   *)
(* of a definition whose writers are on one strand, over its fan-outs, loops *)
(* and restarts (qaap-workflow-ir.ts:340-345).                               *)
THEOREM WritersAlternate ==
  ASSUME \A p \in Plan : WritersApart(p.def)
  PROVE  AuditSpec => []SingleWriter
<1>1. ASSUME TypeOK, StrandInv PROVE SingleWriter
  <2>1. PICK S \in Strands(Def) : CwdWriters(Def) \subseteq S
    BY <1>1 DEF TypeOK, Def, WritersApart
  <2>2. \A m, n \in active \cap CwdWriters(Def) : Apart(Def, m, n)
    BY <2>1 DEF Apart
  <2>3. QED
    BY <1>1, <2>2, PlacesApart DEF SingleWriter
<1>2. QED
  BY <1>1, AuditIsRun, RunTypeCorrect, RunOnStrands, PTL

-----------------------------------------------------------------------------
(* The steps that report nothing                                             *)

(* A run that was not started has no history.                                *)
Unbegun ==
  status = "none" =>
    /\ active = {} /\ bindings = {} /\ since = {} /\ ever = {}
    /\ \A n \in Ids(Def) : visits[n] = 0
    /\ \A j \in Joins : arrivals[j] = {}

LEMMA QuietMoves ==
  ASSUME TypeOK, Quiet
  PROVE  /\ plan' = plan /\ Def' = Def /\ bindings' = bindings /\ arrivals' = arrivals /\ fired' = fired
         /\ \/ active' = active /\ visits' = visits /\ status' = status /\ reason' = reason
            \/ /\ status \in Live /\ active' = {} /\ visits' = visits
               /\ status' = "budget-exhausted" /\ reason' = "run-timeout"
            \/ \E B : BeginsIn(B)
<1>1. plan' = plan /\ Def' = Def /\ bindings' = bindings /\ arrivals' = arrivals /\ fired' = fired
  BY PlanKept DEF Quiet, Start, Adopt, Sweep, SweepFinds, Expire, Tick, vars
<1>2. CASE Start
  BY <1>1, <1>2, StartMoves
<1>3. CASE \E n \in plan.adoptable, k \in 1..Limits.maxVisitsPerNode : Adopt(n, k)
  <2>1. PICK n \in plan.adoptable : \E k : Adopt(n, k)
    BY <1>3
  <2>2. reason = "none"
    BY <2>1 DEF Adopt, TypeOK, Ended
  <2>3. BeginsIn({n})
    BY <2>1, <2>2 DEF Adopt, BeginsIn, TypeOK, Live
  <2>4. QED
    BY <1>1, <2>3
<1>4. CASE Sweep \/ Expire \/ Tick \/ UNCHANGED vars
  BY <1>1, <1>4 DEF Sweep, SweepFinds, Expire, Tick, Terminate, vars
<1>5. QED
  BY <1>2, <1>3, <1>4 DEF Quiet

LEMMA UnbegunStep ==
  ASSUME TypeOK, Unbegun, [AuditNext]_<<vars, history>>
  PROVE  Unbegun'
<1>1. CASE Quiet /\ UNCHANGED history
  <2>1. Ids(Def)' = Ids(Def) /\ Joins' = Joins
    BY <1>1, QuietMoves, PlanKept
  <2>2. QED
    BY <1>1, <2>1, QuietMoves DEF Unbegun, BeginsIn, Live, history
<1>2. CASE \E n \in Ids(Def) : AuditStep(n)
  BY <1>2, AuditHears, AdvanceStarted DEF Unbegun
<1>3. QED
  BY <1>1, <1>2, AuditSteps

LEMMA UnbegunFirst == ASSUME AuditInit PROVE Unbegun
BY DEF AuditInit, Init, Unbegun

LEMMA NothingBeforeTheStart == AuditSpec => []Unbegun
<1>1. AuditInit => Unbegun
  BY UnbegunFirst
<1>2. TypeOK /\ Unbegun /\ [AuditNext]_<<vars, history>> => Unbegun'
  BY UnbegunStep
<1>3. QED
  BY <1>1, <1>2, AuditIsRun, RunTypeCorrect, PTL DEF AuditSpec

-----------------------------------------------------------------------------
(* Plans are approved                                                        *)

(* Before an approval a run is and was only where nothing is written.        *)
WithinPlan(S) ==
  ever \cap Approvals = {} => active \subseteq S /\ \A m \in Ids(Def) : visits[m] > 0 => m \in S

LEMMA PlanStep ==
  ASSUME TypeOK, Unbegun, NEW S, PlansAreApproved(plan, S), WithinPlan(S), [AuditNext]_<<vars, history>>
  PROVE  WithinPlan(S)'
<1>0. /\ Beginning(plan) \subseteq S /\ StaysUntil(Def, S, Approvals)
      /\ \A a \in Approvals : a[1] \in Ids(Def) => a[1] \in Deciders(Def)
  BY DEF PlansAreApproved, Def
<1> SUFFICES ASSUME ever' \cap Approvals = {}
             PROVE  active' \subseteq S /\ \A m \in Ids(Def) : visits'[m] > 0 => m \in S
  BY PlanKept, AuditSteps, QuietMoves, ReportMoves, AuditHears DEF WithinPlan
<1>1. CASE Quiet /\ UNCHANGED history
  <2>1. CASE (active' = active \/ active' = {}) /\ visits' = visits
    BY <1>1, <2>1 DEF WithinPlan, history
  <2>2. CASE \E B : BeginsIn(B)
    <3>1. PICK B : BeginsIn(B)
      BY <2>2
    <3>2. B \subseteq S
      BY <1>0, <3>1 DEF BeginsIn, Beginning, Def
    <3>3. \A m \in Ids(Def) : visits[m] = 0
      BY <3>1 DEF BeginsIn, Unbegun
    <3>4. QED
      BY <3>1, <3>2, <3>3 DEF BeginsIn
  <2>3. QED
    BY <1>1, <2>1, <2>2, QuietMoves
<1>2. CASE \E n \in Ids(Def) : AuditStep(n)
  <2>1. PICK n \in Ids(Def) : AuditStep(n)
    BY <1>2
  <2>2. PICK o \in Heard(Def, n) : n \in active /\ Advance(n, o) /\ Note(n, o)
    BY <2>1, AuditHears
  <2>3. ever \subseteq ever' /\ (n \in Deciders(Def) => <<n, o>> \in ever')
    BY <2>2 DEF Note
  <2>4. <<n, o>> \notin Approvals
    BY <1>0, <2>3
  <2>5. active \subseteq S /\ \A m \in Ids(Def) : visits[m] > 0 => m \in S
    BY <2>3 DEF WithinPlan
  <2>6. Starts(Def, n, o) \subseteq S
    BY <1>0, <2>2, <2>4, <2>5 DEF StaysUntil
  <2>7. QED
    BY <2>2, <2>5, <2>6, ReportMoves
<1>3. QED
  BY <1>1, <1>2, AuditSteps

PlanInv ==
  "plan" \in Ids(Def) => \E S \in SUBSET Ids(Def) : PlansAreApproved(plan, S) /\ WithinPlan(S)

LEMMA PlanInvStep ==
  ASSUME TypeOK, Unbegun, PlanInv, [AuditNext]_<<vars, history>>
  PROVE  PlanInv'
<1>1. plan' = plan /\ Ids(Def)' = Ids(Def)
  BY AuditSteps, QuietMoves, ReportMoves, AuditHears, PlanKept
<1>2. ASSUME NEW S \in SUBSET Ids(Def), PlansAreApproved(plan, S), WithinPlan(S)
      PROVE  PlansAreApproved(plan', S) /\ WithinPlan(S)'
  BY <1>1, <1>2, PlanStep
<1>3. QED
  BY <1>1, <1>2 DEF PlanInv

(* In a run with a plan nothing is written before the plan was approved,     *)
(* however often it is planned again, for every workflow in which only an    *)
(* approval leads to a writer (qaap-workflow-ir.ts:583-590, 634-635,         *)
(* 660-663).                                                                 *)
THEOREM PlansApprovedFirst ==
  ASSUME \A p \in Plan : "plan" \in Ids(p.def) => \E S \in SUBSET Ids(p.def) : PlansAreApproved(p, S)
  PROVE  AuditSpec => []NothingWrittenUnapproved
<1>1. AuditInit => PlanInv
  <2> SUFFICES ASSUME AuditInit, "plan" \in Ids(Def)
               PROVE  \E S \in SUBSET Ids(Def) : PlansAreApproved(plan, S) /\ WithinPlan(S)
    BY DEF PlanInv
  <2>1. plan \in Plan /\ active = {} /\ \A m \in Ids(Def) : visits[m] = 0
    BY DEF AuditInit, Init
  <2>2. \A S : WithinPlan(S)
    BY <2>1 DEF WithinPlan
  <2>3. QED
    BY <2>1, <2>2 DEF Def
<1>2. TypeOK /\ Unbegun /\ PlanInv /\ [AuditNext]_<<vars, history>> => PlanInv'
  BY PlanInvStep
<1>3. PlanInv => NothingWrittenUnapproved
  <2> SUFFICES ASSUME PlanInv, NEW n \in CwdWriters(Def), "plan" \in Ids(Def), visits[n] > 0
               PROVE  ever \cap Approvals # {}
    BY DEF NothingWrittenUnapproved
  <2>1. PICK S \in SUBSET Ids(Def) : PlansAreApproved(plan, S) /\ WithinPlan(S)
    BY DEF PlanInv
  <2>2. n \notin S /\ n \in Ids(Def)
    BY <2>1 DEF PlansAreApproved, Def, CwdWriters, OfKind
  <2>3. QED
    BY <2>1, <2>2 DEF WithinPlan
<1>4. QED
  BY <1>1, <1>2, <1>3, AuditIsRun, RunTypeCorrect, NothingBeforeTheStart, PTL DEF AuditSpec

-----------------------------------------------------------------------------
(* Decisions outlive what led to them                                        *)

(* Nothing is decided between two authors that does not last, and an author  *)
(* works alone: as long as the decision is not taken a run stays in S.       *)
Undecided(decision, S) == decision \notin since => active \subseteq S

LEMMA AuthorAlone ==
  ASSUME TypeOK, StrandInv, NEW C \in SUBSET Strands(Def), \A a \in Authors(Def) : Alone(Def, C, a),
         status \in Live, NEW n \in active, NEW o \in Heard(Def, n), Advance(n, o),
         NEW a \in Authors(Def), visits'[a] > visits[a]
  PROVE  active' \subseteq {a}
<1>0. TypeOK'
  BY AdvanceType DEF TypeOK
<1>1. n \in Ids(Def) /\ a \in Ids(Def)
  BY DEF TypeOK, Authors, CwdWriters, Capable, OfKind
<1>2. a \in active' \/ active' = {}
  BY <1>1, ReportMoves
<1>3. StrandInv' /\ Def' = Def /\ Ids(Def)' = Ids(Def) /\ active' \subseteq Ids(Def)
  BY <1>1, <1>0, AdvanceStrands, ReportMoves, PlanKept DEF TypeOK
<1>4. \A S \in Strands(Def) : AtMostOne(active' \cap S)
  BY <1>3 DEF StrandInv, OnePlace, Strands
<1>5. \A m \in active' : \E S \in Strands(Def) : {a, m} \subseteq S
  BY <1>3 DEF Alone
<1>6. QED
  BY <1>2, <1>4, <1>5 DEF AtMostOne

(* What a report adds to the history.                                        *)
LEMMA ReportNotes ==
  ASSUME NEW n, NEW o, Note(n, o)
  PROVE  /\ ever \subseteq ever' /\ ever' \subseteq ever \cup {<<n, o>>}
         /\ n \in Deciders(Def) => <<n, o>> \in ever'
         /\ IF \E a \in Authors(Def) : visits'[a] > visits[a] THEN since' = {}
              ELSE since \subseteq since' /\ (n \in Deciders(Def) => <<n, o>> \in since')
BY DEF Note, Started

LEMMA ReportDecides ==
  ASSUME TypeOK, StrandInv, NEW C \in SUBSET Strands(Def), NEW d, NEW S,
         DecidedOutside(plan, C, d, S), Undecided(d, S), status \in Live,
         NEW n \in active, NEW o \in Heard(Def, n), Advance(n, o), Note(n, o)
  PROVE  Undecided(d, S)'
<1>0. /\ Authors(Def) \subseteq S /\ StaysUntil(Def, S, {d}) /\ d[1] \in Deciders(Def)
      /\ \A a \in Authors(Def) : Alone(Def, C, a)
  BY DEF DecidedOutside, Def
<1>1. n \in Ids(Def)
  BY DEF TypeOK
<1>2. CASE \E a \in Authors(Def) : visits'[a] > visits[a]
  BY <1>0, <1>2, AuthorAlone DEF Undecided
<1>3. CASE ~\E a \in Authors(Def) : visits'[a] > visits[a]
  <2> SUFFICES ASSUME d \notin since' PROVE active' \subseteq S
    BY DEF Undecided
  <2>1. d \notin since /\ (n \in Deciders(Def) => d # <<n, o>>)
    BY <1>3, ReportNotes
  <2>2. active \subseteq S /\ n \in S
    BY <2>1 DEF Undecided
  <2>3. d # <<n, o>>
    BY <1>0, <2>1
  <2>4. Starts(Def, n, o) \subseteq S
    BY <1>0, <2>2, <2>3 DEF StaysUntil
  <2>5. QED
    BY <1>1, <2>2, <2>4, ReportMoves
<1>4. QED
  BY <1>2, <1>3

LEMMA DecisionStep ==
  ASSUME TypeOK, StrandInv, NEW C \in SUBSET Strands(Def), NEW d, NEW S,
         DecidedOutside(plan, C, d, S), Undecided(d, S), [AuditNext]_<<vars, history>>
  PROVE  Undecided(d, S)'
<1>1. CASE Quiet /\ UNCHANGED history
  <2>1. CASE active' = active \/ active' = {}
    BY <1>1, <2>1 DEF Undecided, history
  <2>2. CASE \E B : BeginsIn(B)
    BY <2>2 DEF Undecided, BeginsIn, DecidedOutside, Beginning, Def
  <2>3. QED
    BY <1>1, <2>1, <2>2, QuietMoves
<1>2. CASE \E n \in Ids(Def) : AuditStep(n)
  BY <1>2, AuditHears, ReportDecides
<1>3. QED
  BY <1>1, <1>2, AuditSteps

(* The last word of a run is its last: nothing is active after it.           *)
Spoken(keys) == bindings \cap keys # {} => active = {}

LEMMA LastWords ==
  ASSUME TypeOK, StrandInv, NEW C \in SUBSET Strands(Def), NEW keys, LastWord(Def, C, keys),
         NEW n \in active, NEW o \in Heard(Def, n), Advance(n, o), Emits(Def, n, o) \cap keys # {}
  PROVE  active = {n} /\ active' = {} /\ Starts(Def, n, o) = {}
<1>1. n \in Ids(Def) /\ active \subseteq Ids(Def)
  BY DEF TypeOK
<1>2. Alone(Def, C, n) /\ Starts(Def, n, o) = {}
  BY <1>1 DEF LastWord
<1>3. active = {n}
  BY <1>1, <1>2, AloneThen
<1>4. QED
  BY <1>1, <1>2, <1>3, ReportMoves

LEMMA SpokenStep ==
  ASSUME TypeOK, Unbegun, StrandInv, NEW C \in SUBSET Strands(Def), NEW keys, LastWord(Def, C, keys),
         Spoken(keys), [AuditNext]_<<vars, history>>
  PROVE  Spoken(keys)'
<1>1. CASE Quiet
  BY <1>1, QuietMoves DEF Spoken, BeginsIn, Unbegun
<1>2. CASE \E n \in Ids(Def) : AuditStep(n)
  <2>1. PICK n \in active : n \in Ids(Def) /\ \E o \in Heard(Def, n) : Advance(n, o)
    BY <1>2, AuditHears
  <2>2. PICK o \in Heard(Def, n) : Advance(n, o)
    BY <2>1
  <2>3. bindings \cap keys = {}
    BY DEF Spoken
  <2>4. QED
    BY <2>1, <2>2, <2>3, ReportMoves, LastWords DEF Spoken
<1>3. QED
  BY <1>1, <1>2, AuditSteps

-----------------------------------------------------------------------------
(* Passes are judged                                                         *)

PassesInv(C, R) ==
  /\ Spoken(Passed)
  /\ \A g \in Captures(Def) : Undecided(<<g, "success">>, R[g])
  /\ bindings \cap Passed # {} =>
       Judged("verdict:pass", since) /\ \A g \in Captures(Def) : <<g, "success">> \in since

LEMMA PassReport ==
  ASSUME TypeOK, StrandInv, NEW C \in SUBSET Strands(Def), NEW R, PassesAreJudged(plan, C, R),
         PassesInv(C, R), NEW n \in active, NEW o \in Heard(Def, n), Advance(n, o), Note(n, o),
         Emits(Def, n, o) \cap Passed # {}
  PROVE  /\ \E v \in Verdicts(Def) : <<v, "verdict:pass">> \in since'
         /\ \A g \in Captures(Def) : <<g, "success">> \in since'
<1>1. n \in Ids(Def)
  BY DEF TypeOK
<1>2. LastWord(Def, C, Passed) /\ n \in Verdicts(Def) /\ o = "verdict:pass"
  BY <1>1 DEF PassesAreJudged, Def
<1>3. Starts(Def, n, o) = {}
  BY <1>2, LastWords
<1>4. ~\E a \in Authors(Def) : visits'[a] > visits[a]
  <2>1. Authors(Def) \subseteq Ids(Def)
    BY DEF Authors, CwdWriters, Capable, OfKind
  <2>2. QED
    BY <1>1, <1>3, <2>1, ReportMoves
<1>5. since \subseteq since' /\ <<n, o>> \in since'
  BY <1>2, <1>4, ReportNotes DEF Deciders
<1>6. ASSUME NEW g \in Captures(Def) PROVE <<g, "success">> \in since
  <2>1. n \notin R[g]
    BY DEF PassesAreJudged, Def
  <2>2. QED
    BY <2>1 DEF PassesInv, Undecided
<1>7. QED
  BY <1>2, <1>5, <1>6

LEMMA PassStep ==
  ASSUME TypeOK, Unbegun, StrandInv, NEW C \in SUBSET Strands(Def), NEW R, PassesAreJudged(plan, C, R),
         PassesInv(C, R), [AuditNext]_<<vars, history>>
  PROVE  PassesInv(C, R)'
<1>1. plan' = plan /\ Def' = Def
  BY AuditSteps, QuietMoves, ReportMoves, AuditHears, PlanKept
<1>2. Spoken(Passed)'
  BY SpokenStep DEF PassesAreJudged, PassesInv, Def
<1>3. \A g \in Captures(Def) : Undecided(<<g, "success">>, R[g])'
  <2> SUFFICES ASSUME NEW g \in Captures(Def) PROVE Undecided(<<g, "success">>, R[g])'
    OBVIOUS
  <2>1. DecidedOutside(plan, C, <<g, "success">>, R[g]) /\ Undecided(<<g, "success">>, R[g])
    BY DEF PassesAreJudged, PassesInv, Def
  <2>2. QED
    BY <2>1, DecisionStep
<1>4. bindings' \cap Passed # {} =>
        /\ \E v \in Verdicts(Def) : <<v, "verdict:pass">> \in since'
        /\ \A g \in Captures(Def) : <<g, "success">> \in since'
  <2>1. CASE Quiet /\ UNCHANGED history
    BY <2>1, QuietMoves DEF PassesInv, Judged, history
  <2>2. CASE \E n \in Ids(Def) : AuditStep(n)
    <3>1. PICK n \in active : n \in Ids(Def) /\ \E o \in Heard(Def, n) : Advance(n, o) /\ Note(n, o)
      BY <2>2, AuditHears
    <3>2. PICK o \in Heard(Def, n) : Advance(n, o) /\ Note(n, o)
      BY <3>1
    <3>3. bindings \cap Passed = {}
      BY DEF PassesInv, Spoken
    <3>4. QED
      BY <3>1, <3>2, <3>3, ReportMoves, PassReport
  <2>3. QED
    BY <2>1, <2>2, AuditSteps
<1>5. QED
  BY <1>1, <1>2, <1>3, <1>4 DEF PassesInv, Judged

PassInv ==
  \E C \in SUBSET Strands(Def), R \in [Captures(Def) -> SUBSET Ids(Def)] :
    PassesAreJudged(plan, C, R) /\ PassesInv(C, R)

(* A pass is a verdict on what is in the working tree at the end: no author  *)
(* ran after the capture that was judged, in every run of a workflow in      *)
(* which only verdicts pass, after a capture that outlives every author      *)
(* before it (qaap-workflow-ir.ts:896-907).                                  *)
THEOREM PassesJudgeTheLastChange ==
  ASSUME \A p \in Plan :
           \E C \in SUBSET Strands(p.def), R \in [Captures(p.def) -> SUBSET Ids(p.def)] : PassesAreJudged(p, C, R)
  PROVE  AuditSpec => []PassJudgesTheLastChange
<1>1. AuditInit => PassInv
  <2> SUFFICES ASSUME AuditInit PROVE PassInv
    OBVIOUS
  <2>1. plan \in Plan /\ active = {} /\ bindings = {}
    BY DEF AuditInit, Init
  <2>2. PICK C \in SUBSET Strands(Def), R \in [Captures(Def) -> SUBSET Ids(Def)] : PassesAreJudged(plan, C, R)
    BY <2>1 DEF Def
  <2>3. PassesInv(C, R)
    BY <2>1 DEF PassesInv, Spoken, Undecided
  <2>4. QED
    BY <2>2, <2>3 DEF PassInv
<1>2. TypeOK /\ Unbegun /\ StrandInv /\ PassInv /\ [AuditNext]_<<vars, history>> => PassInv'
  <2> SUFFICES ASSUME TypeOK, Unbegun, StrandInv, PassInv, [AuditNext]_<<vars, history>> PROVE PassInv'
    OBVIOUS
  <2>1. PICK C \in SUBSET Strands(Def), R \in [Captures(Def) -> SUBSET Ids(Def)] : PassesAreJudged(plan, C, R) /\ PassesInv(C, R)
    BY DEF PassInv
  <2>2. PassesInv(C, R)'
    BY <2>1, PassStep
  <2>3. plan' = plan /\ Def' = Def
    BY AuditSteps, QuietMoves, ReportMoves, AuditHears, PlanKept
  <2>4. QED
    BY <2>1, <2>2, <2>3 DEF PassInv
<1>3. PassInv => PassJudgesTheLastChange
  BY DEF PassInv, PassesInv, Spoken, PassJudgesTheLastChange
<1>4. QED
  BY <1>1, <1>2, <1>3, AuditIsRun, RunTypeCorrect, RunOnStrands, NothingBeforeTheStart, PTL DEF AuditSpec

-----------------------------------------------------------------------------
(* Rejections stand                                                          *)

RejectionsInv(S) ==
  /\ Spoken({"review.skipped"})
  /\ ever \cap Rejecting(Def) # {} => active \subseteq S /\ "review.skipped" \notin bindings

LEMMA RejectionReport ==
  ASSUME TypeOK, StrandInv, NEW C \in SUBSET Strands(Def), NEW S, RejectionsStand(plan, C, S),
         RejectionsInv(S), NEW n \in active, NEW o \in Heard(Def, n), Advance(n, o), Note(n, o),
         ever' \cap Rejecting(Def) # {}
  PROVE  active' \subseteq S /\ "review.skipped" \notin bindings'
<1>0. /\ n \in Ids(Def) /\ active \subseteq Ids(Def)
      /\ StaysUntil(Def, S, {})
      /\ <<n, o>> \in Rejecting(Def) => Alone(Def, C, n) /\ Starts(Def, n, o) \subseteq S
      /\ n \in S \/ <<n, o>> \in Rejecting(Def) => "review.skipped" \notin Emits(Def, n, o)
  BY DEF TypeOK, RejectionsStand, Def
<1>1. "review.skipped" \notin bindings
  BY DEF RejectionsInv, Spoken
<1>2. CASE <<n, o>> \in Rejecting(Def)
  <2>1. active = {n}
    BY <1>0, <1>2, AloneThen
  <2>2. QED
    BY <1>0, <1>1, <1>2, <2>1, ReportMoves
<1>3. CASE <<n, o>> \notin Rejecting(Def)
  <2>1. active \subseteq S
    BY <1>3, ReportNotes DEF RejectionsInv
  <2>2. Starts(Def, n, o) \subseteq S
    BY <1>0, <2>1 DEF StaysUntil
  <2>3. QED
    BY <1>0, <1>1, <2>1, <2>2, ReportMoves
<1>4. QED
  BY <1>2, <1>3

LEMMA RejectionStep ==
  ASSUME TypeOK, Unbegun, StrandInv, NEW C \in SUBSET Strands(Def), NEW S, RejectionsStand(plan, C, S),
         RejectionsInv(S), [AuditNext]_<<vars, history>>
  PROVE  RejectionsInv(S)'
<1>1. Def' = Def /\ Spoken({"review.skipped"})'
  BY SpokenStep, AuditSteps, QuietMoves, ReportMoves, AuditHears DEF RejectionsStand, RejectionsInv, Def
<1>2. ever' \cap Rejecting(Def) # {} => active' \subseteq S /\ "review.skipped" \notin bindings'
  <2>1. CASE Quiet /\ UNCHANGED history
    BY <2>1, QuietMoves DEF RejectionsInv, BeginsIn, Unbegun, history
  <2>2. CASE \E n \in Ids(Def) : AuditStep(n)
    BY <2>2, AuditHears, RejectionReport
  <2>3. QED
    BY <2>1, <2>2, AuditSteps
<1>3. QED
  BY <1>1, <1>2 DEF RejectionsInv

RejectInv ==
  \E C \in SUBSET Strands(Def), S \in SUBSET Ids(Def) : RejectionsStand(plan, C, S) /\ RejectionsInv(S)

(* A change that a reviewer rejected never ends as "review skipped", however *)
(* often it is fixed and captured again, in every workflow in which a        *)
(* rejection leads to where no review is skipped (qaap-workflow-ir.ts:       *)
(* 901-907).                                                                 *)
THEOREM RejectionsAreKept ==
  ASSUME \A p \in Plan :
           \E C \in SUBSET Strands(p.def), S \in SUBSET Ids(p.def) : RejectionsStand(p, C, S)
  PROVE  AuditSpec => []RejectionIsNotSkipped
<1>1. AuditInit => RejectInv
  <2> SUFFICES ASSUME AuditInit PROVE RejectInv
    OBVIOUS
  <2>1. plan \in Plan /\ active = {} /\ bindings = {} /\ ever = {}
    BY DEF AuditInit, Init
  <2>2. PICK C \in SUBSET Strands(Def), S \in SUBSET Ids(Def) : RejectionsStand(plan, C, S)
    BY <2>1 DEF Def
  <2>3. RejectionsInv(S)
    BY <2>1 DEF RejectionsInv, Spoken
  <2>4. QED
    BY <2>2, <2>3 DEF RejectInv
<1>2. TypeOK /\ Unbegun /\ StrandInv /\ RejectInv /\ [AuditNext]_<<vars, history>> => RejectInv'
  <2> SUFFICES ASSUME TypeOK, Unbegun, StrandInv, RejectInv, [AuditNext]_<<vars, history>>
               PROVE  RejectInv'
    OBVIOUS
  <2>1. PICK C \in SUBSET Strands(Def), S \in SUBSET Ids(Def) : RejectionsStand(plan, C, S) /\ RejectionsInv(S)
    BY DEF RejectInv
  <2>2. RejectionsInv(S)'
    BY <2>1, RejectionStep
  <2>3. plan' = plan /\ Def' = Def
    BY AuditSteps, QuietMoves, ReportMoves, AuditHears, PlanKept
  <2>4. QED
    BY <2>1, <2>2, <2>3 DEF RejectInv
<1>3. RejectInv => RejectionIsNotSkipped
  BY DEF RejectInv, RejectionsInv, RejectionIsNotSkipped
<1>4. QED
  BY <1>1, <1>2, <1>3, AuditIsRun, RunTypeCorrect, RunOnStrands, NothingBeforeTheStart, PTL DEF AuditSpec

-----------------------------------------------------------------------------
(* Fan-ins are complete                                                      *)

(* Whoever a join has heard from in a round has come in since it last        *)
(* started.                                                                  *)
GatheredInv ==
  /\ gathered \in [Joins -> SUBSET Ids(Def)]
  /\ \A j \in Joins \ fired : arrivals[j] \subseteq gathered[j]

LEMMA ReachedArrive ==
  ASSUME NEW n, NEW o, NEW j \in Reached(n, o)
  PROVE  Arriving(n, o, j) = {n}
BY DEF Reached, Arriving

LEMMA ReportGathers ==
  ASSUME TypeOK, FedByFeeders, GatheredInv, NEW n \in Ids(Def), NEW o, Advance(n, o), Note(n, o)
  PROVE  GatheredInv'
<1>1. Def' = Def /\ Ids(Def)' = Ids(Def) /\ Joins' = Joins
  BY ReportMoves, PlanKept
<1>2. \A j \in Joins : Arriving(n, o, j) \subseteq {n}
  BY DEF Arriving
<1>3. gathered' = [j \in Joins |-> IF Started(j) THEN {} ELSE gathered[j] \cup Arriving(n, o, j)]
  BY DEF Note
<1>4. gathered' \in [Joins -> SUBSET Ids(Def)]
  BY <1>2, <1>3 DEF GatheredInv
<1>5. ASSUME NEW j \in Joins, j \notin fired' PROVE arrivals'[j] \subseteq gathered'[j]
  <2>1. ~(j \in Reached(n, o) /\ Fires(j, n))
    BY <1>5, AdvanceFeeds
  <2>2. ~Started(j)
    <3>1. j \in Ids(Def)
      BY JoinFacts
    <3>2. Started(j) => \E i \in Starting(n, o) : Target(i) = j
      BY <3>1, AdvanceStarts DEF Started
    <3>3. QED
      BY <2>1, <3>2, EnteringFacts
  <2>3. gathered'[j] = gathered[j] \cup Arriving(n, o, j)
    BY <1>3, <2>2
  <2>4. CASE j \notin Reached(n, o)
    BY <1>5, <2>3, <2>4, AdvanceFeeds DEF GatheredInv
  <2>5. CASE j \in Reached(n, o)
    <3>1. arrivals'[j] = Arrived(j, n) /\ Arriving(n, o, j) = {n} /\ ~(j \in fired /\ Late(j, n))
      BY <1>5, <2>5, AdvanceFeeds, ReachedArrive
    <3>2. QED
      BY <2>3, <3>1 DEF GatheredInv, Arrived, Late
  <2>6. QED
    BY <2>4, <2>5
<1>6. QED
  BY <1>1, <1>4, <1>5 DEF GatheredInv

LEMMA GatheredStep ==
  ASSUME TypeOK, FedByFeeders, GatheredInv, [AuditNext]_<<vars, history>>
  PROVE  GatheredInv'
<1>1. CASE Quiet /\ UNCHANGED history
  <2>1. arrivals' = arrivals /\ fired' = fired /\ gathered' = gathered
          /\ Joins' = Joins /\ Ids(Def)' = Ids(Def)
    BY <1>1, QuietMoves, PlanKept DEF history
  <2>2. QED
    BY <2>1 DEF GatheredInv
<1>2. CASE \E n \in Ids(Def) : AuditStep(n)
  BY <1>2, AuditHears, ReportGathers
<1>3. QED
  BY <1>1, <1>2, AuditSteps

LEMMA RequiredFacts == ASSUME plan \in Plan, NEW j \in Joins PROVE Required(Def, j) \in Int
<1>1. Cardinality(Feeders(Def, j)) \in Nat
  BY FeederFacts, FS_CardinalityType
<1>2. Def.node[j].n \in Int
  BY DefinitionAssumption DEF Def, Joins
<1>3. QED
  BY <1>1, <1>2 DEF Required

LEMMA ReportFills ==
  ASSUME TypeOK, FedByFeeders, GatheredInv, NEW n \in active, NEW o, Advance(n, o),
         NEW j \in Joins, Started(j)
  PROVE  Cardinality(gathered[j] \cup Reporting) >= Required(Def, j)
<1>1. n \in Ids(Def) /\ j \in Ids(Def) /\ IsFiniteSet(Ids(Def))
  BY JoinFacts, DefinitionAssumption DEF TypeOK, Def
<1>2. PICK i \in Starting(n, o) : Target(i) = j
  BY <1>1, AdvanceStarts DEF Started
<1>3. Fires(j, n)
  BY <1>2, EnteringFacts
<1>4. Arrived(j, n) \subseteq gathered[j] \cup {n}
  BY <1>3 DEF Fires, Late, Arrived, GatheredInv
<1>5. n \in Reporting
  BY <1>1, AdvanceStarts DEF Reporting, Started
<1>6. gathered[j] \cup Reporting \in SUBSET Ids(Def)
  BY DEF GatheredInv, Reporting, TypeOK
<1>7. /\ Arrived(j, n) \in SUBSET (gathered[j] \cup Reporting) /\ IsFiniteSet(gathered[j] \cup Reporting)
      /\ IsFiniteSet(Arrived(j, n))
  BY <1>1, <1>4, <1>5, <1>6, FS_Subset
<1>8. /\ Cardinality(Arrived(j, n)) <= Cardinality(gathered[j] \cup Reporting)
      /\ Cardinality(Arrived(j, n)) \in Nat /\ Cardinality(gathered[j] \cup Reporting) \in Nat
  BY <1>7, FS_Subset, FS_CardinalityType
<1>9. Cardinality(Arrived(j, n)) >= Required(Def, j) /\ Required(Def, j) \in Int
  BY <1>3, RequiredFacts DEF Fires, TypeOK
<1>10. QED
  BY <1>8, <1>9

(* A fan-in starts what comes after it only when as many predecessors as it  *)
(* waits for came in since it last did so, for every definition, through     *)
(* every loop, and whatever the order of the reports                         *)
(* (qaap-workflow-run.ts:306-322).                                           *)
THEOREM FanInsAreComplete == AuditSpec => FanInIsComplete
<1>1. AuditInit => GatheredInv
  BY DEF AuditInit, Init, GatheredInv
<1>2. TypeOK /\ StrandInv /\ GatheredInv /\ [AuditNext]_<<vars, history>> => GatheredInv'
  BY GatheredStep DEF StrandInv
<1>3. TypeOK /\ StrandInv /\ GatheredInv /\ [AuditNext]_<<vars, history>> =>
        [status # "none" => \A j \in Joins : Started(j) =>
           Cardinality(gathered[j] \cup Reporting) >= Required(Def, j)]_<<vars, history>>
  <2> SUFFICES ASSUME TypeOK, StrandInv, GatheredInv, [AuditNext]_<<vars, history>>, status # "none",
                      NEW j \in Joins, Started(j)
               PROVE  Cardinality(gathered[j] \cup Reporting) >= Required(Def, j)
    OBVIOUS
  <2>1. visits' # visits
    BY JoinFacts DEF Started, TypeOK
  <2>2. \E n \in Ids(Def) : AuditStep(n)
    BY <2>1, AuditSteps, QuietMoves DEF BeginsIn
  <2>3. QED
    BY <2>2, AuditHears, ReportFills DEF StrandInv
<1>4. QED
  BY <1>1, <1>2, <1>3, AuditIsRun, RunTypeCorrect, RunOnStrands, PTL DEF AuditSpec, FanInIsComplete

-----------------------------------------------------------------------------
(* How a run ends                                                            *)

(* If gates stand alone only the gate is continued.                          *)
LEMMA AuditSays ==
  ASSUME TypeOK, StrandInv, GateInv, NEW C \in SUBSET Strands(Def),
         \A g \in OfKind(Def, "human-gate") : Alone(Def, C, g), NEW n, AuditStep(n)
  PROVE  \E o \in Outcomes(Def.node[n]) : Advance(n, o) /\ Note(n, o)
<1>1. CASE \E o \in Outcomes(Def.node[n]) : Report(n, o) /\ Note(n, o)
  BY <1>1 DEF Report
<1>2. CASE SettleJoin(n) /\ Note(n, "success")
  BY <1>2 DEF SettleJoin, Kind, Outcomes
<1>3. CASE Continue(n) /\ Note(n, "human:continue")
  <2>1. PICK g \in active : Kind(g) = "human-gate"
    BY <1>3 DEF Continue, GateInv
  <2>2. active \subseteq Ids(Def) /\ n \in active
    BY <1>3 DEF TypeOK, Continue
  <2>3. Alone(Def, C, g)
    BY <2>1, <2>2 DEF OfKind, Kind
  <2>4. n = g
    BY <2>2, <2>3, AloneThen
  <2>5. "human:continue" \in Outcomes(Def.node[n])
    BY <2>1, <2>4 DEF Outcomes, Kind
  <2>6. QED
    BY <1>3, <2>5 DEF Continue
<1>4. QED
  BY <1>1, <1>2, <1>3 DEF AuditStep

-----------------------------------------------------------------------------
(* Goals are checked                                                         *)

GoalInv(S, Q) ==
  /\ Undecided(<<"verify", "success">>, S)
  /\ visits["implement"] > 0 => active \subseteq Q
  /\ status = "succeeded" /\ visits["implement"] > 0 => <<"verify", "success">> \in since

LEMMA GoalQuiet ==
  ASSUME TypeOK, Unbegun, NEW C, NEW S, NEW Q \in SUBSET Ids(Def), GoalsAreChecked(plan, C, S, Q),
         GoalInv(S, Q), Quiet, UNCHANGED history
  PROVE  /\ visits'["implement"] > 0 => active' \subseteq Q
         /\ status' = "succeeded" /\ visits'["implement"] > 0 => <<"verify", "success">> \in since'
<1>1. "implement" \in Q /\ ("implement" \in EntryNodes(Def) => EntryNodes(Def) \subseteq Q)
  BY DEF GoalsAreChecked, Def
<1>2. CASE visits' = visits /\ (active' = active \/ active' = {})
           /\ (status' = status \/ status' = "budget-exhausted")
  BY <1>2 DEF GoalInv, history
<1>3. CASE \E B : BeginsIn(B)
  <2>1. PICK B : BeginsIn(B)
    BY <1>3
  <2>2. visits'["implement"] > 0 => "implement" \in B
    BY <1>1, <2>1 DEF BeginsIn, Unbegun
  <2>3. "implement" \in B => B \subseteq Q
    BY <1>1, <2>1 DEF BeginsIn
  <2>4. QED
    BY <2>1, <2>2, <2>3 DEF BeginsIn, Live
<1>4. QED
  BY <1>2, <1>3, QuietMoves

LEMMA GoalReport ==
  ASSUME TypeOK, StrandInv, NEW C \in SUBSET Strands(Def), NEW S, NEW Q \in SUBSET Ids(Def),
         GoalsAreChecked(plan, C, S, Q), GoalInv(S, Q), status \in Live,
         NEW n \in active, NEW o \in Outcomes(Def.node[n]), Advance(n, o), Note(n, o)
  PROVE  /\ visits'["implement"] > 0 => active' \subseteq Q
         /\ status' = "succeeded" /\ visits'["implement"] > 0 => <<"verify", "success">> \in since'
<1>0. /\ n \in Ids(Def) /\ active \subseteq Ids(Def) /\ "implement" \in Ids(Def) /\ o \in Heard(Def, n)
      /\ StaysUntil(Def, Q, {}) /\ DecidedOutside(plan, C, <<"verify", "success">>, S)
      /\ "implement" \in Starts(Def, n, o) => Alone(Def, C, n) /\ Starts(Def, n, o) \subseteq Q
  BY DEF GoalsAreChecked, Def, TypeOK, Heard
<1>1. ASSUME visits["implement"] > 0
      PROVE  active \subseteq Q /\ active' \subseteq Q
  <2>1. active \subseteq Q
    BY <1>1 DEF GoalInv
  <2>2. Starts(Def, n, o) \subseteq Q
    BY <1>0, <2>1 DEF StaysUntil
  <2>3. QED
    BY <1>0, <2>1, <2>2, ReportMoves
<1>2. ASSUME visits'["implement"] > 0, ~(visits["implement"] > 0)
      PROVE  active' \subseteq Q
  <2>1. visits'["implement"] > visits["implement"]
    BY <1>0, <1>2, ReportMoves
  <2>2. "implement" \in Starts(Def, n, o)
    BY <1>0, <2>1, ReportMoves
  <2>3. active = {n}
    BY <1>0, <2>2, AloneThen
  <2>4. QED
    BY <1>0, <2>2, <2>3, ReportMoves
<1>3. ASSUME status' = "succeeded", visits'["implement"] > 0, <<"verify", "success">> \notin since'
      PROVE  FALSE
  <2>1. Starting(n, o) = {} /\ active = {n} /\ o \notin Failing
    BY <1>3, ReportSettles DEF Live
  <2>2. \A m \in Ids(Def) : ~(visits'[m] > visits[m])
    BY <1>0, <2>1, AdvanceStarts
  <2>3. ~\E a \in Authors(Def) : visits'[a] > visits[a]
    BY <2>2 DEF Authors, CwdWriters, Capable, OfKind
  <2>4. <<"verify", "success">> \notin since /\ (n \in Deciders(Def) => <<n, o>> # <<"verify", "success">>)
    BY <1>3, <2>3, ReportNotes
  <2>5. n \in S /\ <<n, o>> # <<"verify", "success">>
    BY <1>0, <2>1, <2>4 DEF GoalInv, Undecided, DecidedOutside, Def
  <2>6. n \in Q
    <3>1. visits["implement"] > 0
      BY <1>0, <1>3, <2>2, ReportMoves
    <3>2. QED
      BY <1>1, <3>1
  <2>7. Starts(Def, n, o) \ OfKind(Def, "join") # {}
    BY <2>1, <2>5, <2>6 DEF GoalsAreChecked, Def
  <2>8. PICK i \in Matched(Def, n, o) \ Emitting(Def, n, o) : Target(i) \notin Joins
    BY <2>7 DEF Starts, Joins, Target
  <2>9. i \in Starting(n, o)
    BY <2>8 DEF Starting, Emitting, Kind, Target
  <2>10. QED
    BY <2>1, <2>9
<1>4. QED
  BY <1>1, <1>2, <1>3

LEMMA GoalStep ==
  ASSUME TypeOK, Unbegun, StrandInv, GateInv, NEW C \in SUBSET Strands(Def), NEW S, NEW Q \in SUBSET Ids(Def),
         GoalsAreChecked(plan, C, S, Q), GoalInv(S, Q), [AuditNext]_<<vars, history>>
  PROVE  GoalInv(S, Q)'
<1>1. /\ DecidedOutside(plan, C, <<"verify", "success">>, S)
      /\ \A g \in OfKind(Def, "human-gate") : Alone(Def, C, g)
  BY DEF GoalsAreChecked, Def
<1>2. Undecided(<<"verify", "success">>, S)'
  BY <1>1, DecisionStep DEF GoalInv
<1>3. /\ visits'["implement"] > 0 => active' \subseteq Q
      /\ status' = "succeeded" /\ visits'["implement"] > 0 => <<"verify", "success">> \in since'
  <2>1. CASE Quiet /\ UNCHANGED history
    BY <2>1, GoalQuiet
  <2>2. CASE \E n \in Ids(Def) : AuditStep(n)
    <3>1. PICK n \in active : AuditStep(n) /\ status \in Live
      BY <2>2, AuditHears
    <3>2. \E o \in Outcomes(Def.node[n]) : Advance(n, o) /\ Note(n, o)
      BY <1>1, <3>1, AuditSays
    <3>3. QED
      BY <3>1, <3>2, GoalReport
  <2>3. QED
    BY <2>1, <2>2, AuditSteps
<1>4. QED
  BY <1>2, <1>3 DEF GoalInv

Checked == "verify" \in Ids(Def) /\ "implement-review-fix" \notin Ids(Def)
CheckedInv ==
  Checked => \E C \in SUBSET Strands(Def), S, Q \in SUBSET Ids(Def) :
               GoalsAreChecked(plan, C, S, Q) /\ GoalInv(S, Q)

(* A run that verifies and fixes no review succeeds only after a check that  *)
(* passed on the tree it leaves behind, in every workflow in which only      *)
(* failures end the run between its writers and that check                   *)
(* (qaap-workflow-ir.ts:901-907).                                            *)
THEOREM GoalsAreMet ==
  ASSUME \A p \in Plan : "verify" \in Ids(p.def) /\ "implement-review-fix" \notin Ids(p.def) =>
           \E C \in SUBSET Strands(p.def), S, Q \in SUBSET Ids(p.def) : GoalsAreChecked(p, C, S, Q)
  PROVE  AuditSpec => []GoalMetWithoutReviewFix
<1>1. AuditInit => CheckedInv
  <2> SUFFICES ASSUME AuditInit, Checked
               PROVE  \E C \in SUBSET Strands(Def), S, Q \in SUBSET Ids(Def) :
                        GoalsAreChecked(plan, C, S, Q) /\ GoalInv(S, Q)
    BY DEF CheckedInv
  <2>1. plan \in Plan /\ active = {} /\ status = "none"
    BY DEF AuditInit, Init
  <2>2. \A S, Q : GoalInv(S, Q)
    BY <2>1 DEF GoalInv, Undecided
  <2>3. QED
    BY <2>1, <2>2 DEF Checked, Def
<1>2. TypeOK /\ Unbegun /\ StrandInv /\ GateInv /\ CheckedInv /\ [AuditNext]_<<vars, history>> => CheckedInv'
  <2> SUFFICES ASSUME TypeOK, Unbegun, StrandInv, GateInv, CheckedInv, [AuditNext]_<<vars, history>>
               PROVE  CheckedInv'
    OBVIOUS
  <2>1. plan' = plan /\ Def' = Def
    BY AuditSteps, QuietMoves, ReportMoves, AuditHears, PlanKept
  <2>2. ASSUME NEW C \in SUBSET Strands(Def), NEW S, NEW Q \in SUBSET Ids(Def),
               GoalsAreChecked(plan, C, S, Q) /\ GoalInv(S, Q)
        PROVE  GoalInv(S, Q)'
    BY <2>2, GoalStep
  <2>3. QED
    BY <2>1, <2>2 DEF CheckedInv, Checked
<1>3. CheckedInv => GoalMetWithoutReviewFix
  BY DEF CheckedInv, Checked, GoalInv, GoalMetWithoutReviewFix, GoalMet
<1>4. QED
  BY <1>1, <1>2, <1>3, AuditIsRun, RunTypeCorrect, RunOnStrands, GatesAreAsked, NothingBeforeTheStart,
     PTL DEF AuditSpec

-----------------------------------------------------------------------------
(* Every branch comes to its join                                            *)

(* A join rests, gathers, or has all its predecessors before it again.       *)
Round(j) ==
  LET F == Feeders(Def, j) IN
  \/ Exhausted
  \/ active \cap F = {} /\ j \notin fired /\ arrivals[j] = {}
  \/ active \cap F = {} /\ j \in fired /\ F \subseteq arrivals[j]
  \/ /\ active \cap F # {} /\ j \notin fired
     /\ F \subseteq arrivals[j] \cup active /\ arrivals[j] \cap active = {}
  \/ F # {} /\ F \subseteq active /\ j \in fired /\ F \subseteq arrivals[j]

LEMMA RoundMove ==
  ASSUME TypeOK, NEW n \in active, status \in Live, NEW o, Advance(n, o), ~Exhausted'
  PROVE  /\ ~Exhausted
         /\ active' = (active \ {n}) \cup {Target(i) : i \in Starting(n, o)}
<1>1. ~Exhausted
  BY DEF TypeOK, Exhausted, Live, Ended
<1>2. CASE Starting(n, o) = {} /\ active = {n}
  BY <1>1, <1>2, ReportSettles
<1>3. CASE ~(Starting(n, o) = {} /\ active = {n})
  BY <1>1, <1>3, ReportSettles DEF Exhausted
<1>4. QED
  BY <1>2, <1>3

(* A predecessor reports.                                                    *)
LEMMA RoundFeeder ==
  ASSUME TypeOK, FedByFeeders, NEW C, NEW j \in Joins, FedTogether(plan, C, j), Round(j),
         status \in Live, NEW n \in active \cap Feeders(Def, j), NEW o \in Heard(Def, n), Advance(n, o)
  PROVE  Round(j)'
<1> DEFINE F == Feeders(Def, j)
<1>0. /\ n \in Ids(Def) /\ j \in Starts(Def, n, o) /\ Starts(Def, n, o) \cap F = {}
      /\ Required(Def, j) = Cardinality(F)
  BY DEF TypeOK, FedTogether, Def
<1>1. j \in Reached(n, o) /\ F \in SUBSET Ids(Def) /\ IsFiniteSet(F) /\ Def' = Def
  BY <1>0, FeederFacts, ReportMoves DEF Starts, Reached, Target, TypeOK
<1>2. /\ arrivals'[j] = Arrived(j, n)
      /\ j \in fired' <=> (j \in fired /\ Late(j, n)) \/ Fires(j, n)
  BY <1>0, <1>1, AdvanceFeeds
<1> SUFFICES ASSUME ~Exhausted' PROVE Round(j)'
  BY DEF Round
<1>3. ~Exhausted /\ active' = (active \ {n}) \cup {Target(i) : i \in Starting(n, o)}
  BY RoundMove
<1>4. \A i \in Starting(n, o) : Target(i) \in Starts(Def, n, o)
  BY DEF Starting, Starts, Emitting, Kind, Target
<1>5. active' \cap F = (active \cap F) \ {n}
  BY <1>0, <1>3, <1>4
<1>6. arrivals[j] \subseteq F
  BY DEF FedByFeeders
<1>7. \A A \in SUBSET F : Cardinality(A) >= Required(Def, j) <=> A = F
  <2> HIDE DEF F
  <2>1. \A A \in SUBSET F : /\ Cardinality(A) <= Cardinality(F) /\ Cardinality(A) \in Nat
                            /\ Cardinality(A) = Cardinality(F) => A = F
    BY <1>1, FS_Subset, FS_CardinalityType
  <2>2. Cardinality(F) \in Nat
    BY <1>1, FS_CardinalityType
  <2>3. QED
    BY <1>0, <2>1, <2>2
<1>8. CASE /\ active \cap F # {} /\ j \notin fired
           /\ F \subseteq arrivals[j] \cup active /\ arrivals[j] \cap active = {}
  <2>1. Arrived(j, n) = arrivals[j] \cup {n} /\ ~Late(j, n) /\ Arrived(j, n) \in SUBSET F
    BY <1>6, <1>8 DEF Arrived, Late
  <2>2. j \in fired' <=> arrivals'[j] = F
    BY <1>2, <1>7, <2>1 DEF Fires
  <2>3. CASE active \cap F = {n}
    <3>1. arrivals'[j] = F /\ active' \cap F = {}
      BY <1>2, <1>5, <1>8, <2>1, <2>3
    <3>2. QED
      BY <1>1, <2>2, <3>1 DEF Round
  <2>4. CASE active \cap F # {n}
    <3>1. PICK c \in active \cap F : c # n
      BY <2>4
    <3>2. c \notin arrivals'[j] /\ c \in active' \cap F
      BY <1>2, <1>5, <1>8, <2>1, <3>1
    <3>3. F \subseteq arrivals'[j] \cup active' /\ arrivals'[j] \cap active' = {}
      BY <1>2, <1>5, <1>8, <2>1
    <3>4. QED
      BY <1>1, <2>2, <3>2, <3>3 DEF Round
  <2>5. QED
    BY <2>3, <2>4
<1>9. CASE F # {} /\ F \subseteq active /\ j \in fired /\ F \subseteq arrivals[j]
  <2>1. Arrived(j, n) = {n} /\ ~Late(j, n) /\ Arrived(j, n) \in SUBSET F
    BY <1>9 DEF Arrived, Late
  <2>2. j \in fired' <=> {n} = F
    BY <1>2, <1>7, <2>1 DEF Fires
  <2>3. CASE F = {n}
    BY <1>1, <1>2, <1>5, <2>1, <2>2, <2>3 DEF Round
  <2>4. CASE F # {n}
    <3>1. active' \cap F # {} /\ F \subseteq arrivals'[j] \cup active' /\ arrivals'[j] \cap active' = {}
      BY <1>2, <1>5, <1>9, <2>1, <2>4
    <3>2. QED
      BY <1>1, <2>2, <2>4, <3>1 DEF Round
  <2>5. QED
    BY <2>3, <2>4
<1>10. QED
  BY <1>3, <1>8, <1>9 DEF Round

(* Another node reports: it starts all of the predecessors, or none.         *)
LEMMA RoundOther ==
  ASSUME TypeOK, StrandInv, NEW C \in SUBSET Strands(Def), NEW j \in Joins, FedTogether(plan, C, j), Round(j),
         status \in Live, NEW n \in active, n \notin Feeders(Def, j), NEW o \in Heard(Def, n), Advance(n, o)
  PROVE  Round(j)'
<1> DEFINE F == Feeders(Def, j)
<1>0. n \in Ids(Def) /\ F \cap Joins = {} /\ Def' = Def
  BY ReportMoves DEF TypeOK, FedTogether, Def, Joins
<1>1. j \notin Reached(n, o)
  BY DEF Reached, Matched, Outgoing, Target, Feeders
<1>2. arrivals'[j] = arrivals[j] /\ (j \in fired' <=> j \in fired)
  BY <1>0, <1>1, AdvanceFeeds DEF StrandInv
<1> SUFFICES ASSUME ~Exhausted' PROVE Round(j)'
  BY DEF Round
<1>3. ~Exhausted /\ active' = (active \ {n}) \cup {Target(i) : i \in Starting(n, o)}
  BY RoundMove
<1>4. CASE Starts(Def, n, o) \cap F = {}
  <2>1. \A i \in Starting(n, o) : Target(i) \in Starts(Def, n, o)
    BY DEF Starting, Starts, Emitting, Kind, Target
  <2>2. active' \cap F = active \cap F
    BY <1>3, <1>4, <2>1
  <2>3. arrivals[j] \subseteq F
    BY DEF StrandInv, FedByFeeders
  <2>4. QED
    BY <1>0, <1>2, <1>3, <2>2, <2>3 DEF Round
<1>5. CASE F \subseteq Starts(Def, n, o) /\ \A c \in F : \E S \in C : {n, c} \subseteq S
  <2>1. active \cap F = {}
    BY <1>5, PlacesApart DEF Apart
  <2>2. \A c \in F : \E i \in Starting(n, o) : Target(i) = c
    BY <1>0, <1>5 DEF Starting, Starts, Emitting, Kind, Target
  <2>3. F \subseteq active'
    BY <1>3, <2>2
  <2>4. QED
    BY <1>0, <1>2, <1>3, <2>1, <2>3 DEF Round
<1>6. QED
  BY <1>0, <1>4, <1>5 DEF FedTogether, Def

LEMMA RoundStep ==
  ASSUME TypeOK, Unbegun, StrandInv, NEW C \in SUBSET Strands(Def), NEW j \in Joins, FedTogether(plan, C, j),
         Round(j), [AuditNext]_<<vars, history>>
  PROVE  Round(j)'
<1>1. CASE Quiet
  <2>1. Def' = Def /\ arrivals' = arrivals /\ fired' = fired
    BY <1>1, QuietMoves
  <2>2. CASE active' = active /\ reason' = reason
    BY <2>1, <2>2 DEF Round, Exhausted
  <2>3. CASE reason' = "run-timeout"
    BY <2>3 DEF Round, Exhausted
  <2>4. CASE \E B : BeginsIn(B)
    <3>1. PICK B : BeginsIn(B)
      BY <2>4
    <3>2. active = {} /\ arrivals[j] = {} /\ ~Exhausted
      BY <3>1 DEF BeginsIn, Unbegun, Exhausted, TypeOK, Ended
    <3>3. B \cap Feeders(Def, j) = {} \/ Feeders(Def, j) \subseteq B
      BY <3>1 DEF BeginsIn, FedTogether, Def
    <3>4. CASE active' = B
      BY <2>1, <3>2, <3>3, <3>4 DEF Round
    <3>5. CASE reason' \in {"max-visits", "max-node-runs"}
      BY <3>5 DEF Round, Exhausted
    <3>6. QED
      BY <3>1, <3>4, <3>5 DEF BeginsIn
  <2>5. QED
    BY <1>1, <2>2, <2>3, <2>4, QuietMoves
<1>2. CASE \E n \in Ids(Def) : AuditStep(n)
  BY <1>2, AuditHears, RoundFeeder, RoundOther DEF StrandInv
<1>3. QED
  BY <1>1, <1>2, AuditSteps

ConcludesInv(R) ==
  /\ active \subseteq R
  /\ \A j \in Joins : Round(j)
  /\ EndsWithOneConclusion

LEMMA ConcludesReport ==
  ASSUME TypeOK, StrandInv, NEW C \in SUBSET Strands(Def), NEW R \in SUBSET Ids(Def),
         ConcludesOnce(plan, C, R), ConcludesInv(R), status \in Live, (\A j \in Joins : Round(j))',
         NEW n \in active, NEW o \in Outcomes(Def.node[n]), Advance(n, o)
  PROVE  active' \subseteq R /\ EndsWithOneConclusion'
<1>0. /\ n \in R /\ n \in Ids(Def) /\ active \subseteq Ids(Def)
      /\ Starts(Def, n, o) \subseteq R
      /\ Emits(Def, n, o) # {} => Alone(Def, C, n) /\ AtMostOne(Matched(Def, n, o))
      /\ Matched(Def, n, o) = {} \/ Emits(Def, n, o) \cap Rejections # {} => o \in Failing
  BY DEF TypeOK, ConcludesOnce, ConcludesInv, Def
<1>1. bindings = {} /\ reason = "none"
  BY DEF ConcludesInv, EndsWithOneConclusion, TypeOK, Live, Ended
<1>2. bindings' = Emits(Def, n, o) /\ active' \subseteq R
  BY <1>0, <1>1, ReportMoves DEF ConcludesInv
<1>3. ASSUME Emits(Def, n, o) # {}
      PROVE  Starting(n, o) = {} /\ active = {n} /\ Cardinality(bindings') = 1
  <2>1. PICK i \in Emitting(Def, n, o) : TRUE
    BY <1>3 DEF Emits
  <2>2. Matched(Def, n, o) = {i} /\ Emitting(Def, n, o) = {i}
    BY <1>0, <1>3, <2>1 DEF Emitting, AtMostOne
  <2>3. Starting(n, o) = {}
    BY <2>1, <2>2 DEF Starting, Emitting, Kind, Target
  <2>4. bindings' = {Def.node[Def.edges[i].to].bindingKey}
    BY <1>2, <2>2 DEF Emits
  <2>5. QED
    BY <1>0, <1>3, <2>3, <2>4, AloneThen, FS_Singleton
<1>4. CASE Starting(n, o) = {} /\ active = {n}
  <2>1. active' = {} /\ reason' \in {"stalled", "emit", "no-edge"}
    BY <1>4, ReportSettles
  <2>2. ~PendingJoin(arrivals', fired')
    <3>1. ~Exhausted'
      BY <2>1 DEF Exhausted
    <3>2. Joins' = Joins
      BY <1>0, ReportMoves DEF Joins
    <3>3. QED
      BY <2>1, <3>1, <3>2 DEF Round, PendingJoin
  <2>3. /\ status' = IF o \in Failing THEN "failed" ELSE "succeeded"
        /\ reason' = IF Matched(Def, n, o) = {} THEN "no-edge" ELSE "emit"
    BY <1>4, <2>2, ReportSettles
  <2>4. QED
    BY <1>0, <1>2, <1>3, <2>3 DEF EndsWithOneConclusion
<1>5. CASE ~(Starting(n, o) = {} /\ active = {n})
  <2>1. status' \in Live \cup {"budget-exhausted"} /\ reason' \in {"none", "max-visits", "max-node-runs"}
    BY <1>1, <1>5, ReportSettles
  <2>2. bindings' = {}
    BY <1>2, <1>3, <1>5
  <2>3. QED
    BY <1>2, <2>1, <2>2 DEF EndsWithOneConclusion, Live
<1>6. QED
  BY <1>4, <1>5

LEMMA ConcludesQuiet ==
  ASSUME TypeOK, Unbegun, NEW R, Beginning(plan) \subseteq R, ConcludesInv(R), Quiet
  PROVE  active' \subseteq R /\ EndsWithOneConclusion'
<1>0. bindings' = bindings /\ active \subseteq R /\ EndsWithOneConclusion
  BY QuietMoves DEF ConcludesInv
<1>1. CASE active' = active /\ status' = status /\ reason' = reason
  BY <1>0, <1>1 DEF EndsWithOneConclusion
<1>2. CASE status \in Live /\ active' = {} /\ status' = "budget-exhausted" /\ reason' = "run-timeout"
  BY <1>0, <1>2 DEF EndsWithOneConclusion, Live
<1>3. CASE \E B : BeginsIn(B)
  <2>1. PICK B : BeginsIn(B)
    BY <1>3
  <2>2. bindings' = {} /\ B \subseteq R
    BY <1>0, <2>1 DEF BeginsIn, Unbegun, Beginning, Def
  <2>3. QED
    BY <2>1, <2>2 DEF BeginsIn, Live, EndsWithOneConclusion
<1>4. QED
  BY <1>1, <1>2, <1>3, QuietMoves

LEMMA ConcludesStep ==
  ASSUME TypeOK, Unbegun, StrandInv, GateInv, NEW C \in SUBSET Strands(Def), NEW R \in SUBSET Ids(Def),
         ConcludesOnce(plan, C, R), ConcludesInv(R), [AuditNext]_<<vars, history>>
  PROVE  ConcludesInv(R)'
<1>0. /\ \A j \in OfKind(Def, "join") : FedTogether(plan, C, j)
      /\ \A g \in OfKind(Def, "human-gate") : Alone(Def, C, g)
      /\ Beginning(plan) \subseteq R
  BY DEF ConcludesOnce, Def
<1>1. Def' = Def /\ Joins' = Joins
  BY AuditSteps, QuietMoves, ReportMoves, AuditHears DEF Joins
<1>2. \A j \in Joins : Round(j)'
  BY <1>0, RoundStep DEF ConcludesInv, Joins
<1>3. (\A j \in Joins : Round(j))'
  BY <1>1, <1>2
<1>4. CASE Quiet /\ UNCHANGED history
  BY <1>0, <1>3, <1>4, ConcludesQuiet DEF ConcludesInv
<1>5. CASE \E n \in Ids(Def) : AuditStep(n)
  <2>1. PICK n \in active : AuditStep(n) /\ status \in Live
    BY <1>5, AuditHears
  <2>2. PICK o \in Outcomes(Def.node[n]) : Advance(n, o)
    BY <1>0, <2>1, AuditSays
  <2>3. QED
    BY <1>3, <2>1, <2>2, ConcludesReport DEF ConcludesInv
<1>6. QED
  BY <1>4, <1>5, AuditSteps

ConclusionInv == \E C \in SUBSET Strands(Def), R \in SUBSET Ids(Def) :
                   ConcludesOnce(plan, C, R) /\ ConcludesInv(R)

(* No branch is stranded before a join and a run says one thing: it ends at  *)
(* one emit, or where a failure has no edge, in every workflow whose         *)
(* branches are started together and lead to their join                      *)
(* (qaap-workflow-ir.ts:827-829, 915-918).                                   *)
THEOREM ConclusionsAreSingle ==
  ASSUME \A p \in Plan : \E C \in SUBSET Strands(p.def), R \in SUBSET Ids(p.def) : ConcludesOnce(p, C, R)
  PROVE  AuditSpec => []EndsWithOneConclusion
<1>1. AuditInit => ConclusionInv
  <2> SUFFICES ASSUME AuditInit
               PROVE  \E C \in SUBSET Strands(Def), R \in SUBSET Ids(Def) :
                        ConcludesOnce(plan, C, R) /\ ConcludesInv(R)
    BY DEF ConclusionInv
  <2>1. /\ plan \in Plan /\ active = {} /\ status = "none" /\ reason = "none" /\ bindings = {} /\ fired = {}
        /\ \A j \in Joins : arrivals[j] = {}
    BY DEF AuditInit, Init
  <2>2. \A R : ConcludesInv(R)
    BY <2>1 DEF ConcludesInv, Round, EndsWithOneConclusion
  <2>3. QED
    BY <2>1, <2>2 DEF Def
<1>2. TypeOK /\ Unbegun /\ StrandInv /\ GateInv /\ ConclusionInv /\ [AuditNext]_<<vars, history>> => ConclusionInv'
  <2> SUFFICES ASSUME TypeOK, Unbegun, StrandInv, GateInv, ConclusionInv, [AuditNext]_<<vars, history>>
               PROVE  ConclusionInv'
    OBVIOUS
  <2>1. plan' = plan /\ Def' = Def
    BY AuditSteps, QuietMoves, ReportMoves, AuditHears, PlanKept
  <2>2. ASSUME NEW C \in SUBSET Strands(Def), NEW R \in SUBSET Ids(Def), ConcludesOnce(plan, C, R) /\ ConcludesInv(R)
        PROVE  ConcludesInv(R)'
    BY <2>2, ConcludesStep
  <2>3. QED
    BY <2>1, <2>2 DEF ConclusionInv
<1>3. ConclusionInv => EndsWithOneConclusion
  BY DEF ConclusionInv, ConcludesInv
<1>4. QED
  BY <1>1, <1>2, <1>3, AuditIsRun, RunTypeCorrect, RunOnStrands, GatesAreAsked, NothingBeforeTheStart,
     PTL DEF AuditSpec
=============================================================================
