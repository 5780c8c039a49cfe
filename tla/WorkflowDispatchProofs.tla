----------------------- MODULE WorkflowDispatchProofs -----------------------
(* The dispatcher moves a run only by the steps of the reducer: whatever     *)
(* threads, crashes, deadlines and runtimes do, the run is a run of          *)
(* WorkflowRun, and what is proved of those holds here.                      *)
EXTENDS WorkflowDispatch, WorkflowRunProofs

LEMMA BookSteps == ASSUME TypeOK, NEW n \in active, NEW o, Book(n, o) PROVE Next
<1>1. n \in Ids(Def)
  BY DEF TypeOK
<1>2. SettleJoin(n) \/ Report(n, o)
  BY DEF Book
<1>3. Report(n, o) => o \in Outcomes(Def.node[n])
  BY DEF Report
<1>4. Step(n)
  BY <1>2, <1>3 DEF Step
<1>5. QED
  BY <1>1, <1>4 DEF Next

LEMMA ToldSteps ==
  ASSUME TypeOK, NEW t, NEW n, NEW o, NEW rest, Told(t, n, o, rest) PROVE [Next]_vars
<1>1. CASE n \in active
  BY <1>1, BookSteps DEF Told
<1>2. CASE n \notin active
  BY <1>2 DEF Told
<1>3. QED
  BY <1>1, <1>2

(* The steps of a thread, by what they do to the run.                        *)
LEMMA StartSteps ==
  ASSUME TypeOK, NEW t, NEW n, NEW x,
         Claim(t, n, x) \/ CreateTurn(t, n, x) \/ CreateJob(t, n, x) \/ StartFails(t, n, x)
  PROVE  [Next]_vars
<1>1. CASE Claim(t, n, x)
  BY <1>1, ToldSteps DEF Claim
<1>2. CASE CreateTurn(t, n, x) \/ CreateJob(t, n, x)
  BY <1>2 DEF CreateTurn, CreateJob
<1>3. CASE StartFails(t, n, x)
  BY <1>3, ToldSteps DEF StartFails
<1>4. QED
  BY <1>1, <1>2, <1>3

LEMMA RecordSteps ==
  ASSUME TypeOK, NEW t, NEW n, NEW w, Complete(t, n, w) \/ Attach(t, n, w)
  PROVE  [Next]_vars
<1>1. CASE Complete(t, n, w)
  BY <1>1, ToldSteps DEF Complete
<1>2. CASE Attach(t, n, w)
  BY <1>2, ToldSteps DEF Attach
<1>3. QED
  BY <1>1, <1>2

LEMMA OtherSteps ==
  ASSUME TypeOK, NEW t, NEW n, NEW w,
         \/ SettleNode(t, n) \/ Replay(t, n) \/ Interrupt(t, n)
         \/ GiveUp(t, n, w) \/ Cancel(t, n, w) \/ LookUp(t, n, w)
  PROVE  [Next]_vars
<1>1. CASE SettleNode(t, n) \/ Interrupt(t, n)
  BY <1>1, ToldSteps DEF SettleNode, Interrupt
<1>2. CASE GiveUp(t, n, w)
  BY <1>2, ToldSteps DEF GiveUp
<1>3. CASE Replay(t, n) \/ Cancel(t, n, w) \/ LookUp(t, n, w)
  BY <1>3 DEF Replay, Cancel, LookUp
<1>4. QED
  BY <1>1, <1>2, <1>3

LEMMA ThreadSteps == ASSUME TypeOK, NEW t, ThreadStep(t) PROVE [Next]_vars
<1>1. PICK item \in Head(t.todo) :
        LET n == item[2] IN
        \/ SettleNode(t, n) \/ Replay(t, n) \/ Interrupt(t, n)
        \/ /\ Len(item) = 3
           /\ \/ Claim(t, n, item[3]) \/ CreateTurn(t, n, item[3]) \/ Complete(t, n, item[3])
              \/ CreateJob(t, n, item[3]) \/ Attach(t, n, item[3]) \/ StartFails(t, n, item[3])
              \/ GiveUp(t, n, item[3]) \/ Cancel(t, n, item[3]) \/ LookUp(t, n, item[3])
  BY DEF ThreadStep
<1>2. CASE \/ Claim(t, item[2], item[3]) \/ CreateTurn(t, item[2], item[3])
           \/ CreateJob(t, item[2], item[3]) \/ StartFails(t, item[2], item[3])
  BY <1>2, StartSteps
<1>3. CASE Complete(t, item[2], item[3]) \/ Attach(t, item[2], item[3])
  BY <1>3, RecordSteps
<1>4. CASE \/ SettleNode(t, item[2]) \/ Replay(t, item[2]) \/ Interrupt(t, item[2])
           \/ GiveUp(t, item[2], item[3]) \/ Cancel(t, item[2], item[3]) \/ LookUp(t, item[2], item[3])
  BY <1>4, OtherSteps
<1>5. QED
  BY <1>1, <1>2, <1>3, <1>4

LEMMA ResumeSteps == ASSUME TypeOK, NEW t, Resume(t) PROVE [Next]_vars
  BY ToldSteps DEF Resume

LEMMA WorkEndsSteps == ASSUME TypeOK, NEW w, NEW o, WorkEnds(w, o) PROVE [Next]_vars
<1>1. CASE w[1] \in active
  BY <1>1, BookSteps DEF WorkEnds
<1>2. CASE w[1] \notin active
  BY <1>2 DEF WorkEnds
<1>3. QED
  BY <1>1, <1>2

(* A cancelled job is a set of the nodes the sweep may find.                 *)
LEMMA SweepRunSteps == ASSUME SweepRun PROVE Next
<1>1. AttachedWork("deterministic") \in SUBSET {n \in active : Kind(n) = "deterministic"}
  BY DEF AttachedWork
<1>2. Sweep
  BY <1>1 DEF SweepRun, Sweep
<1>3. QED
  BY <1>2 DEF Next

LEMMA DispatchSteps == ASSUME TypeOK, [DispatchNext]_allVars PROVE [Next]_vars
<1>1. CASE Launch \/ (Tick /\ UNCHANGED dispatchVars)
  BY <1>1 DEF Launch, Next
<1>2. CASE \E t \in threads : ThreadStep(t) \/ Resume(t)
  BY <1>2, ThreadSteps, ResumeSteps
<1>3. CASE \E w \in Works : \E o \in Outcomes(Def.node[w[1]]) : WorkEnds(w, o)
  BY <1>3, WorkEndsSteps
<1>4. CASE \E n \in doomed : JobCancelled(n)
  BY <1>4, BookSteps DEF JobCancelled
<1>5. CASE RunExpires
  BY <1>5 DEF RunExpires, Next
<1>6. CASE \E n \in Ids(Def) : ContinueGate(n)
  BY <1>6 DEF ContinueGate, Step, Next
<1>7. CASE SweepRun
  BY <1>7, SweepRunSteps
<1>8. CASE \/ \E late \in SUBSET active : SweepNodes(late)
           \/ \E lost, interrupted \in SUBSET Works : Restart(lost, interrupted)
  BY <1>8 DEF SweepNodes, Restart
<1>9. CASE UNCHANGED allVars
  BY <1>9 DEF allVars
<1>10. QED
  BY <1>1, <1>2, <1>3, <1>4, <1>5, <1>6, <1>7, <1>8, <1>9 DEF DispatchNext, Progress

(* The dispatcher implements the reducer: every behaviour of the dispatcher, *)
(* its threads, the runtimes and restarts is, for the run, a behaviour of    *)
(* WorkflowRun (qaap-workflow-dispatcher.ts:386-398,                         *)
(* qaap-workflow-run-store.ts:341-396).                                      *)
THEOREM DispatchImplementsRun == DispatchSpec => Spec
<1>1. DispatchInit => Init /\ TypeOK
  BY InitType DEF DispatchInit
<1>2. TypeOK /\ [DispatchNext]_allVars => [Next]_vars /\ TypeOK'
  BY DispatchSteps, StepType
<1>3. QED
  BY <1>1, <1>2, PTL DEF DispatchSpec, Spec

(* Under the dispatcher too a live run waits for somebody and an ended one   *)
(* for nobody, for every graph and every number of restarts                  *)
(* (qaap-workflow-run.ts:214-256).                                           *)
THEOREM DispatchedRunHasWork == DispatchSpec => []LiveRunHasWork
  BY DispatchImplementsRun, RunHasWork, PTL

(* Nor do replays, retries of a start or late announcements dispatch more    *)
(* than the budget of the run (qaap-workflow-run.ts:42-47).                  *)
THEOREM DispatchedWithinBudget == DispatchSpec => []BudgetRespected
  BY DispatchImplementsRun, RunWithinBudget, PTL

-----------------------------------------------------------------------------
(* What threads still owe                                                    *)

Piece == Ids(Def) \X Nat \X Nat
Making == {"create", "complete", "attach"}
Duty == {"start", "replay", "interrupt"} \cup Making
Item ==
  ({"start", "create"} \X Ids(Def) \X Nat)
    \cup ({"complete", "attach", "look-up"} \X Ids(Def) \X Piece)
    \cup ({"settle", "replay", "interrupt"} \X Ids(Def))

Items(s) == UNION {s[i] : i \in DOMAIN s}

(* An item binds a node if it will answer for it: a duty, or a look at work  *)
(* that its runtime lost.                                                    *)
Binds(W, x) == x[1] \in Duty \/ (x[1] = "look-up" /\ x[3] \notin W)
Binding(W, s) == {x[2] : x \in {x \in Items(s) : Binds(W, x)}}
Once(W, s) ==
  \A i, j \in DOMAIN s : \A x \in s[i], y \in s[j] :
    Binds(W, x) /\ Binds(W, y) /\ x[2] = y[2] => i = j /\ x = y

LEMMA Concatenated ==
  ASSUME NEW X, NEW a \in Seq(SUBSET X), NEW b \in Seq(SUBSET X)
  PROVE  /\ a \o b \in Seq(SUBSET X) /\ DOMAIN (a \o b) \subseteq Int /\ Len(a) \in Int
         /\ \A i \in DOMAIN a : i \in DOMAIN (a \o b) /\ (a \o b)[i] = a[i]
         /\ \A i \in DOMAIN b : Len(a) + i \in DOMAIN (a \o b) /\ (a \o b)[Len(a) + i] = b[i]
         /\ \A i \in DOMAIN (a \o b) :
              \/ i \in DOMAIN a /\ (a \o b)[i] = a[i]
              \/ i - Len(a) \in DOMAIN b /\ (a \o b)[i] = b[i - Len(a)]
OBVIOUS

LEMMA StacksJoin ==
  ASSUME NEW X, NEW a \in Seq(SUBSET X), NEW b \in Seq(SUBSET X)
  PROVE  a \o b \in Seq(SUBSET X) /\ Items(a \o b) = Items(a) \cup Items(b)
<1> DEFINE c == a \o b
<1>1. /\ c \in Seq(SUBSET X)
      /\ \A i \in DOMAIN a : i \in DOMAIN c /\ c[i] = a[i]
      /\ \A i \in DOMAIN b : Len(a) + i \in DOMAIN c /\ c[Len(a) + i] = b[i]
      /\ \A i \in DOMAIN c :
           \/ i \in DOMAIN a /\ c[i] = a[i]
           \/ i - Len(a) \in DOMAIN b /\ c[i] = b[i - Len(a)]
  BY Concatenated
<1> HIDE DEF c
<1>2. ASSUME NEW x \in Items(a) PROVE x \in Items(c)
  <2>1. PICK i \in DOMAIN a : x \in a[i]
    BY <1>2 DEF Items
  <2>2. i \in DOMAIN c /\ x \in c[i]
    BY <1>1, <2>1
  <2>3. QED
    BY <2>2 DEF Items
<1>3. ASSUME NEW x \in Items(b) PROVE x \in Items(c)
  <2>1. PICK i \in DOMAIN b : x \in b[i]
    BY <1>3 DEF Items
  <2>2. Len(a) + i \in DOMAIN c /\ x \in c[Len(a) + i]
    BY <1>1, <2>1
  <2>3. QED
    BY <2>2 DEF Items
<1>4. ASSUME NEW x \in Items(c) PROVE x \in Items(a) \/ x \in Items(b)
  <2>1. PICK i \in DOMAIN c : x \in c[i]
    BY <1>4 DEF Items
  <2>2. \/ i \in DOMAIN a /\ x \in a[i]
        \/ i - Len(a) \in DOMAIN b /\ x \in b[i - Len(a)]
    BY <1>1, <2>1
  <2>3. QED
    BY <2>2 DEF Items
<1>5. QED
  BY <1>1, <1>2, <1>3, <1>4 DEF c

LEMMA OnceJoined ==
  ASSUME NEW X, NEW W, NEW a \in Seq(SUBSET X), NEW b \in Seq(SUBSET X),
         Once(W, a), Once(W, b), Binding(W, a) \cap Binding(W, b) = {}
  PROVE  Once(W, a \o b)
<1> DEFINE c == a \o b
<1>1. /\ DOMAIN c \subseteq Int /\ Len(a) \in Int
      /\ \A i \in DOMAIN c :
           \/ i \in DOMAIN a /\ c[i] = a[i]
           \/ i - Len(a) \in DOMAIN b /\ c[i] = b[i - Len(a)]
  BY Concatenated
<1> HIDE DEF c
<1>2. \A i \in DOMAIN a : \A x \in a[i] : Binds(W, x) => x[2] \in Binding(W, a)
  BY DEF Binding, Items
<1>3. \A i \in DOMAIN b : \A x \in b[i] : Binds(W, x) => x[2] \in Binding(W, b)
  BY DEF Binding, Items
<1>4. ASSUME NEW i \in DOMAIN c, NEW j \in DOMAIN c, NEW x \in c[i], NEW y \in c[j],
             Binds(W, x), Binds(W, y), x[2] = y[2]
      PROVE  i = j /\ x = y
  <2>1. CASE i \in DOMAIN a /\ c[i] = a[i] /\ j \in DOMAIN a /\ c[j] = a[j]
    BY <1>4, <2>1 DEF Once
  <2>2. CASE /\ i - Len(a) \in DOMAIN b /\ c[i] = b[i - Len(a)]
             /\ j - Len(a) \in DOMAIN b /\ c[j] = b[j - Len(a)]
    <3>1. i - Len(a) = j - Len(a) /\ x = y
      BY <1>4, <2>2 DEF Once
    <3>2. QED
      BY <1>1, <3>1
  <2>3. QED
    BY <1>1, <1>2, <1>3, <1>4, <2>1, <2>2
<1>5. QED
  BY <1>4 DEF Once, c

LEMMA LevelFacts ==
  ASSUME NEW X, NEW S \in SUBSET X
  PROVE  /\ Level(S) \in Seq(SUBSET X) /\ Items(Level(S)) = S
         /\ \A W : (\A x, y \in S : Binds(W, x) /\ Binds(W, y) /\ x[2] = y[2] => x = y) => Once(W, Level(S))
<1>1. CASE S = {}
  BY <1>1 DEF Level, Items, Once
<1>2. CASE S # {}
  <2>1. Level(S) = <<S>> /\ S \in SUBSET X
    BY <1>2 DEF Level
  <2>2. <<S>> \in Seq(SUBSET X) /\ DOMAIN <<S>> = {1} /\ <<S>>[1] = S
    OBVIOUS
  <2>3. QED
    BY <2>1, <2>2 DEF Items, Once
<1>3. QED
  BY <1>1, <1>2

(* One item is taken from the first level.                                   *)
LEMMA RestFacts ==
  ASSUME NEW X, NEW s \in Seq(SUBSET X), s # <<>>, NEW item \in Head(s),
         NEW r, r = Level(Head(s) \ {item}) \o Tail(s)
  PROVE  /\ r \in Seq(SUBSET X) /\ Items(r) \subseteq Items(s) /\ item \in Items(s)
         /\ \A W : Once(W, s) => Once(W, r) /\ (Binds(W, item) => item[2] \notin Binding(W, r))
<1> DEFINE a == Level(Head(s) \ {item})
           b == Tail(s)
<1>1. /\ Head(s) = s[1] /\ 1 \in DOMAIN s /\ s[1] \subseteq X /\ b \in Seq(SUBSET X)
      /\ \A i \in DOMAIN b : i + 1 \in DOMAIN s /\ b[i] = s[i + 1] /\ i + 1 # 1 /\ i \in Int
  OBVIOUS
<1>2. /\ a \in Seq(SUBSET X) /\ Items(a) = s[1] \ {item} /\ r = a \o b
      /\ \A W : (\A x, y \in s[1] \ {item} : Binds(W, x) /\ Binds(W, y) /\ x[2] = y[2] => x = y) => Once(W, a)
  BY <1>1, LevelFacts
<1> HIDE DEF a, b
<1>3. r \in Seq(SUBSET X) /\ Items(r) = (s[1] \ {item}) \cup Items(b)
  <2>1. a \in Seq(SUBSET X) /\ b \in Seq(SUBSET X)
    BY <1>1, <1>2
  <2>2. a \o b \in Seq(SUBSET X) /\ Items(a \o b) = Items(a) \cup Items(b)
    BY <2>1, StacksJoin
  <2>3. QED
    BY <1>2, <2>2
<1>4. Items(b) \subseteq Items(s) /\ s[1] \subseteq Items(s)
  BY <1>1 DEF Items
<1>5. ASSUME NEW W, Once(W, s)
      PROVE  Once(W, r) /\ (Binds(W, item) => item[2] \notin Binding(W, r))
  <2>1. Once(W, a)
    <3>1. \A x, y \in s[1] : Binds(W, x) /\ Binds(W, y) /\ x[2] = y[2] => x = y
      BY <1>1, <1>5 DEF Once
    <3>2. QED
      BY <1>2, <3>1
  <2>2. Once(W, b)
    BY <1>1, <1>5 DEF Once
  <2>3. \A x \in s[1], y \in Items(b) : Binds(W, x) /\ Binds(W, y) => x[2] # y[2]
    BY <1>1, <1>5 DEF Once, Items
  <2>4. Binding(W, a) \cap Binding(W, b) = {}
    BY <1>2, <2>3 DEF Binding
  <2>5. Once(W, r)
    <3>1. a \in Seq(SUBSET X) /\ b \in Seq(SUBSET X)
      BY <1>1, <1>2
    <3>2. Once(W, a \o b)
      BY <2>1, <2>2, <2>4, <3>1, OnceJoined
    <3>3. QED
      BY <1>2, <3>2
  <2>6. ASSUME Binds(W, item), NEW y \in Items(r), Binds(W, y) PROVE y[2] # item[2]
    BY <1>1, <1>3, <1>5, <2>3, <2>6 DEF Once
  <2>7. QED
    BY <2>5, <2>6 DEF Binding
<1>6. QED
  BY <1>1, <1>3, <1>4, <1>5

-----------------------------------------------------------------------------
(* What is true of a thread while nothing but its nodes ended the run        *)

Lost(w) == w \notin Works \cup {None, Others}

Holds(x) ==
  /\ x[1] \in Duty => x[2] \in active /\ Dispatchable(x[2]) /\ dispatched[x[2]] = None
  /\ x[1] \in {"start", "create"} => x[3] = visits[x[2]]
  /\ x[1] \in {"complete", "attach"} => x[3] \in Works /\ x[3][1] = x[2] /\ x[3][2] = visits[x[2]]
  /\ x[1] = "look-up" => x[3][1] = x[2] /\ (x[3] \in Works \/ dispatched[x[2]] = x[3])
  /\ x[1] = "settle" => x[2] \in Joins

(* A thread that makes a piece of work does so before anything else.         *)
Resting(s) == \A x \in Items(s) : x[1] \notin Making

Sound(s, w) ==
  /\ s \in Seq(SUBSET Item) /\ w \in {None, Others} \cup Piece
  /\ Once(Works, s) /\ \A x \in Items(s) : Holds(x)
  /\ Lost(w) => dispatched[w[1]] = w /\ w[1] \notin Binding(Works, s)
  /\ \A x \in Items(s) : x[1] \in Making => w = None /\ s[1] = {x}

Bound(s, w) == Binding(Works, s) \cup {v[1] : v \in {v \in {w} : Lost(v)}}

ThreadsOK ==
  /\ \A t \in threads : Alive(t) /\ Sound(t.todo, t.wait)
  /\ \A t, u \in threads : t # u => Bound(t.todo, t.wait) \cap Bound(u.todo, u.wait) = {}

Records ==
  /\ dispatched = [n \in Ids(Def) |-> dispatched[n]]
  /\ \A n \in Ids(Def) : dispatched[n] # None =>
       /\ n \in active /\ Dispatchable(n) /\ dispatched[n] \in Piece
       /\ dispatched[n][1] = n /\ dispatched[n][2] = visits[n]
  /\ swept = "found" =>
       doomed \subseteq active /\ \A n \in doomed : dispatched[n] \in Works /\ ~Running(dispatched[n])

Ends ==
  {"fail", "blocked", "verdict:pass", "verdict:fail", "verdict:inconclusive", "success", "success:warned",
   "resume:restart", "retry:model", "risk:low", "risk:high", "human:continue"}
WorkOK ==
  /\ work \in [Works -> [state : {"live"} \cup Ends, life : Nat]] /\ Works \subseteq Piece /\ life \in Nat
  /\ \A w \in Works : work[w].life <= life

Recording(w) == {<<"complete", w[1], w>>, <<"attach", w[1], w>>}
Attended(w) ==
  \/ dispatched[w[1]] = w
  \/ \E t \in threads : t.todo # <<>> /\ Head(t.todo) \cap Recording(w) # {}
Kept == swept = "no" => \A w \in Works : Running(w) /\ work[w].life = life => Attended(w)

LEMMA PieceFacts == ASSUME NEW w \in Piece PROVE w # None /\ w[1] \in Ids(Def) /\ w[2] \in Nat
BY DEF Piece, None

LEMMA ItemFacts ==
  ASSUME NEW x \in Item
  PROVE  /\ x[1] \in {"start", "create", "complete", "attach", "look-up", "settle", "replay", "interrupt"}
         /\ x[2] \in Ids(Def)
         /\ x[1] \in {"start", "create"} => x[3] \in Nat
         /\ x[1] \in {"complete", "attach", "look-up"} => x[3] \in Piece
BY DEF Item

LEMMA BoundActive ==
  ASSUME Records, NEW s, NEW w, Sound(s, w), NEW m \in Bound(s, w)
  PROVE  m \in active /\ m \in Ids(Def) /\ Dispatchable(m)
<1>1. CASE m \in Binding(Works, s)
  <2>1. PICK x \in Items(s) : Binds(Works, x) /\ m = x[2]
    BY <1>1 DEF Binding
  <2>2. x \in Item /\ Holds(x)
    BY <2>1 DEF Sound, Items
  <2>3. CASE x[1] \in Duty
    BY <2>1, <2>2, <2>3, ItemFacts DEF Holds
  <2>4. CASE x[1] = "look-up" /\ x[3] \notin Works
    <3>1. x[3] # None /\ x[2] \in Ids(Def)
      BY <2>2, <2>4, ItemFacts, PieceFacts
    <3>2. dispatched[x[2]] = x[3]
      BY <2>2, <2>4 DEF Holds
    <3>3. QED
      BY <2>1, <3>1, <3>2 DEF Records
  <2>5. QED
    BY <2>1, <2>3, <2>4 DEF Binds
<1>2. CASE Lost(w) /\ m = w[1]
  <2>1. w \in Piece /\ dispatched[w[1]] = w
    BY <1>2 DEF Sound, Lost
  <2>2. QED
    BY <1>2, <2>1, PieceFacts DEF Records
<1>3. QED
  BY <1>1, <1>2 DEF Bound

LEMMA ConstantsKept == ASSUME plan' = plan PROVE Def' = Def /\ Item' = Item /\ Piece' = Piece /\ Joins' = Joins
BY PlanKept DEF Item, Piece

LEMMA SoundKept ==
  ASSUME plan' = plan, Works \subseteq Works', NEW s, NEW w, Sound(s, w),
         \A m \in Bound(s, w) : m \in active' /\ visits'[m] = visits[m] /\ dispatched'[m] = dispatched[m]
  PROVE  Sound(s, w)' /\ Bound(s, w)' \subseteq Bound(s, w)
<1>1. Def' = Def /\ Item' = Item /\ Piece' = Piece /\ Joins' = Joins
  BY ConstantsKept
<1>2. \A x : Binds(Works', x) => Binds(Works, x)
  BY DEF Binds
<1>3. Binding(Works', s) \subseteq Binding(Works, s) /\ Once(Works', s)
  BY <1>2 DEF Binding, Sound, Once
<1>4. Lost(w)' => Lost(w)
  BY DEF Lost
<1>5. ASSUME NEW x \in Items(s) PROVE Holds(x)'
  <2>1. x \in Item /\ Holds(x)
    BY <1>5 DEF Sound, Items
  <2>2. Binds(Works, x) => x[2] \in active' /\ visits'[x[2]] = visits[x[2]] /\ dispatched'[x[2]] = dispatched[x[2]]
    BY <1>5 DEF Bound, Binding
  <2>3. x[1] \in Duty => x[2] \in active' /\ visits'[x[2]] = visits[x[2]] /\ dispatched'[x[2]] = dispatched[x[2]]
    BY <2>2 DEF Binds
  <2>4. x[1] = "look-up" => x[3][1] = x[2] /\ (x[3] \in Works' \/ dispatched'[x[2]] = x[3])
    BY <2>1, <2>2 DEF Binds, Holds
  <2>5. {"start", "create", "complete", "attach"} \subseteq Duty
    BY DEF Duty, Making
  <2>6. QED
    BY <1>1, <2>1, <2>3, <2>4, <2>5 DEF Holds, Dispatchable, Kind
<1>6. Lost(w)' => dispatched'[w[1]] = w /\ w[1] \notin Binding(Works', s)
  BY <1>3, <1>4 DEF Sound, Bound
<1>7. Sound(s, w)'
  BY <1>1, <1>3, <1>5, <1>6 DEF Sound
<1>8. QED
  BY <1>3, <1>4, <1>7 DEF Bound

(* One thread makes a step, or a new one begins.                             *)
LEMMA ThreadsKept ==
  ASSUME plan' = plan, Works \subseteq Works', ThreadsOK, NEW base \in SUBSET threads, NEW s, NEW w,
         threads' = base \cup {u \in {Thread(s, w)} : Alive(u)},
         \A t \in base : \A m \in Bound(t.todo, t.wait) :
           m \in active' /\ visits'[m] = visits[m] /\ dispatched'[m] = dispatched[m],
         Sound(s, w)', \A t \in base : Bound(t.todo, t.wait) \cap Bound(s, w)' = {}
  PROVE  ThreadsOK'
<1>1. \A t \in base : Sound(t.todo, t.wait)' /\ Bound(t.todo, t.wait)' \subseteq Bound(t.todo, t.wait)
  BY SoundKept DEF ThreadsOK
<1>2. \A t \in threads' : t \in base \/ (t.todo = s /\ t.wait = w /\ t = Thread(s, w) /\ Alive(t))
  BY DEF Thread
<1>3. QED
  BY <1>1, <1>2 DEF ThreadsOK, Alive

(* What is left of a thread when an item is taken from it.                   *)
LEMMA RestSound ==
  ASSUME ThreadsOK, NEW t \in threads, NEW item, Has(t, item), NEW r, r = After(t, item)
  PROVE  /\ item \in Item /\ Holds(item) /\ t.wait = None /\ t.todo # <<>>
         /\ Sound(r, None) /\ Resting(r) /\ Bound(r, None) \subseteq Bound(t.todo, t.wait)
         /\ Binds(Works, item) => item[2] \in Bound(t.todo, t.wait) /\ item[2] \notin Bound(r, None)
         /\ \A x \in Items(t.todo) : x[1] \in Making => x = item
<1> DEFINE s == t.todo
<1>1. /\ t.wait = None /\ item \in Head(s) /\ s # <<>> /\ Sound(s, None)
      /\ r = Level(Head(s) \ {item}) \o Tail(s) /\ s \in Seq(SUBSET Item)
  BY DEF Has, Ready, ThreadsOK, Alive, After, Sound
<1> HIDE DEF s
<1>2. /\ r \in Seq(SUBSET Item) /\ Items(r) \subseteq Items(s) /\ item \in Items(s)
      /\ Once(Works, r) /\ (Binds(Works, item) => item[2] \notin Binding(Works, r))
  BY <1>1, RestFacts DEF Sound
<1>3. item \in Item /\ Holds(item) /\ \A x \in Items(r) : Holds(x)
  <2>1. \A x \in Items(s) : Holds(x)
    BY <1>1 DEF Sound
  <2>2. \A i \in DOMAIN s : s[i] \subseteq Item
    BY <1>1
  <2>3. Items(s) \subseteq Item
    BY <2>2, Zenon DEF Items
  <2>4. QED
    BY <1>2, <2>1, <2>3
<1>4. \A x \in Items(s) : x[1] \in Making => x = item
  <2>1. Head(s) = s[1]
    BY <1>1
  <2>2. QED
    BY <1>1, <2>1 DEF Sound
<1>5. Resting(r)
  <2>1. item[1] \in Making => Binds(Works, item)
    BY DEF Binds, Duty
  <2>2. item[1] \in Making => item \notin Items(r)
    BY <1>2, <2>1 DEF Binding
  <2>3. QED
    BY <1>2, <1>4, <2>2 DEF Resting
<1>6. ~Lost(None)
  BY DEF Lost
<1>7. Sound(r, None)
  BY <1>2, <1>3, <1>5, <1>6 DEF Sound, Resting
<1>8. Binding(Works, r) \subseteq Binding(Works, s)
  BY <1>2 DEF Binding
<1>9. Bound(r, None) \subseteq Bound(s, t.wait) /\ (Binds(Works, item) => item[2] \in Bound(s, t.wait))
  BY <1>2, <1>6, <1>8 DEF Bound, Binding
<1>10. QED
  BY <1>1, <1>2, <1>3, <1>4, <1>5, <1>6, <1>7, <1>9 DEF Bound, s
-----------------------------------------------------------------------------
(* How a step changes the threads                                            *)

LEMMA PushFacts ==
  ASSUME NEW X, NEW W, NEW y \in X, NEW r \in Seq(SUBSET X), Once(W, r), y[2] \notin Binding(W, r),
         NEW s, s = Level({y}) \o r
  PROVE  /\ s \in Seq(SUBSET X) /\ s[1] = {y} /\ Items(s) \subseteq {y} \cup Items(r)
         /\ Once(W, s) /\ Binding(W, s) \subseteq {y[2]} \cup Binding(W, r)
<1> DEFINE a == Level({y})
<1>1. a = <<{y}>> /\ {y} \in SUBSET X
  BY DEF Level
<1>2. a \in Seq(SUBSET X) /\ Items(a) = {y} /\ Once(W, a)
  BY <1>1, LevelFacts
<1>3. 1 \in DOMAIN a /\ a[1] = {y}
  <2>1. 1 \in DOMAIN <<{y}>> /\ <<{y}>>[1] = {y}
    OBVIOUS
  <2>2. QED
    BY <1>1, <2>1
<1> HIDE DEF a
<1>4. s = a \o r
  BY DEF a
<1>5. s \in Seq(SUBSET X) /\ Items(s) \subseteq {y} \cup Items(r) /\ s[1] = {y}
  <2>1. a \o r \in Seq(SUBSET X) /\ Items(a \o r) = Items(a) \cup Items(r)
    BY <1>2, StacksJoin
  <2>2. \A i \in DOMAIN a : (a \o r)[i] = a[i]
    BY <1>2, Concatenated
  <2>3. QED
    BY <1>2, <1>3, <1>4, <2>1, <2>2
<1>6. Binding(W, a) \cap Binding(W, r) = {}
  BY <1>2 DEF Binding
<1>7. Once(W, s)
  <2>1. Once(W, a \o r)
    BY <1>2, <1>6, OnceJoined
  <2>2. QED
    BY <1>4, <2>1
<1>8. QED
  BY <1>5, <1>7 DEF Binding

(* An item is replaced by the next thing to do for its node.                 *)
LEMMA PushStep ==
  ASSUME plan' = plan, active' = active, visits' = visits, dispatched' = dispatched,
         Works \subseteq Works', ThreadsOK, Records,
         NEW t \in threads, NEW item, Has(t, item), item[1] \in Duty,
         NEW y \in Item, y[1] \in Duty, y[2] = item[2], Holds(y)',
         Goes(t, <<{y}>> \o After(t, item), None)
  PROVE  ThreadsOK'
<1> DEFINE r == After(t, item)
           s == Level({y}) \o r
           base == threads \ {t}
<1>1. /\ Sound(r, None) /\ Resting(r) /\ Bound(r, None) \subseteq Bound(t.todo, t.wait)
      /\ item[2] \in Bound(t.todo, t.wait) /\ item[2] \notin Bound(r, None)
  BY RestSound DEF Binds
<1>2. threads' = base \cup {u \in {Thread(s, None)} : Alive(u)} /\ base \in SUBSET threads
  BY DEF Goes, Level
<1>3. s = Level({y}) \o r
  OBVIOUS
<1> HIDE DEF r, s
<1>4. Sound(r, None)' /\ Bound(r, None)' \subseteq Bound(r, None)
  <2>1. \A m \in Bound(r, None) : m \in active'
    BY <1>1, BoundActive
  <2>2. QED
    BY <1>1, <2>1, SoundKept
<1>5. /\ r \in Seq(SUBSET Item) /\ Once(Works', r) /\ y[2] \notin Binding(Works', r)
      /\ \A x \in Items(r) : Holds(x)'
  BY <1>1, <1>4, ConstantsKept DEF Sound, Bound
<1>6. /\ s \in Seq(SUBSET Item) /\ s[1] = {y} /\ Items(s) \subseteq {y} \cup Items(r)
      /\ Once(Works', s) /\ Binding(Works', s) \subseteq {y[2]} \cup Binding(Works', r)
  BY <1>3, <1>5, PushFacts
<1>7. ~Lost(None)'
  BY DEF Lost
<1>8. Sound(s, None)'
  BY <1>1, <1>5, <1>6, <1>7, ConstantsKept DEF Sound, Resting
<1>9. Bound(s, None)' \subseteq Bound(t.todo, t.wait)
  BY <1>1, <1>4, <1>6, <1>7 DEF Bound
<1>10. \A u \in base : Bound(u.todo, u.wait) \cap Bound(s, None)' = {}
  BY <1>9 DEF ThreadsOK
<1>11. \A u \in base : \A m \in Bound(u.todo, u.wait) :
         m \in active' /\ visits'[m] = visits[m] /\ dispatched'[m] = dispatched[m]
  BY BoundActive DEF ThreadsOK
<1> HIDE DEF base
<1>12. QED
  BY <1>2, <1>8, <1>10, <1>11, ThreadsKept

(* An item is done with; the thread may wait for a piece of work.            *)
LEMMA PopStep ==
  ASSUME plan' = plan, active' = active, visits' = visits, Works \subseteq Works', ThreadsOK, Records,
         NEW t \in threads, NEW item, Has(t, item), NEW w \in {None, Others} \cup Piece,
         \/ dispatched' = dispatched
         \/ Binds(Works, item) /\ \A m \in Ids(Def) : m # item[2] => dispatched'[m] = dispatched[m],
         Lost(w)' => Binds(Works, item) /\ w[1] = item[2] /\ dispatched'[w[1]] = w,
         Goes(t, After(t, item), w)
  PROVE  ThreadsOK'
<1> DEFINE r == After(t, item)
           base == threads \ {t}
<1>1. /\ Sound(r, None) /\ Resting(r) /\ Bound(r, None) \subseteq Bound(t.todo, t.wait)
      /\ Binds(Works, item) => item[2] \in Bound(t.todo, t.wait) /\ item[2] \notin Bound(r, None)
  BY RestSound
<1>2. threads' = base \cup {u \in {Thread(r, w)} : Alive(u)} /\ base \in SUBSET threads
  BY DEF Goes
<1> HIDE DEF r
<1>3. \A m \in Bound(r, None) : m \in active /\ m \in Ids(Def) /\ (Binds(Works, item) => m # item[2])
  BY <1>1, BoundActive
<1>4. \A m \in Bound(r, None) : m \in active' /\ visits'[m] = visits[m] /\ dispatched'[m] = dispatched[m]
  BY <1>3
<1>5. Sound(r, None)' /\ Bound(r, None)' \subseteq Bound(r, None)
  BY <1>1, <1>4, SoundKept
<1>6. /\ Binding(Works', r) \subseteq Bound(r, None)
      /\ Lost(w)' => w[1] \in Bound(t.todo, t.wait) /\ w[1] \notin Binding(Works', r)
  BY <1>1, <1>5 DEF Bound
<1>7. Sound(r, w)'
  BY <1>1, <1>5, <1>6, ConstantsKept DEF Sound, Resting
<1>8. Bound(r, w)' \subseteq Bound(t.todo, t.wait)
  BY <1>1, <1>6 DEF Bound
<1>9. \A u \in base : Bound(u.todo, u.wait) \cap Bound(t.todo, t.wait) = {}
  BY DEF ThreadsOK
<1>10. \A u \in base : \A m \in Bound(u.todo, u.wait) :
         m \in active' /\ visits'[m] = visits[m] /\ dispatched'[m] = dispatched[m]
  <2>1. \A u \in base : \A m \in Bound(u.todo, u.wait) : m \in active /\ m \in Ids(Def)
    BY BoundActive DEF ThreadsOK
  <2>2. \A u \in base : \A m \in Bound(u.todo, u.wait) : Binds(Works, item) => m # item[2]
    BY <1>1, <1>9
  <2>3. QED
    BY <2>1, <2>2
<1>11. \A u \in base : Bound(u.todo, u.wait) \cap Bound(r, w)' = {}
  BY <1>8, <1>9
<1> HIDE DEF base
<1>12. QED
  BY <1>2, <1>7, <1>10, <1>11, ThreadsKept

(* A thread goes on after a wait that came to nothing.                       *)
LEMMA WokenStep ==
  ASSUME plan' = plan, active' = active, visits' = visits, dispatched' = dispatched, Works' = Works,
         ThreadsOK, Records, NEW t \in threads, Goes(t, t.todo, None)
  PROVE  ThreadsOK'
<1> DEFINE s == t.todo
           base == threads \ {t}
<1>1. Sound(s, t.wait)
  BY DEF ThreadsOK
<1>2. threads' = base \cup {u \in {Thread(s, None)} : Alive(u)} /\ base \in SUBSET threads
  BY DEF Goes
<1>3. Sound(s, t.wait)' /\ Bound(s, t.wait)' \subseteq Bound(s, t.wait)
  <2>1. \A m \in Bound(s, t.wait) : m \in active'
    BY <1>1, BoundActive
  <2>2. QED
    BY <1>1, <2>1, SoundKept
<1> HIDE DEF s
<1>4. ~Lost(None)'
  BY DEF Lost
<1>5. Sound(s, None)' /\ Bound(s, None)' \subseteq Bound(s, t.wait)
  BY <1>3, <1>4 DEF Sound, Bound
<1>6. \A u \in base : Bound(u.todo, u.wait) \cap Bound(s, None)' = {}
  BY <1>5 DEF ThreadsOK, s
<1>7. \A u \in base : \A m \in Bound(u.todo, u.wait) :
         m \in active' /\ visits'[m] = visits[m] /\ dispatched'[m] = dispatched[m]
  BY BoundActive DEF ThreadsOK
<1> HIDE DEF base
<1>8. QED
  BY <1>2, <1>5, <1>6, <1>7, ThreadsKept

(* Threads stay as they are; one may be added that only waits for work.      *)
LEMMA AddedStep ==
  ASSUME plan' = plan, Works \subseteq Works', ThreadsOK, NEW w \in {None} \cup Works', w = None \/ w \in Piece,
         threads' = threads \cup {u \in {Thread(<<>>, w)} : Alive(u)},
         \A t \in threads : \A m \in Bound(t.todo, t.wait) :
           m \in active' /\ visits'[m] = visits[m] /\ dispatched'[m] = dispatched[m]
  PROVE  ThreadsOK'
<1>1. ~Lost(w)'
  BY DEF Lost
<1>2. Items(<<>>) = {} /\ <<>> \in Seq(SUBSET Item) /\ \A W : Once(W, <<>>)
  BY DEF Items, Once
<1>3. Sound(<<>>, w)'
  BY <1>1, <1>2, ConstantsKept DEF Sound
<1>4. Bound(<<>>, w)' = {}
  BY <1>1, <1>2 DEF Bound, Binding
<1>5. threads \in SUBSET threads /\ \A t \in threads : Bound(t.todo, t.wait) \cap Bound(<<>>, w)' = {}
  BY <1>4
<1>6. QED
  BY <1>3, <1>5, ThreadsKept

-----------------------------------------------------------------------------
(* Reports                                                                   *)

(* What was not ended by a limit leaves every other branch where it is and   *)
(* starts only what was not active.                                          *)
LEMMA ReportKeeps ==
  ASSUME TypeOK, StrandInv, OnStrands(Def), status \in Live, NEW n \in active, NEW o \in Heard(Def, n),
         Advance(n, o), ~Exhausted'
  PROVE  /\ plan' = plan /\ visits' \in [Ids(Def) -> Nat] /\ swept' = swept /\ doomed' = doomed \ {n}
         /\ \A m \in active \ {n} : m \in active' /\ visits'[m] = visits[m]
         /\ \A m \in Ids(Def) : visits'[m] > visits[m] /\ active' # {} => m \in active' /\ m \notin active \ {n}
<1>1. n \in Ids(Def) /\ active \subseteq Ids(Def)
  BY DEF TypeOK
<1>2. TypeOK' /\ plan' = plan /\ Ids(Def)' = Ids(Def)
  BY <1>1, AdvanceType, AdvanceJoins, PlanKept
<1>3. \A m \in active \ {n} : visits'[m] = visits[m]
  BY AdvanceOnce
<1>4. \A m \in active \ {n} : m \in active'
  BY <1>1, AdvanceStarts DEF Exhausted
<1>5. \A m \in Ids(Def) : visits'[m] > visits[m] /\ active' # {} => m \in active'
  BY <1>1, AdvanceStarts
<1>6. QED
  BY <1>1, <1>2, <1>3, <1>4, <1>5, AdvanceJoins DEF TypeOK

LEMMA BookHears ==
  ASSUME NEW n \in active, NEW o, Book(n, o)
  PROVE  /\ status \in Live /\ dispatched' = [dispatched EXCEPT ![n] = None]
         /\ \E r \in Heard(Def, n) : Advance(n, r)
<1>1. Step(n) /\ dispatched' = [dispatched EXCEPT ![n] = None]
  BY DEF Book, Step, Report, SettleJoin
<1>2. QED
  BY <1>1, StepHears

(* The items a report starts with are about nodes that were not active, and  *)
(* of which no work is on record.                                            *)
LEMMA ReleasedFacts ==
  ASSUME TypeOK, plan' = plan, visits' \in [Ids(Def) -> Nat], NEW K,
         \A m \in Ids(Def) : visits'[m] > visits[m] /\ active' # {} =>
           m \in active' /\ m \notin K /\ dispatched'[m] = None,
         NEW s, s = Released
  PROVE  /\ s \in Seq(SUBSET Item) /\ Resting(s) /\ \A W : Once(W, s) /\ Binding(W, s) \cap K = {}
         /\ \A x \in Items(s) : Holds(x)'
<1> DEFINE new == IF active' = {} THEN {} ELSE {m \in Ids(Def) : visits'[m] > visits[m]}
           A == {<<"start", m, visits'[m]>> : m \in {m \in new : Dispatchable(m)}}
           B == {<<"settle", m>> : m \in new \cap Joins}
           a == Level(A)
           b == Level(B)
<1>1. \A m \in new : m \in Ids(Def) /\ m \in active' /\ m \notin K /\ dispatched'[m] = None /\ visits'[m] \in Nat
  OBVIOUS
<1>2. A \in SUBSET Item /\ B \in SUBSET Item
  <2>1. \A m \in new : <<"start", m, visits'[m]>> \in {"start", "create"} \X Ids(Def) \X Nat
    BY <1>1
  <2>2. \A m \in new : <<"settle", m>> \in {"settle", "replay", "interrupt"} \X Ids(Def)
    BY <1>1
  <2>3. \A m \in new : <<"start", m, visits'[m]>> \in Item /\ <<"settle", m>> \in Item
    BY <2>1, <2>2 DEF Item
  <2>4. QED
    BY <2>3
<1>3. s = a \o b
  BY DEF Released
<1>4. /\ \A x \in A : x[1] = "start" /\ x[2] \in new /\ Dispatchable(x[2]) /\ x = <<"start", x[2], visits'[x[2]]>>
                      /\ x[3] = visits'[x[2]]
      /\ \A x \in B : x[1] = "settle" /\ x[2] \in Joins
  OBVIOUS
<1> HIDE DEF new, A, B
<1>5. a \in Seq(SUBSET Item) /\ Items(a) = A /\ b \in Seq(SUBSET Item) /\ Items(b) = B
  BY <1>2, LevelFacts
<1>6. \A W : Once(W, a) /\ Once(W, b)
  <2>1. \A W : \A x, y \in A : Binds(W, x) /\ Binds(W, y) /\ x[2] = y[2] => x = y
    BY <1>4
  <2>2. \A W : \A x, y \in B : Binds(W, x) /\ Binds(W, y) /\ x[2] = y[2] => x = y
    BY <1>4 DEF Binds, Duty, Making
  <2>3. QED
    BY <1>2, <2>1, <2>2, LevelFacts
<1> HIDE DEF a, b
<1>7. s \in Seq(SUBSET Item) /\ \A x \in Items(s) : x \in A \/ x \in B
  <2>1. a \o b \in Seq(SUBSET Item) /\ Items(a \o b) = Items(a) \cup Items(b)
    BY <1>5, StacksJoin
  <2>2. QED
    BY <1>3, <1>5, <2>1
<1>8. \A W : Binding(W, b) = {}
  BY <1>4, <1>5 DEF Binding, Binds, Duty, Making
<1>9. \A W : Once(W, s)
  <2>1. \A W : Once(W, a \o b)
    BY <1>5, <1>6, <1>8, OnceJoined
  <2>2. QED
    BY <1>3, <2>1
<1>10. \A W : Binding(W, s) \cap K = {}
  BY <1>1, <1>4, <1>7 DEF Binding, Binds, Duty, Making
<1>11. Resting(s)
  BY <1>4, <1>7 DEF Resting, Making
<1>12. \A x \in Items(s) : Holds(x)'
  <2>1. Def' = Def /\ Joins' = Joins
    BY ConstantsKept
  <2>2. \A x \in A : x[1] = "start" /\ x[2] \in active' /\ Dispatchable(x[2])' /\ dispatched'[x[2]] = None
                     /\ x[3] = visits'[x[2]]
    BY <1>1, <1>4, <2>1 DEF Dispatchable, Kind
  <2>3. \A x \in B : x[1] = "settle" /\ x[2] \in Joins'
    BY <1>4, <2>1
  <2>4. QED
    BY <1>7, <2>2, <2>3 DEF Holds, Duty, Making
<1>13. QED
  BY <1>7, <1>9, <1>10, <1>11, <1>12

(* Nobody else answers for a node whose work its runtime still has.          *)
LEMMA RecordedFree ==
  ASSUME NEW s, NEW w, Sound(s, w), NEW n, dispatched[n] \in Works, None \notin Works
  PROVE  n \notin Bound(s, w)
<1>1. ASSUME NEW x \in Items(s), Binds(Works, x), x[2] = n PROVE FALSE
  <2>1. Holds(x)
    BY <1>1 DEF Sound
  <2>2. QED
    BY <1>1, <2>1 DEF Holds, Binds
<1>2. ~(Lost(w) /\ w[1] = n)
  BY DEF Sound, Lost
<1>3. QED
  BY <1>1, <1>2 DEF Bound, Binding

LEMMA ReportRecords ==
  ASSUME TypeOK, StrandInv, OnStrands(Def), Records, status \in Live, NEW n \in active, NEW o \in Heard(Def, n),
         Advance(n, o), dispatched' = [dispatched EXCEPT ![n] = None], ~Exhausted',
         Works \subseteq Works', \A w \in Works : Running(w)' => Running(w)
  PROVE  Records'
<1>1. /\ plan' = plan /\ swept' = swept /\ doomed' = doomed \ {n}
      /\ \A m \in active \ {n} : m \in active' /\ visits'[m] = visits[m]
  BY ReportKeeps
<1>2. n \in Ids(Def) /\ Ids(Def)' = Ids(Def) /\ \A m : Dispatchable(m)' <=> Dispatchable(m)
  BY <1>1, PlanKept DEF TypeOK, Dispatchable, Kind
<1>3. dispatched' = [m \in Ids(Def) |-> IF m = n THEN None ELSE dispatched[m]]
  BY DEF Records
<1>4. dispatched' = [m \in Ids(Def)' |-> dispatched'[m]]
  BY <1>2, <1>3
<1>5. Piece' = Piece
  BY <1>1, ConstantsKept
<1>6. ASSUME NEW m \in Ids(Def)', dispatched'[m] # None
      PROVE  /\ m \in active' /\ Dispatchable(m)' /\ dispatched'[m] \in Piece'
             /\ dispatched'[m][1] = m /\ dispatched'[m][2] = visits'[m]
  <2>1. m \in Ids(Def) /\ m # n /\ dispatched'[m] = dispatched[m]
    BY <1>2, <1>3, <1>6
  <2>2. /\ m \in active /\ Dispatchable(m) /\ dispatched[m] \in Piece
        /\ dispatched[m][1] = m /\ dispatched[m][2] = visits[m]
    BY <1>6, <2>1 DEF Records
  <2>3. QED
    BY <1>1, <1>2, <1>5, <2>1, <2>2
<1>7. ASSUME swept' = "found"
      PROVE  doomed' \subseteq active' /\ \A m \in doomed' : dispatched'[m] \in Works' /\ ~Running(dispatched[m])'
  <2>1. doomed \subseteq active /\ \A m \in doomed : dispatched[m] \in Works /\ ~Running(dispatched[m])
    BY <1>1, <1>7 DEF Records
  <2>2. \A m \in doomed' : m \in active \ {n} /\ m \in Ids(Def) /\ dispatched'[m] = dispatched[m]
    BY <1>1, <1>3, <2>1 DEF TypeOK
  <2>3. \A w \in Works : ~Running(w) => w \in Works' /\ ~(w \in Works' /\ work'[w].state = "live")
    BY DEF Running
  <2>4. QED
    BY <1>1, <2>1, <2>2, <2>3 DEF Running
<1>8. QED
  BY <1>4, <1>6, <1>7 DEF Records

(* A report of one thread, or of none of them.                               *)
LEMMA ReportThreads ==
  ASSUME TypeOK, StrandInv, OnStrands(Def), Records, ThreadsOK, status \in Live, NEW n \in active,
         NEW o \in Heard(Def, n), Advance(n, o), dispatched' = [dispatched EXCEPT ![n] = None], ~Exhausted',
         Works \subseteq Works', NEW base \in SUBSET threads, NEW r, Sound(r, None), Resting(r),
         n \notin Bound(r, None),
         \A t \in base : n \notin Bound(t.todo, t.wait) /\ Bound(t.todo, t.wait) \cap Bound(r, None) = {},
         NEW s, s = Released, threads' = base \cup {u \in {Thread(s \o r, None)} : Alive(u)}
  PROVE  ThreadsOK'
<1>1. /\ plan' = plan /\ visits' \in [Ids(Def) -> Nat]
      /\ \A m \in active \ {n} : m \in active' /\ visits'[m] = visits[m]
      /\ \A m \in Ids(Def) : visits'[m] > visits[m] /\ active' # {} => m \in active' /\ m \notin active \ {n}
  BY ReportKeeps
<1>2. dispatched' = [m \in Ids(Def) |-> IF m = n THEN None ELSE dispatched[m]]
  BY DEF Records
<1>3. \A m \in active \ {n} : m \in active' /\ visits'[m] = visits[m] /\ dispatched'[m] = dispatched[m]
  BY <1>1, <1>2 DEF TypeOK
<1>4. /\ s \in Seq(SUBSET Item) /\ Resting(s) /\ \A W : Once(W, s) /\ Binding(W, s) \cap (active \ {n}) = {}
      /\ \A x \in Items(s) : Holds(x)'
  <2>1. \A m \in Ids(Def) : visits'[m] > visits[m] /\ active' # {} =>
          m \in active' /\ m \notin active \ {n} /\ dispatched'[m] = None
    BY <1>1, <1>2 DEF Records
  <2>2. QED
    BY <1>1, <2>1, ReleasedFacts
<1>5. Bound(r, None) \subseteq active \ {n}
  BY BoundActive
<1>6. Sound(r, None)' /\ Bound(r, None)' \subseteq Bound(r, None)
  <2>1. \A m \in Bound(r, None) : m \in active' /\ visits'[m] = visits[m] /\ dispatched'[m] = dispatched[m]
    BY <1>3, <1>5
  <2>2. QED
    BY <1>1, <2>1, SoundKept
<1>7. /\ r \in Seq(SUBSET Item) /\ Once(Works', r) /\ \A x \in Items(r) : Holds(x)'
      /\ Binding(Works', r) \subseteq Bound(r, None)
  BY <1>1, <1>6, ConstantsKept DEF Sound, Bound
<1> DEFINE c == s \o r
<1>8. c \in Seq(SUBSET Item) /\ \A x \in Items(c) : x \in Items(s) \/ x \in Items(r)
  BY <1>4, <1>7, StacksJoin
<1>9. Once(Works', c)
  <2>1. Binding(Works', s) \cap Binding(Works', r) = {}
    BY <1>4, <1>5, <1>7
  <2>2. QED
    BY <1>4, <1>7, <2>1, OnceJoined
<1> HIDE DEF c
<1>10. ~Lost(None)'
  BY DEF Lost
<1>11. Sound(c, None)'
  BY <1>1, <1>4, <1>7, <1>8, <1>9, <1>10, ConstantsKept DEF Sound, Resting
<1>12. \A m \in Bound(c, None)' : m \in Binding(Works', s) \/ m \in Bound(r, None)
  BY <1>7, <1>8, <1>10 DEF Bound, Binding
<1>13. \A t \in base : Bound(t.todo, t.wait) \subseteq active \ {n}
  BY BoundActive DEF ThreadsOK
<1>14. \A t \in base : \A m \in Bound(t.todo, t.wait) :
         m \in active' /\ visits'[m] = visits[m] /\ dispatched'[m] = dispatched[m]
  BY <1>3, <1>13
<1>15. \A t \in base : Bound(t.todo, t.wait) \cap Bound(c, None)' = {}
  BY <1>4, <1>12, <1>13
<1>16. threads' = base \cup {u \in {Thread(c, None)} : Alive(u)}
  BY DEF c
<1>17. QED
  BY <1>1, <1>11, <1>14, <1>15, <1>16, ThreadsKept

-----------------------------------------------------------------------------
(* What every step of the dispatcher keeps                                   *)

(* What is known of the run, and the shape of its graph.                     *)
Grounds ==
  /\ TypeOK /\ LiveRunHasWork /\ StrandInv /\ GateInv
  /\ OnStrands(Def) /\ GatesStandAlone(Def)
Duties == ThreadsOK /\ Records /\ WorkOK

LEMMA OutcomesEnd == ASSUME NEW x, NEW o \in Outcomes(x) PROVE o \in Ends
<1>1. Outcomes(x) \subseteq AgentOutcomes(x) \cup DeterministicOutcomes(x) \cup {"success", "human:continue"}
  BY DEF Outcomes
<1>2. QED
  BY <1>1 DEF AgentOutcomes, DeterministicOutcomes, Ends

(* Nothing runs that did not run.                                            *)
Calm == /\ Works \subseteq Works' /\ \A w \in Works : Running(w)' => Running(w)

LEMMA EndFacts ==
  ASSUME WorkOK, plan' = plan, life' = life, NEW S, NEW o \in Ends,
         work' = [v \in Works |-> IF v \in S THEN [work[v] EXCEPT !.state = o] ELSE work[v]]
  PROVE  /\ WorkOK' /\ Works' = Works /\ Calm
         /\ \A v \in Works : work'[v].life = work[v].life
         /\ \A v \in S : ~Running(v)'
<1>1. Piece' = Piece
  BY ConstantsKept
<1>2. Works' = Works
  BY DEF Works
<1>3. \A v \in Works : work'[v] = IF v \in S THEN [work[v] EXCEPT !.state = o] ELSE work[v]
  OBVIOUS
<1>4. \A v \in Works : work[v] \in [state : {"live"} \cup Ends, life : Nat]
  BY DEF WorkOK
<1>5. \A r \in [state : {"live"} \cup Ends, life : Nat] :
        /\ [r EXCEPT !.state = o] \in [state : {"live"} \cup Ends, life : Nat]
        /\ [r EXCEPT !.state = o].life = r.life /\ [r EXCEPT !.state = o].state = o
  OBVIOUS
<1>6. \A v \in Works : /\ work'[v].life = work[v].life /\ work'[v] \in [state : {"live"} \cup Ends, life : Nat]
                       /\ v \in S => work'[v].state = o
                       /\ v \notin S => work'[v] = work[v]
  BY <1>3, <1>4, <1>5
<1>7. work' \in [Works' -> [state : {"live"} \cup Ends, life : Nat]]
  BY <1>2, <1>6
<1>8. o # "live"
  BY DEF Ends
<1>9. QED
  BY <1>1, <1>2, <1>6, <1>7, <1>8 DEF WorkOK, Calm, Running

LEMMA StopFacts ==
  ASSUME WorkOK, plan' = plan, life' = life, NEW w, Stop(w) \/ work' = work
  PROVE  /\ WorkOK' /\ Works' = Works /\ Calm
         /\ \A v \in Works : work'[v].life = work[v].life
         /\ Stop(w) => ~Running(w)'
<1>1. Piece' = Piece
  BY ConstantsKept
<1>2. CASE work' = work /\ ~(Running(w) /\ Stop(w))
  BY <1>1, <1>2 DEF WorkOK, Calm, Running, Works
<1>3. CASE Running(w) /\ work' = [work EXCEPT ![w].state = "blocked"]
  <2>1. work' = [v \in Works |-> IF v \in {w} THEN [work[v] EXCEPT !.state = "blocked"] ELSE work[v]]
    BY <1>3 DEF WorkOK, Running
  <2>2. "blocked" \in Ends
    BY DEF Ends
  <2>3. QED
    BY <2>1, <2>2, EndFacts
<1>4. QED
  BY <1>2, <1>3 DEF Stop

LEMMA CreateFacts ==
  ASSUME WorkOK, plan' = plan, life' = life, NEW n \in Ids(Def), NEW v \in Nat, NEW w, w = Made(n, v), Create(w)
  PROVE  /\ WorkOK' /\ Works' = Works \cup {w}
         /\ \A x \in Works : x # w => work'[x] = work[x]
<1>1. Piece' = Piece /\ w \in Piece
  BY ConstantsKept DEF WorkOK, Made, Piece
<1>2. Works' = Works \cup {w}
  BY DEF Create, Works
<1>3. \A x \in Works' : work'[x] = IF x = w THEN [state |-> "live", life |-> life] ELSE work[x]
  BY <1>2 DEF Create
<1>4. \A x \in Works' : work'[x] \in [state : {"live"} \cup Ends, life : Nat] /\ work'[x].life <= life
  <2>1. \A x \in Works : work[x] \in [state : {"live"} \cup Ends, life : Nat] /\ work[x].life <= life
    BY DEF WorkOK
  <2>2. \A k \in Nat : [state |-> "live", life |-> k] \in [state : {"live"} \cup Ends, life : Nat]
                       /\ [state |-> "live", life |-> k].life = k /\ k <= k
    OBVIOUS
  <2>3. QED
    BY <1>2, <1>3, <2>1, <2>2 DEF WorkOK
<1>5. work' \in [Works' -> [state : {"live"} \cup Ends, life : Nat]]
  BY <1>2, <1>4 DEF Create
<1>6. QED
  BY <1>1, <1>2, <1>3, <1>4, <1>5 DEF WorkOK

LEMMA QuietRecords ==
  ASSUME Records, plan' = plan, active' = active, visits' = visits, dispatched' = dispatched,
         swept' = swept, doomed' = doomed, Works \subseteq Works',
         swept = "found" => Calm
  PROVE  Records'
<1>1. Ids(Def)' = Ids(Def) /\ Piece' = Piece /\ \A m : Dispatchable(m)' <=> Dispatchable(m)
  BY ConstantsKept, PlanKept DEF Dispatchable, Kind
<1>2. ASSUME swept' = "found"
      PROVE  \A m \in doomed' : dispatched'[m] \in Works' /\ ~Running(dispatched[m])'
  <2>1. \A m \in doomed : dispatched[m] \in Works /\ ~Running(dispatched[m])
    BY <1>2 DEF Records
  <2>2. \A w \in Works : ~Running(w) => w \in Works' /\ ~Running(w)'
    BY <1>2 DEF Calm
  <2>3. QED
    BY <2>1, <2>2
<1>3. QED
  BY <1>1, <1>2 DEF Records, Running

(* A thread that takes an item leaves to the others what they put on record. *)
LEMMA KeptTaken ==
  ASSUME Duties, Kept, life' = life, swept' = swept,
         NEW t \in threads, NEW item, Has(t, item), threads \ {t} \subseteq threads',
         \A m \in Ids(Def) : dispatched[m] # None => dispatched'[m] = dispatched[m],
         \A w \in Works' : Running(w)' =>
           \/ Attended(w)'
           \/ w \in Works /\ Running(w) /\ work'[w].life = work[w].life /\ item \notin Recording(w)
  PROVE  Kept'
<1>1. \A x \in Items(t.todo) : x[1] \in Making => x = item
  BY RestSound DEF Duties
<1>2. t.todo \in Seq(SUBSET Item)
  BY DEF Duties, ThreadsOK, Sound
<1>3. ASSUME swept' = "no", NEW w \in Works', Running(w)', work'[w].life = life, ~Attended(w)'
      PROVE  FALSE
  <2>1. w \in Works /\ Running(w) /\ work[w].life = life /\ item \notin Recording(w) /\ Attended(w)
    BY <1>3 DEF Kept
  <2>2. CASE dispatched[w[1]] = w
    <3>1. w # None /\ w[1] \in Ids(Def)
      BY <2>1, PieceFacts DEF Duties, WorkOK
    <3>2. QED
      BY <1>3, <2>2, <3>1 DEF Attended
  <2>3. CASE \E u \in threads : u.todo # <<>> /\ Head(u.todo) \cap Recording(w) # {}
    <3>1. PICK u \in threads : u.todo # <<>> /\ Head(u.todo) \cap Recording(w) # {}
      BY <2>3
    <3>2. u \notin threads'
      BY <1>3, <3>1 DEF Attended, Recording
    <3>3. u = t
      BY <3>1, <3>2
    <3>4. PICK x \in Head(t.todo) : x \in Recording(w)
      BY <3>1, <3>3
    <3>5. x \in Items(t.todo)
      <4>1. 1 \in DOMAIN t.todo /\ Head(t.todo) = t.todo[1]
        BY <1>2, <3>1, <3>3
      <4>2. QED
        BY <3>4, <4>1 DEF Items
    <3>6. x[1] \in Making
      BY <3>4 DEF Recording, Making
    <3>7. QED
      BY <1>1, <2>1, <3>4, <3>5, <3>6
  <2>4. QED
    BY <2>1, <2>2, <2>3 DEF Attended
<1>4. QED
  BY <1>3 DEF Kept

(* A thread reports the node of an item: it answers for the node, or nobody  *)
(* does because it is a join.                                                *)
LEMMA ToldStep ==
  ASSUME Grounds, Duties, Kept, ~Exhausted', NEW t \in threads, NEW item, Has(t, item),
         item[1] \in Duty \/ item[2] \in Joins,
         NEW o, Told(t, item[2], o, After(t, item)),
         WorkOK', Calm, life' = life, \A w \in Works : work'[w].life = work[w].life,
         \A w \in Works' : Running(w)' => w \in Works /\ item \notin Recording(w)
  PROVE  Duties' /\ Kept'
<1> DEFINE n == item[2]
           r == After(t, item)
           base == threads \ {t}
<1>1. /\ ThreadsOK /\ Records /\ WorkOK /\ TypeOK /\ StrandInv /\ OnStrands(Def)
  BY DEF Grounds, Duties
<1>2. /\ item \in Item /\ Holds(item) /\ Sound(r, None) /\ Resting(r)
      /\ Bound(r, None) \subseteq Bound(t.todo, t.wait)
      /\ Binds(Works, item) => n \in Bound(t.todo, t.wait) /\ n \notin Bound(r, None)
  BY <1>1, RestSound
<1>3. n \in Ids(Def)
  BY <1>2, ItemFacts
<1>4. dispatched[n] = None /\ (n \in Joins => ~Dispatchable(n))
  <2>1. n \in Joins => ~Dispatchable(n)
    BY DEF Joins, OfKind, Dispatchable, Kind
  <2>2. QED
    BY <1>1, <1>2, <1>3, <2>1 DEF Records, Holds
<1>5. Works \subseteq Works' /\ \A w \in Works : Running(w)' => Running(w)
  BY DEF Calm
<1>6. ASSUME n \in active PROVE ThreadsOK' /\ Records' /\ swept' = swept /\ threads \ {t} \subseteq threads'
                                /\ \A m \in Ids(Def) : dispatched[m] # None => dispatched'[m] = dispatched[m]
  <2>1. PICK s : s = Released
    OBVIOUS
  <2>2. Book(n, o) /\ threads' = base \cup {u \in {Thread(s \o r, None)} : Alive(u)} /\ base \in SUBSET threads
    BY <1>6, <2>1 DEF Told, Goes
  <2>3. \A u \in base : Bound(u.todo, u.wait) \cap Bound(t.todo, t.wait) = {}
    BY <1>1 DEF ThreadsOK
  <2>4. \A u \in threads : n \in Joins => n \notin Bound(u.todo, u.wait)
    BY <1>1, <1>4, BoundActive DEF ThreadsOK
  <2>5. n \notin Bound(r, None) /\ \A u \in base : n \notin Bound(u.todo, u.wait)
    BY <1>2, <2>3, <2>4 DEF Binds
  <2>6. \A u \in base : Bound(u.todo, u.wait) \cap Bound(r, None) = {}
    BY <1>2, <2>3
  <2>7. Records'
    BY <1>1, <1>5, <1>6, <2>2, BookHears, ReportRecords
  <2>8. swept' = swept
    BY <1>3, <2>2 DEF Book, SettleJoin, Report, Advance
  <2>9. \A m \in Ids(Def) : dispatched[m] # None => dispatched'[m] = dispatched[m]
    BY <1>1, <1>4, <2>2 DEF Book, Records
  <2> HIDE DEF n, r, base
  <2>10. ThreadsOK'
    BY <1>1, <1>2, <1>5, <1>6, <2>1, <2>2, <2>5, <2>6, BookHears, ReportThreads
  <2>11. QED
    BY <2>2, <2>7, <2>8, <2>9, <2>10 DEF base
<1>7. ASSUME n \notin active PROVE ThreadsOK' /\ Records' /\ swept' = swept /\ threads \ {t} \subseteq threads'
                                   /\ \A m \in Ids(Def) : dispatched[m] # None => dispatched'[m] = dispatched[m]
  <2>1. UNCHANGED <<vars, dispatched>> /\ Goes(t, r, None)
    BY <1>7 DEF Told
  <2>2. /\ plan' = plan /\ active' = active /\ visits' = visits /\ dispatched' = dispatched
        /\ swept' = swept /\ doomed' = doomed
    BY <2>1 DEF vars
  <2>3. ~Lost(None)'
    BY DEF Lost
  <2>4. ThreadsOK'
    BY <1>1, <1>5, <2>1, <2>2, <2>3, PopStep
  <2>5. Records'
    BY <1>1, <2>2, <1>5, QuietRecords
  <2>6. QED
    BY <2>1, <2>2, <2>4, <2>5 DEF Goes
<1>8. ThreadsOK' /\ Records' /\ swept' = swept /\ threads \ {t} \subseteq threads'
      /\ \A m \in Ids(Def) : dispatched[m] # None => dispatched'[m] = dispatched[m]
  BY <1>6, <1>7
<1>9. Kept'
  BY <1>5, <1>8, KeptTaken
<1>10. QED
  BY <1>8, <1>9 DEF Duties

(* A thread does something else with an item.                                *)
LEMMA QuietStep ==
  ASSUME Duties, Kept, UNCHANGED vars, WorkOK', ThreadsOK', life' = life,
         dispatched' = dispatched, Works \subseteq Works',
         NEW t \in threads, NEW item, Has(t, item), threads \ {t} \subseteq threads',
         \A w \in Works' : Running(w)' =>
           \/ Attended(w)'
           \/ w \in Works /\ Running(w) /\ work'[w].life = work[w].life /\ item \notin Recording(w)
  PROVE  Duties' /\ Kept'
<1>1. /\ plan' = plan /\ active' = active /\ visits' = visits /\ swept' = swept /\ doomed' = doomed
  BY DEF vars
<1>2. swept # "found"
  BY DEF Has, Ready
<1>3. Records'
  BY <1>1, <1>2, QuietRecords DEF Duties
<1>4. Kept'
  BY <1>1, KeptTaken
<1>5. QED
  BY <1>3, <1>4 DEF Duties

-----------------------------------------------------------------------------
(* The steps of a thread                                                     *)

(* What is to be done next for a node comes first in the thread.             *)
LEMMA PushedFirst ==
  ASSUME NEW X, NEW t, NEW y, NEW r \in Seq(SUBSET X), Goes(t, <<{y}>> \o r, None)
  PROVE  threads \ {t} \subseteq threads' /\ \E u \in threads' : u.todo # <<>> /\ Head(u.todo) = {y}
<1>1. <<{y}>> \o r # <<>> /\ Head(<<{y}>> \o r) = {y}
  OBVIOUS
<1> DEFINE s == <<{y}>> \o r
<1> HIDE DEF s
<1>2. s # <<>> /\ Head(s) = {y}
  BY <1>1 DEF s
<1>3. Thread(s, None).todo = s /\ Thread(s, None).wait = None
  BY DEF Thread
<1>4. Thread(s, None) \in threads' /\ threads \ {t} \subseteq threads'
  BY <1>2, <1>3 DEF Goes, Alive, s
<1>5. QED
  BY <1>2, <1>3, <1>4

LEMMA RestStack ==
  ASSUME ThreadsOK, NEW t \in threads, NEW item, Has(t, item) PROVE After(t, item) \in Seq(SUBSET Item)
BY RestSound DEF Sound

LEMMA ClaimKeeps ==
  ASSUME Grounds, Duties, Kept, ~Exhausted', NEW t, NEW n, NEW v, Claim(t, n, v) PROVE Duties' /\ Kept'
<1> DEFINE item == <<"start", n, v>>
           y == <<"create", n, v>>
<1>1. t \in threads /\ Has(t, item) /\ ThreadsOK /\ Records
  BY DEF Claim, Has, Ready, Duties
<1>2. item \in Item /\ Holds(item) /\ item[1] = "start" /\ item[2] = n /\ item[3] = v
  BY <1>1, RestSound
<1>3. n \in Ids(Def) /\ v \in Nat /\ n \in active /\ visits[n] = v /\ dispatched[n] = None /\ Dispatchable(n)
  BY <1>2, ItemFacts DEF Holds, Duty
<1>4. Goes(t, <<{y}>> \o After(t, item), None) /\ UNCHANGED <<vars, work, dispatched, life>>
  BY <1>3 DEF Claim
<1>5. y \in Item /\ y[1] = "create" /\ y[2] = n /\ y[3] = v
  BY <1>3 DEF Item
<1>6. plan' = plan /\ active' = active /\ visits' = visits /\ dispatched' = dispatched /\ Works' = Works
      /\ work' = work /\ life' = life
  BY <1>4 DEF vars, Works
<1>7. Holds(y)'
  BY <1>3, <1>5, <1>6, ConstantsKept DEF Holds, Dispatchable, Kind
<1> HIDE DEF item, y
<1>8. item[1] \in Duty /\ y[1] \in Duty
  BY <1>2, <1>5 DEF Duty, Making
<1>9. ThreadsOK'
  BY <1>1, <1>2, <1>4, <1>5, <1>6, <1>7, <1>8, PushStep
<1>10. threads \ {t} \subseteq threads'
  BY <1>1, <1>4, RestStack, PushedFirst
<1>11. WorkOK'
  BY <1>6, ConstantsKept DEF Duties, WorkOK
<1>12. \A w : item \notin Recording(w)
  BY <1>2 DEF Recording
<1>13. QED
  BY <1>1, <1>4, <1>6, <1>9, <1>10, <1>11, <1>12, QuietStep DEF Running

LEMMA CreateTurnKeeps ==
  ASSUME Grounds, Duties, Kept, NEW t, NEW n, NEW v, CreateTurn(t, n, v) PROVE Duties' /\ Kept'
<1> DEFINE item == <<"create", n, v>>
<1>1. t \in threads /\ Has(t, item) /\ ThreadsOK /\ Records /\ WorkOK
  BY DEF CreateTurn, Has, Ready, Duties
<1>2. item \in Item /\ Holds(item) /\ item[1] = "create" /\ item[2] = n /\ item[3] = v
  BY <1>1, RestSound
<1>3. n \in Ids(Def) /\ v \in Nat /\ n \in active /\ visits[n] = v /\ dispatched[n] = None /\ Dispatchable(n)
  BY <1>2, ItemFacts DEF Holds, Duty, Making
<1>4. PICK w : w = Made(n, v)
  OBVIOUS
<1> DEFINE y == <<"complete", n, w>>
<1>5. Create(w) /\ Goes(t, <<{y}>> \o After(t, item), None) /\ UNCHANGED <<vars, dispatched, life>>
  BY <1>4 DEF CreateTurn
<1>6. plan' = plan /\ active' = active /\ visits' = visits /\ dispatched' = dispatched /\ life' = life
  BY <1>5 DEF vars
<1>7. WorkOK' /\ Works' = Works \cup {w} /\ \A x \in Works : x # w => work'[x] = work[x]
  BY <1>1, <1>3, <1>4, <1>5, <1>6, CreateFacts
<1>8. w \in Piece /\ w[1] = n /\ w[2] = v
  BY <1>1, <1>3, <1>4 DEF Made, Piece, WorkOK
<1>9. y \in Item /\ y[1] = "complete" /\ y[2] = n /\ y[3] = w
  BY <1>3, <1>8 DEF Item
<1>10. Holds(y)'
  BY <1>3, <1>6, <1>7, <1>8, <1>9, ConstantsKept DEF Holds, Dispatchable, Kind
<1>11. y \in Recording(w) /\ \A x : item \notin Recording(x)
  BY <1>8 DEF Recording
<1> HIDE DEF item, y
<1>12. item[1] \in Duty /\ y[1] \in Duty
  BY <1>2, <1>9 DEF Duty, Making
<1>13. ThreadsOK'
  BY <1>1, <1>2, <1>5, <1>6, <1>7, <1>9, <1>10, <1>12, PushStep
<1>14. threads \ {t} \subseteq threads' /\ \E u \in threads' : u.todo # <<>> /\ Head(u.todo) = {y}
  BY <1>1, <1>5, RestStack, PushedFirst
<1>15. Attended(w)'
  BY <1>11, <1>14 DEF Attended, Recording
<1>16. \A x \in Works' : Running(x)' =>
         Attended(x)' \/ (x \in Works /\ Running(x) /\ work'[x].life = work[x].life /\ item \notin Recording(x))
  BY <1>7, <1>11, <1>15 DEF Running
<1>17. QED
  BY <1>1, <1>5, <1>6, <1>7, <1>13, <1>14, <1>16, QuietStep

LEMMA CreateJobKeeps ==
  ASSUME Grounds, Duties, Kept, NEW t, NEW n, NEW v, CreateJob(t, n, v) PROVE Duties' /\ Kept'
<1> DEFINE item == <<"start", n, v>>
<1>1. t \in threads /\ Has(t, item) /\ ThreadsOK /\ Records /\ WorkOK
  BY DEF CreateJob, Has, Ready, Duties
<1>2. item \in Item /\ Holds(item) /\ item[1] = "start" /\ item[2] = n /\ item[3] = v
  BY <1>1, RestSound
<1>3. n \in Ids(Def) /\ v \in Nat /\ n \in active /\ visits[n] = v /\ dispatched[n] = None /\ Dispatchable(n)
  BY <1>2, ItemFacts DEF Holds, Duty, Making
<1>4. PICK w : w = JobOf(n, v)
  OBVIOUS
<1> DEFINE y == <<"attach", n, w>>
<1>5. /\ Goes(t, <<{y}>> \o After(t, item), None) /\ UNCHANGED <<vars, dispatched, life>>
      /\ IF w \in Works THEN UNCHANGED work ELSE Create(w)
  BY <1>4 DEF CreateJob
<1>6. plan' = plan /\ active' = active /\ visits' = visits /\ dispatched' = dispatched /\ life' = life
  BY <1>5 DEF vars
<1>7. \/ w \in Works /\ w[1] = n /\ w[2] = v
      \/ w \notin Works /\ w = Made(n, v)
  <2>1. CASE \E x \in Works : x[1] = n /\ x[2] = v
    <3>1. w = CHOOSE x \in Works : x[1] = n /\ x[2] = v
      BY <1>4, <2>1 DEF JobOf
    <3>2. w \in Works /\ w[1] = n /\ w[2] = v
      BY <2>1, <3>1, Zenon
    <3>3. QED
      BY <3>2
  <2>2. CASE ~\E x \in Works : x[1] = n /\ x[2] = v
    BY <1>4, <2>2 DEF JobOf, Made
  <2>3. QED
    BY <2>1, <2>2
<1>8. WorkOK' /\ Works' = Works \cup {w} /\ \A x \in Works : x # w => work'[x] = work[x]
  <2>1. CASE w \in Works
    BY <1>1, <1>5, <1>6, <2>1, StopFacts
  <2>2. CASE w \notin Works
    BY <1>1, <1>3, <1>5, <1>6, <1>7, <2>2, CreateFacts
  <2>3. QED
    BY <2>1, <2>2
<1>9. w \in Piece /\ w[1] = n /\ w[2] = v
  BY <1>1, <1>3, <1>7 DEF Made, Piece, WorkOK
<1>10. y \in Item /\ y[1] = "attach" /\ y[2] = n /\ y[3] = w
  BY <1>3, <1>9 DEF Item
<1>11. Holds(y)'
  BY <1>3, <1>6, <1>8, <1>9, <1>10, ConstantsKept DEF Holds, Dispatchable, Kind
<1>12. y \in Recording(w) /\ \A x : item \notin Recording(x)
  BY <1>9 DEF Recording
<1> HIDE DEF item, y
<1>13. item[1] \in Duty /\ y[1] \in Duty
  BY <1>2, <1>10 DEF Duty, Making
<1>14. ThreadsOK'
  BY <1>1, <1>2, <1>5, <1>6, <1>8, <1>10, <1>11, <1>13, PushStep
<1>15. threads \ {t} \subseteq threads' /\ \E u \in threads' : u.todo # <<>> /\ Head(u.todo) = {y}
  BY <1>1, <1>5, RestStack, PushedFirst
<1>16. Attended(w)'
  BY <1>12, <1>15 DEF Attended, Recording
<1>17. \A x \in Works' : Running(x)' =>
         Attended(x)' \/ (x \in Works /\ Running(x) /\ work'[x].life = work[x].life /\ item \notin Recording(x))
  BY <1>8, <1>12, <1>16 DEF Running
<1>18. QED
  BY <1>1, <1>5, <1>6, <1>8, <1>14, <1>15, <1>17, QuietStep

(* Work is put on record.                                                    *)
LEMMA RecordedStep ==
  ASSUME Duties, Kept, NEW t \in threads, NEW item, Has(t, item), item[1] \in {"complete", "attach"},
         UNCHANGED <<vars, work, life>>, dispatched' = [dispatched EXCEPT ![item[2]] = item[3]],
         NEW w \in {None, item[3]}, Goes(t, After(t, item), w)
  PROVE  Duties' /\ Kept'
<1>1. ThreadsOK /\ Records /\ WorkOK
  BY DEF Duties
<1>2. /\ plan' = plan /\ active' = active /\ visits' = visits /\ swept' = swept /\ doomed' = doomed
      /\ work' = work /\ Works' = Works /\ life' = life
  BY DEF vars, Works
<1>3. item \in Item /\ Holds(item) /\ item[1] \in Duty
  BY <1>1, RestSound DEF Duty, Making
<1>4. item[2] \in Ids(Def) /\ item[2] \in active /\ Dispatchable(item[2]) /\ dispatched[item[2]] = None
  BY <1>3, ItemFacts DEF Holds
<1>5. item[3] \in Works /\ item[3] \in Piece /\ item[3][1] = item[2] /\ item[3][2] = visits[item[2]]
  BY <1>3, ItemFacts DEF Holds
<1>6. dispatched' = [m \in Ids(Def) |-> IF m = item[2] THEN item[3] ELSE dispatched[m]]
  BY <1>1 DEF Records
<1>7. ThreadsOK'
  <2>1. w \in {None, Others} \cup Piece /\ ~Lost(w)'
    BY <1>2, <1>5 DEF Lost
  <2>2. Binds(Works, item) /\ \A m \in Ids(Def) : m # item[2] => dispatched'[m] = dispatched[m]
    BY <1>3, <1>6 DEF Binds
  <2>3. QED
    BY <1>1, <1>2, <2>1, <2>2, PopStep
<1>8. Records'
  <2>1. Ids(Def)' = Ids(Def) /\ Piece' = Piece /\ \A m : Dispatchable(m)' <=> Dispatchable(m)
    BY <1>2, ConstantsKept, PlanKept DEF Dispatchable, Kind
  <2>2. ASSUME NEW m \in Ids(Def)', dispatched'[m] # None
        PROVE  /\ m \in active' /\ Dispatchable(m)' /\ dispatched'[m] \in Piece'
               /\ dispatched'[m][1] = m /\ dispatched'[m][2] = visits'[m]
    <3>1. CASE m = item[2]
      BY <1>2, <1>4, <1>5, <1>6, <2>1, <3>1
    <3>2. CASE m # item[2]
      BY <1>1, <1>2, <1>6, <2>1, <2>2, <3>2 DEF Records
    <3>3. QED
      BY <3>1, <3>2
  <2>3. swept' # "found"
    BY <1>2 DEF Has, Ready
  <2>4. QED
    BY <1>6, <2>1, <2>2, <2>3 DEF Records
<1>9. WorkOK'
  BY <1>1, <1>2, ConstantsKept DEF WorkOK
<1>10. \A x \in Works' : item \in Recording(x) => Attended(x)'
  <2>1. \A x : item \in Recording(x) => x = item[3]
    BY DEF Recording
  <2>2. dispatched'[item[3][1]] = item[3]
    BY <1>4, <1>5, <1>6
  <2>3. QED
    BY <2>1, <2>2 DEF Attended
<1>11. Kept'
  <2>1. threads \ {t} \subseteq threads'
    BY DEF Goes
  <2>2. \A m \in Ids(Def) : dispatched[m] # None => dispatched'[m] = dispatched[m]
    BY <1>4, <1>6
  <2>3. QED
    BY <1>2, <1>10, <2>1, <2>2, KeptTaken DEF Running
<1>12. QED
  BY <1>7, <1>8, <1>9, <1>11 DEF Duties

LEMMA CompleteKeeps ==
  ASSUME Grounds, Duties, Kept, ~Exhausted', NEW t, NEW n, NEW w, Complete(t, n, w) PROVE Duties' /\ Kept'
<1> DEFINE item == <<"complete", n, w>>
<1>1. t \in threads /\ Has(t, item) /\ WorkOK
  BY DEF Complete, Has, Ready, Duties
<1>2. item[1] = "complete" /\ item[2] = n /\ item[3] = w /\ item[1] \in Duty
  BY DEF Duty, Making
<1>3. \A x : item \in Recording(x) => x = w
  BY DEF Recording
<1>4. CASE n \in active /\ visits[n] = w[2] /\ claims[n] = w[2]
  <2>1. UNCHANGED <<vars, work, life>> /\ dispatched' = [dispatched EXCEPT ![n] = w] /\ Goes(t, After(t, item), w)
    BY <1>4 DEF Complete
  <2> HIDE DEF item
  <2>2. QED
    BY <1>1, <1>2, <2>1, RecordedStep
<1>5. CASE ~(n \in active /\ visits[n] = w[2] /\ claims[n] = w[2])
  <2>1. Stop(w) /\ Told(t, n, "fail", After(t, item)) /\ life' = life
    BY <1>5 DEF Complete
  <2>2. plan' = plan
    BY <2>1 DEF Told, Book, SettleJoin, Report, Advance, vars
  <2> HIDE DEF item
  <2>3. WorkOK' /\ Calm /\ Works' = Works /\ ~Running(w)' /\ \A x \in Works : work'[x].life = work[x].life
    BY <1>1, <2>1, <2>2, StopFacts
  <2>4. QED
    BY <1>1, <1>2, <1>3, <2>1, <2>3, ToldStep
<1>6. QED
  BY <1>4, <1>5

LEMMA AttachKeeps ==
  ASSUME Grounds, Duties, Kept, ~Exhausted', NEW t, NEW n, NEW w, Attach(t, n, w) PROVE Duties' /\ Kept'
<1> DEFINE item == <<"attach", n, w>>
<1>1. t \in threads /\ Has(t, item) /\ ThreadsOK /\ WorkOK
  BY DEF Attach, Has, Ready, Duties
<1>2. item[1] = "attach" /\ item[2] = n /\ item[3] = w /\ item[1] \in Duty
  BY DEF Duty, Making
<1>3. \A x : item \in Recording(x) => x = w
  BY DEF Recording
<1>4. n \in active /\ dispatched[n] = None
  <2>1. Holds(item)
    BY <1>1, RestSound
  <2>2. QED
    BY <1>2, <2>1 DEF Holds
<1>5. UNCHANGED <<work, life>>
  BY <1>4 DEF Attach
<1>6. CASE Running(w)
  <2>1. UNCHANGED <<vars, work, life>> /\ dispatched' = [dispatched EXCEPT ![n] = w] /\ Goes(t, After(t, item), None)
    BY <1>4, <1>6 DEF Attach
  <2> HIDE DEF item
  <2>2. QED
    BY <1>1, <1>2, <2>1, RecordedStep
<1>7. CASE ~Running(w)
  <2>1. Told(t, n, work[w].state, After(t, item))
    BY <1>4, <1>7 DEF Attach
  <2>2. plan' = plan
    BY <2>1 DEF Told, Book, SettleJoin, Report, Advance, vars
  <2>3. WorkOK' /\ Calm /\ Works' = Works /\ ~Running(w)' /\ \A x \in Works : work'[x].life = work[x].life
    BY <1>1, <1>5, <1>7, <2>2, StopFacts DEF Running
  <2> HIDE DEF item
  <2>4. QED
    BY <1>1, <1>2, <1>3, <1>5, <2>1, <2>3, ToldStep
<1>8. QED
  BY <1>6, <1>7

(* Nobody did the work, or there is none: a start that failed, a start that  *)
(* a restart lost, a join.                                                   *)
LEMMA FailKeeps ==
  ASSUME Grounds, Duties, Kept, ~Exhausted', NEW t, NEW item, Has(t, item),
         item[1] \in {"start", "create", "interrupt", "settle"},
         NEW o, Told(t, item[2], o, After(t, item)), UNCHANGED <<work, life>>
  PROVE  Duties' /\ Kept'
<1>1. t \in threads /\ ThreadsOK /\ WorkOK
  BY DEF Has, Ready, Duties
<1>2. item[1] \in Duty \/ item[2] \in Joins
  <2>1. Holds(item)
    BY <1>1, RestSound
  <2>2. QED
    BY <2>1 DEF Holds, Duty, Making
<1>3. \A w : item \notin Recording(w)
  BY DEF Recording
<1>4. plan' = plan
  BY DEF Told, Book, SettleJoin, Report, Advance, vars
<1>5. WorkOK' /\ Calm /\ Works' = Works /\ \A w \in Works : work'[w].life = work[w].life
  BY <1>1, <1>4, StopFacts
<1>6. QED
  BY <1>1, <1>2, <1>3, <1>5, ToldStep

LEMMA ReplayKeeps ==
  ASSUME Grounds, Duties, Kept, NEW t, NEW n, Replay(t, n) PROVE Duties' /\ Kept'
<1> DEFINE item == <<"replay", n>>
<1>1. t \in threads /\ Has(t, item) /\ ThreadsOK /\ Records /\ WorkOK
  BY DEF Replay, Has, Ready, Duties
<1>2. item \in Item /\ Holds(item) /\ item[1] = "replay" /\ item[2] = n
  BY <1>1, RestSound
<1>3. PICK v : v = visits[n]
  OBVIOUS
<1>4. n \in Ids(Def) /\ v \in Nat /\ n \in active /\ dispatched[n] = None /\ Dispatchable(n)
  BY <1>2, <1>3, ItemFacts DEF Holds, Duty, Grounds, TypeOK
<1> DEFINE y == <<"start", n, v>>
<1>5. Goes(t, <<{y}>> \o After(t, item), None) /\ UNCHANGED <<vars, work, dispatched, life>>
  BY <1>3 DEF Replay
<1>6. y \in Item /\ y[1] = "start" /\ y[2] = n /\ y[3] = v
  BY <1>4 DEF Item
<1>7. plan' = plan /\ active' = active /\ visits' = visits /\ dispatched' = dispatched /\ Works' = Works
      /\ work' = work /\ life' = life
  BY <1>5 DEF vars, Works
<1>8. Holds(y)'
  BY <1>3, <1>4, <1>6, <1>7, ConstantsKept DEF Holds, Dispatchable, Kind
<1> HIDE DEF item, y
<1>9. item[1] \in Duty /\ y[1] \in Duty
  BY <1>2, <1>6 DEF Duty, Making
<1>10. ThreadsOK'
  BY <1>1, <1>2, <1>5, <1>6, <1>7, <1>8, <1>9, PushStep
<1>11. threads \ {t} \subseteq threads'
  BY <1>1, <1>5, RestStack, PushedFirst
<1>12. WorkOK'
  BY <1>1, <1>7, ConstantsKept DEF WorkOK
<1>13. \A w : item \notin Recording(w)
  BY <1>2 DEF Recording
<1>14. QED
  BY <1>1, <1>5, <1>7, <1>10, <1>11, <1>12, <1>13, QuietStep DEF Running

LEMMA LookUpKeeps ==
  ASSUME Duties, Kept, NEW t, NEW n, NEW w, LookUp(t, n, w) PROVE Duties' /\ Kept'
<1> DEFINE item == <<"look-up", n, w>>
<1>1. t \in threads /\ Has(t, item) /\ ThreadsOK /\ Records /\ WorkOK
  BY DEF LookUp, Has, Ready, Duties
<1>2. item \in Item /\ Holds(item) /\ item[1] = "look-up" /\ item[2] = n /\ item[3] = w
  BY <1>1, RestSound
<1>3. w \in Piece /\ w[1] = n /\ (w \in Works \/ dispatched[n] = w)
  BY <1>2, ItemFacts DEF Holds
<1>4. Goes(t, After(t, item), w) /\ UNCHANGED <<vars, work, dispatched, life>>
  BY DEF LookUp
<1>5. plan' = plan /\ active' = active /\ visits' = visits /\ dispatched' = dispatched /\ Works' = Works
      /\ work' = work /\ life' = life
  BY <1>4 DEF vars, Works
<1> HIDE DEF item
<1>6. Lost(w)' => Binds(Works, item) /\ w[1] = item[2] /\ dispatched'[w[1]] = w
  BY <1>2, <1>3, <1>5 DEF Lost, Binds
<1>7. ThreadsOK'
  BY <1>1, <1>3, <1>4, <1>5, <1>6, PopStep
<1>8. threads \ {t} \subseteq threads'
  BY <1>4 DEF Goes
<1>9. WorkOK'
  BY <1>1, <1>5, ConstantsKept DEF WorkOK
<1>10. \A x : item \notin Recording(x)
  BY <1>2 DEF Recording
<1>11. QED
  BY <1>1, <1>4, <1>5, <1>7, <1>8, <1>9, <1>10, QuietStep DEF Running

(* No deadline sweep has found a node.                                       *)
LEMMA NoneGivenUp == ASSUME Duties, NEW t, NEW n, NEW w PROVE ~GiveUp(t, n, w) /\ ~Cancel(t, n, w)
<1>1. ASSUME NEW item, item[1] \in {"give-up", "cancel"} PROVE ~Has(t, item)
  <2>1. Has(t, item) => t \in threads /\ item \in Item
    BY RestSound DEF Has, Ready, Duties
  <2>2. QED
    BY <1>1, <2>1, ItemFacts
<1>2. QED
  BY <1>1 DEF GiveUp, Cancel

LEMMA ThreadKeeps ==
  ASSUME Grounds, Duties, Kept, ~Exhausted', NEW t, ThreadStep(t) PROVE Duties' /\ Kept'
<1>1. PICK item \in Head(t.todo) :
        LET n == item[2] IN
        \/ SettleNode(t, n) \/ Replay(t, n) \/ Interrupt(t, n)
        \/ /\ Len(item) = 3
           /\ \/ Claim(t, n, item[3]) \/ CreateTurn(t, n, item[3]) \/ Complete(t, n, item[3])
              \/ CreateJob(t, n, item[3]) \/ Attach(t, n, item[3]) \/ StartFails(t, n, item[3])
              \/ GiveUp(t, n, item[3]) \/ Cancel(t, n, item[3]) \/ LookUp(t, n, item[3])
  BY DEF ThreadStep
<1>2. PICK n, w : n = item[2] /\ w = item[3]
  OBVIOUS
<1>3. CASE Claim(t, n, w)
  BY <1>3, ClaimKeeps
<1>4. CASE CreateTurn(t, n, w)
  BY <1>4, CreateTurnKeeps
<1>5. CASE CreateJob(t, n, w)
  BY <1>5, CreateJobKeeps
<1>6. CASE Complete(t, n, w)
  BY <1>6, CompleteKeeps
<1>7. CASE Attach(t, n, w)
  BY <1>7, AttachKeeps
<1>8. CASE Replay(t, n)
  BY <1>8, ReplayKeeps
<1>9. CASE LookUp(t, n, w)
  BY <1>9, LookUpKeeps
<1>10. CASE StartFails(t, n, w) \/ SettleNode(t, n) \/ Interrupt(t, n)
  <2>1. \E x : /\ Has(t, x) /\ x[1] \in {"start", "create", "interrupt", "settle"} /\ x[2] = n
               /\ (\E o : Told(t, n, o, After(t, x)))
    <3>1. CASE StartFails(t, n, w) /\ Has(t, <<"create", n, w>>) /\ Told(t, n, "fail", After(t, <<"create", n, w>>))
      <4> DEFINE x == <<"create", n, w>>
      <4>1. x[1] = "create" /\ x[2] = n /\ Has(t, x) /\ Told(t, n, "fail", After(t, x))
        BY <3>1
      <4> HIDE DEF x
      <4>2. QED
        BY <4>1
    <3>2. CASE StartFails(t, n, w) /\ Has(t, <<"start", n, w>>) /\ Told(t, n, "fail", After(t, <<"start", n, w>>))
      <4> DEFINE x == <<"start", n, w>>
      <4>1. x[1] = "start" /\ x[2] = n /\ Has(t, x) /\ Told(t, n, "fail", After(t, x))
        BY <3>2
      <4> HIDE DEF x
      <4>2. QED
        BY <4>1
    <3>3. CASE SettleNode(t, n)
      <4> DEFINE x == <<"settle", n>>
      <4>1. x[1] = "settle" /\ x[2] = n /\ Has(t, x) /\ Told(t, n, "success", After(t, x))
        BY <3>3 DEF SettleNode
      <4> HIDE DEF x
      <4>2. QED
        BY <4>1
    <3>4. CASE Interrupt(t, n)
      <4> DEFINE x == <<"interrupt", n>>
      <4>1. x[1] = "interrupt" /\ x[2] = n /\ Has(t, x) /\ Told(t, n, "fail", After(t, x))
        BY <3>4 DEF Interrupt
      <4> HIDE DEF x
      <4>2. QED
        BY <4>1
    <3>5. QED
      BY <1>10, <3>1, <3>2, <3>3, <3>4 DEF StartFails
  <2>2. UNCHANGED <<work, life>>
    BY <1>10 DEF StartFails, SettleNode, Interrupt
  <2>3. QED
    BY <2>1, <2>2, FailKeeps
<1>11. QED
  BY <1>1, <1>2, <1>3, <1>4, <1>5, <1>6, <1>7, <1>8, <1>9, <1>10, NoneGivenUp

-----------------------------------------------------------------------------
(* The steps of nobody's turn: waits that end, work that ends, people        *)

LEMMA WaitingMakesNothing ==
  ASSUME ThreadsOK, NEW t \in threads, t.wait # None
  PROVE  Resting(t.todo) /\ \A w : t.todo # <<>> => Head(t.todo) \cap Recording(w) = {}
<1>1. t.todo \in Seq(SUBSET Item) /\ Resting(t.todo)
  BY DEF ThreadsOK, Sound, Resting
<1>2. ASSUME NEW w, t.todo # <<>>, NEW x \in Head(t.todo), x \in Recording(w) PROVE FALSE
  <2>1. 1 \in DOMAIN t.todo /\ Head(t.todo) = t.todo[1]
    BY <1>1, <1>2
  <2>2. x \in Items(t.todo)
    BY <1>2, <2>1 DEF Items
  <2>3. x[1] \in Making
    BY <1>2 DEF Recording, Making
  <2>4. QED
    BY <1>1, <2>2, <2>3 DEF Resting
<1>3. QED
  BY <1>1, <1>2

LEMMA KeptOn ==
  ASSUME Duties, Kept, life' = life, swept' = swept, \A t \in threads : t \in threads' \/ t.wait # None,
         \A w \in Works : dispatched[w[1]] = w => dispatched'[w[1]] = w \/ ~Running(w)',
         \A w \in Works' : Running(w)' => w \in Works /\ Running(w) /\ work'[w].life = work[w].life
  PROVE  Kept'
<1>1. ASSUME swept' = "no", NEW w \in Works', Running(w)', work'[w].life = life, ~Attended(w)'
      PROVE  FALSE
  <2>1. w \in Works /\ Running(w) /\ work[w].life = life /\ Attended(w)
    BY <1>1 DEF Kept
  <2>2. w # None /\ w[1] \in Ids(Def)
    BY <2>1, PieceFacts DEF Duties, WorkOK
  <2>3. dispatched[w[1]] # w
    BY <1>1, <2>2 DEF Attended
  <2>4. PICK u \in threads : u.todo # <<>> /\ Head(u.todo) \cap Recording(w) # {}
    BY <2>1, <2>3 DEF Attended
  <2>5. u \in threads'
    BY <2>4, WaitingMakesNothing DEF Duties
  <2>6. QED
    BY <1>1, <2>4, <2>5 DEF Attended, Recording
<1>2. QED
  BY <1>1 DEF Kept

(* A report from outside of the threads starts one of its own.               *)
LEMMA OutsideReport ==
  ASSUME Grounds, Duties, ~Exhausted', status \in Live, NEW n \in active, NEW o \in Heard(Def, n), Advance(n, o),
         dispatched' = [dispatched EXCEPT ![n] = None], WorkOK', Calm,
         threads' = threads \cup {u \in {Thread(Released, None)} : Alive(u)},
         \A t \in threads : n \notin Bound(t.todo, t.wait)
  PROVE  Duties'
<1>1. ThreadsOK /\ Records /\ WorkOK /\ TypeOK /\ StrandInv /\ OnStrands(Def)
  BY DEF Grounds, Duties
<1>2. Works \subseteq Works' /\ \A w \in Works : Running(w)' => Running(w)
  BY DEF Calm
<1>3. Records'
  BY <1>1, <1>2, ReportRecords
<1>4. PICK s : s = Released
  OBVIOUS
<1>5. s \o <<>> = s
  <2> DEFINE new == IF active' = {} THEN {} ELSE {m \in Ids(Def) : visits'[m] > visits[m]}
             A == {<<"start", m, visits'[m]>> : m \in {m \in new : Dispatchable(m)}}
             B == {<<"settle", m>> : m \in new \cap Joins}
             X == A \cup B
  <2>1. s = Level(A) \o Level(B)
    BY <1>4 DEF Released
  <2>2. A \in SUBSET X /\ B \in SUBSET X
    OBVIOUS
  <2> HIDE DEF A, B, X
  <2>3. Level(A) \in Seq(SUBSET X) /\ Level(B) \in Seq(SUBSET X)
    BY <2>2, LevelFacts
  <2>4. s \in Seq(SUBSET X)
    BY <2>1, <2>3, StacksJoin
  <2>5. QED
    BY <2>4
<1>6. Items(<<>>) = {} /\ <<>> \in Seq(SUBSET Item) /\ ~Lost(None)
  BY DEF Items, Lost
<1>7. Sound(<<>>, None) /\ Resting(<<>>) /\ Bound(<<>>, None) = {}
  BY <1>6 DEF Sound, Once, Resting, Bound, Binding
<1>8. threads' = threads \cup {u \in {Thread(s \o <<>>, None)} : Alive(u)} /\ threads \in SUBSET threads
  BY <1>4, <1>5
<1>9. /\ n \notin Bound(<<>>, None)
      /\ \A t \in threads : n \notin Bound(t.todo, t.wait) /\ Bound(t.todo, t.wait) \cap Bound(<<>>, None) = {}
  BY <1>7
<1>10. ThreadsOK'
  BY <1>1, <1>2, <1>4, <1>7, <1>8, <1>9, ReportThreads
<1>11. QED
  BY <1>3, <1>10 DEF Duties

LEMMA ResumeKeeps == ASSUME Grounds, Duties, Kept, ~Exhausted', NEW t, Resume(t) PROVE Duties' /\ Kept'
<1> DEFINE n == t.wait[1]
           r == t.todo
           base == threads \ {t}
<1>1. /\ t \in threads /\ t.wait # None /\ ThreadsOK /\ Records /\ WorkOK /\ TypeOK /\ StrandInv /\ OnStrands(Def)
      /\ swept # "found" /\ work' = work /\ life' = life
  BY DEF Resume, Duties, Grounds
<1>2. Sound(r, t.wait) /\ Resting(r) /\ t.wait \in {None, Others} \cup Piece
  BY <1>1, WaitingMakesNothing DEF ThreadsOK, Sound
<1>3. /\ Works' = Works /\ \A w : Running(w)' <=> Running(w)
      /\ \A w \in Works' : Running(w)' => w \in Works /\ Running(w) /\ work'[w].life = work[w].life
  BY <1>1 DEF Works, Running
<1>4. ASSUME UNCHANGED <<vars, dispatched>>, Goes(t, r, None) PROVE Duties' /\ Kept'
  <2>1. /\ plan' = plan /\ active' = active /\ visits' = visits /\ dispatched' = dispatched
        /\ swept' = swept /\ doomed' = doomed
    BY <1>4 DEF vars
  <2>2. ThreadsOK'
    BY <1>1, <1>3, <1>4, <2>1, WokenStep
  <2>3. Records'
    BY <1>1, <1>3, <2>1, QuietRecords
  <2>4. WorkOK'
    BY <1>1, <1>3, <2>1, ConstantsKept DEF WorkOK
  <2>5. \A u \in threads : u \in threads' \/ u.wait # None
    BY <1>1, <1>4 DEF Goes
  <2>6. Kept'
    <3>1. \A w \in Works : dispatched[w[1]] = w => dispatched'[w[1]] = w \/ ~Running(w)'
      BY <2>1
    <3>2. QED
      BY <1>1, <1>3, <2>1, <2>5, <3>1, KeptOn
  <2>7. QED
    BY <2>2, <2>3, <2>4, <2>6 DEF Duties
<1>5. ASSUME NEW o, Told(t, n, o, r), t.wait # Others, dispatched[n] = t.wait, ~Running(t.wait)
      PROVE  Duties' /\ Kept'
  <2>1. t.wait \in Piece /\ n \in Ids(Def) /\ n \in active
    BY <1>1, <1>2, <1>5, PieceFacts DEF Records
  <2>2. PICK s : s = Released
    OBVIOUS
  <2>3. Book(n, o) /\ Goes(t, s \o r, None)
    BY <1>5, <2>1, <2>2 DEF Told
  <2>4. threads' = base \cup {u \in {Thread(s \o r, None)} : Alive(u)} /\ base \in SUBSET threads
    BY <2>3 DEF Goes
  <2>5. None \notin Works
    BY <1>1, PieceFacts DEF WorkOK
  <2>6. Sound(r, None) /\ Bound(r, None) \subseteq Bound(r, t.wait) /\ n \notin Bound(r, None)
    <3>1. ~Lost(None)
      BY DEF Lost
    <3>2. Sound(r, None) /\ Bound(r, None) = Binding(Works, r)
      BY <1>2, <3>1 DEF Sound, Bound
    <3>3. n \notin Bound(r, None)
      <4>1. CASE t.wait \in Works
        BY <1>5, <2>5, <3>2, <4>1, RecordedFree
      <4>2. CASE t.wait \notin Works
        <5>1. Lost(t.wait)
          BY <1>1, <1>5, <4>2 DEF Lost
        <5>2. QED
          BY <1>2, <3>2, <5>1 DEF Sound
      <4>3. QED
        BY <4>1, <4>2
    <3>4. QED
      BY <3>2, <3>3 DEF Bound
  <2>7. \A u \in base : Bound(u.todo, u.wait) \cap Bound(r, None) = {}
    BY <1>1, <2>6 DEF ThreadsOK
  <2>8. \A u \in base : n \notin Bound(u.todo, u.wait)
    <3>1. CASE t.wait \in Works
      BY <1>1, <1>5, <2>5, <3>1, RecordedFree DEF ThreadsOK
    <3>2. CASE t.wait \notin Works
      <4>1. n \in Bound(r, t.wait)
        BY <1>1, <1>5, <3>2 DEF Bound, Lost
      <4>2. QED
        BY <1>1, <4>1 DEF ThreadsOK
    <3>3. QED
      BY <3>1, <3>2
  <2>9. PICK q \in Heard(Def, n) : Advance(n, q) /\ status \in Live /\ dispatched' = [dispatched EXCEPT ![n] = None]
    BY <2>1, <2>3, BookHears
  <2>10. plan' = plan /\ swept' = swept
    BY <2>9 DEF Advance
  <2>11. WorkOK' /\ Works \subseteq Works' /\ \A w \in Works : Running(w)' => Running(w)
    BY <1>1, <1>3, <2>10, ConstantsKept DEF WorkOK
  <2>12. Records'
    BY <1>1, <2>1, <2>9, <2>11, ReportRecords
  <2>13. \A m \in Ids(Def) : m # n => dispatched'[m] = dispatched[m]
    BY <1>1, <2>9 DEF Records
  <2>14. Kept'
    <3>1. \A u \in threads : u \in threads' \/ u.wait # None
      BY <1>1, <2>4
    <3>2. \A w \in Works : dispatched[w[1]] = w => dispatched'[w[1]] = w \/ ~Running(w)'
      <4>1. \A w \in Works : w[1] \in Ids(Def)
        BY <1>1, PieceFacts DEF WorkOK
      <4>2. QED
        BY <1>3, <1>5, <2>13, <4>1
    <3>3. QED
      BY <1>1, <1>3, <2>10, <3>1, <3>2, KeptOn
  <2> HIDE DEF n, r, base
  <2>15. ThreadsOK'
    BY <1>1, <1>2, <2>1, <2>2, <2>4, <2>6, <2>7, <2>8, <2>9, <2>11, ReportThreads
  <2>16. QED
    BY <2>11, <2>12, <2>14, <2>15 DEF Duties
<1>6. CASE t.wait = Others \/ Running(t.wait)
  BY <1>4, <1>6 DEF Resume
<1>7. CASE t.wait # Others /\ ~Running(t.wait)
  <2>1. CASE t.wait \notin Works
    <3>1. Lost(t.wait)
      BY <1>1, <1>7, <2>1 DEF Lost
    <3>2. dispatched[n] = t.wait /\ Told(t, n, "fail", r)
      BY <1>2, <1>7, <2>1, <3>1 DEF Sound, Resume
    <3>3. QED
      BY <1>5, <1>7, <3>2
  <2>2. CASE t.wait \in Works /\ dispatched[n] = t.wait
    BY <1>5, <1>7, <2>2 DEF Resume
  <2>3. CASE t.wait \in Works /\ dispatched[n] # t.wait
    BY <1>4, <1>7, <2>3 DEF Resume
  <2>4. QED
    BY <2>1, <2>2, <2>3
<1>8. QED
  BY <1>6, <1>7

LEMMA OutsideQuiet ==
  ASSUME Duties, Kept, plan' = plan, active' = active, visits' = visits, dispatched' = dispatched,
         swept' = swept, doomed' = doomed, life' = life, WorkOK', Calm, Works' = Works,
         \A w \in Works : work'[w].life = work[w].life,
         NEW x \in {None} \cup Works, threads' = threads \cup {u \in {Thread(<<>>, x)} : Alive(u)}
  PROVE  Duties' /\ Kept'
<1>1. ThreadsOK /\ Records /\ WorkOK
  BY DEF Duties
<1>2. x \in {None} \cup Works' /\ (x = None \/ x \in Piece)
  BY <1>1 DEF WorkOK
<1>3. \A t \in threads : \A m \in Bound(t.todo, t.wait) :
        m \in active' /\ visits'[m] = visits[m] /\ dispatched'[m] = dispatched[m]
  BY <1>1, BoundActive DEF ThreadsOK
<1>4. ThreadsOK'
  BY <1>1, <1>2, <1>3, AddedStep
<1>5. Records'
  BY <1>1, QuietRecords
<1>6. Kept'
  <2>1. \A w \in Works' : Running(w)' => w \in Works /\ Running(w) /\ work'[w].life = work[w].life
    BY DEF Calm
  <2>2. \A t \in threads : t \in threads' \/ t.wait # None
    OBVIOUS
  <2>3. QED
    BY <2>1, <2>2, KeptOn
<1>7. QED
  BY <1>4, <1>5, <1>6 DEF Duties

(* Nothing is added.                                                         *)
LEMMA NoThread == threads = threads \cup {u \in {Thread(<<>>, None)} : Alive(u)}
BY DEF Thread, Alive

(* The end of work on record is a report for its node, and what was reported *)
(* is no longer running.                                                     *)
LEMMA WorkEndsKeeps ==
  ASSUME Grounds, Duties, Kept, ~Exhausted', NEW w, NEW o, WorkEnds(w, o) PROVE Duties' /\ Kept'
<1> DEFINE n == w[1]
<1>1. ThreadsOK /\ Records /\ WorkOK /\ w \in Works /\ life' = life /\ swept # "found"
  BY DEF Duties, WorkEnds, Running
<1>2. o \in Ends /\ work' = [v \in Works |-> IF v \in {w} THEN [work[v] EXCEPT !.state = o] ELSE work[v]]
  BY <1>1, OutcomesEnd DEF WorkEnds, WorkOK
<1>3. w \in Piece /\ n \in Ids(Def) /\ w # None /\ None \notin Works
  BY <1>1, PieceFacts DEF WorkOK
<1>4. plan' = plan
  BY DEF WorkEnds, Book, SettleJoin, Report, Advance, vars
<1>5. /\ WorkOK' /\ Works' = Works /\ Calm /\ ~Running(w)'
      /\ \A v \in Works : work'[v].life = work[v].life
  BY <1>1, <1>2, <1>4, EndFacts
<1>6. CASE dispatched[n] = w /\ n \in active /\ Kind(n) # "agent-turn"
  <2>1. Book(n, o) /\ threads' = threads \cup {u \in {Thread(Released, None)} : Alive(u)}
    BY <1>6 DEF WorkEnds
  <2>2. PICK q \in Heard(Def, n) : Advance(n, q) /\ status \in Live /\ dispatched' = [dispatched EXCEPT ![n] = None]
    BY <1>6, <2>1, BookHears
  <2>3. \A t \in threads : n \notin Bound(t.todo, t.wait)
    BY <1>1, <1>3, <1>6, RecordedFree DEF ThreadsOK
  <2>4. swept' = swept
    BY <2>2 DEF Advance
  <2>5. \A x \in Works : dispatched[x[1]] = x => dispatched'[x[1]] = x \/ ~Running(x)'
    <3>1. \A x \in Works : x[1] \in Ids(Def)
      BY <1>1, PieceFacts DEF WorkOK
    <3>2. \A m \in Ids(Def) : m # n => dispatched'[m] = dispatched[m]
      BY <1>1, <2>2 DEF Records
    <3>3. QED
      BY <1>5, <1>6, <3>1, <3>2
  <2>6. \A x \in Works' : Running(x)' => x \in Works /\ Running(x) /\ work'[x].life = work[x].life
    BY <1>5 DEF Calm
  <2>7. \A t \in threads : t \in threads' \/ t.wait # None
    BY <2>1
  <2>8. Kept'
    BY <1>1, <2>4, <2>5, <2>6, <2>7, KeptOn
  <2> HIDE DEF n
  <2>9. Duties'
    BY <1>5, <1>6, <2>1, <2>2, <2>3, OutsideReport
  <2>10. QED
    BY <2>8, <2>9
<1>7. CASE ~(dispatched[n] = w /\ n \in active /\ Kind(n) # "agent-turn")
  <2>1. UNCHANGED <<vars, dispatched>>
    BY <1>7 DEF WorkEnds
  <2>2. /\ active' = active /\ visits' = visits /\ dispatched' = dispatched
        /\ swept' = swept /\ doomed' = doomed
    BY <2>1 DEF vars
  <2>3. \E x \in {None, w} : threads' = threads \cup {u \in {Thread(<<>>, x)} : Alive(u)}
    <3>1. CASE dispatched[n] = w /\ n \in active
      <4>1. threads' = threads \cup {Thread(<<>>, w)} /\ Alive(Thread(<<>>, w))
        BY <1>3, <1>7, <3>1 DEF WorkEnds, Alive, Thread
      <4>2. QED
        BY <4>1
    <3>2. CASE ~(dispatched[n] = w /\ n \in active)
      BY <3>2, NoThread DEF WorkEnds
    <3>3. QED
      BY <3>1, <3>2
  <2>4. QED
    BY <1>1, <1>4, <1>5, <2>2, <2>3, OutsideQuiet
<1>8. QED
  BY <1>6, <1>7

(* A person can only answer for a gate, which nobody else answers for.       *)
LEMMA ContinueKeeps == ASSUME Grounds, Duties, Kept, ~Exhausted', NEW n, ContinueGate(n) PROVE Duties' /\ Kept'
<1>1. ThreadsOK /\ Records /\ WorkOK
  BY DEF Duties
<1>2. /\ Advance(n, "human:continue") /\ n \in active /\ status = "awaiting-human" /\ n \in Ids(Def)
      /\ dispatched' = [dispatched EXCEPT ![n] = None]
      /\ threads' = threads \cup {u \in {Thread(Released, None)} : Alive(u)}
      /\ work' = work /\ life' = life
  BY DEF ContinueGate, Continue, Grounds, TypeOK
<1>3. ~Dispatchable(n)
  <2>1. PICK g \in active : Kind(g) = "human-gate"
    BY <1>2 DEF Grounds, GateInv
  <2>2. g \in OfKind(Def, "human-gate") /\ active \subseteq Ids(Def)
    BY <2>1 DEF OfKind, Kind, Grounds, TypeOK
  <2>3. Alone(Def, Strands(Def), g)
    BY <2>2 DEF Grounds, GatesStandAlone
  <2>4. active = {g}
    BY <2>2, <2>3, AloneThen DEF Grounds
  <2>5. QED
    BY <1>2, <2>1, <2>4 DEF Dispatchable
<1>4. plan' = plan /\ swept' = swept
  BY <1>2 DEF Advance
<1>5. /\ WorkOK' /\ Works' = Works /\ Calm
      /\ \A w \in Works : work'[w].life = work[w].life
  BY <1>1, <1>2, <1>4, StopFacts
<1>6. \A t \in threads : n \notin Bound(t.todo, t.wait)
  BY <1>1, <1>3, BoundActive DEF ThreadsOK
<1>7. "human:continue" \in Heard(Def, n) /\ status \in Live
  BY <1>2 DEF Heard, Live
<1>8. Duties'
  BY <1>2, <1>5, <1>6, <1>7, OutsideReport
<1>9. \A m \in Ids(Def) : dispatched'[m] = dispatched[m]
  BY <1>1, <1>2, <1>3 DEF Records
<1>10. Kept'
  <2>1. \A x \in Works : dispatched[x[1]] = x => dispatched'[x[1]] = x \/ ~Running(x)'
    BY <1>1, <1>9, PieceFacts DEF WorkOK
  <2>2. \A x \in Works' : Running(x)' => x \in Works /\ Running(x) /\ work'[x].life = work[x].life
    BY <1>5 DEF Calm
  <2>3. \A t \in threads : t \in threads' \/ t.wait # None
    BY <1>2
  <2>4. QED
    BY <1>2, <1>4, <2>1, <2>2, <2>3, KeptOn
<1>11. QED
  BY <1>8, <1>10

-----------------------------------------------------------------------------
(* Deadlines, restarts, beginnings                                           *)

LEMMA JobCancelledKeeps ==
  ASSUME Grounds, Duties, ~Exhausted', NEW n, JobCancelled(n) PROVE Duties' /\ Kept'
<1>1. ThreadsOK /\ Records /\ WorkOK
  BY DEF Duties
<1>2. /\ Book(n, "blocked") /\ n \in active /\ n \in doomed /\ swept = "found" /\ work' = work /\ life' = life
      /\ threads' = threads \cup {u \in {Thread(Released, None)} : Alive(u)}
  BY DEF JobCancelled
<1>3. PICK q \in Heard(Def, n) : Advance(n, q) /\ status \in Live /\ dispatched' = [dispatched EXCEPT ![n] = None]
  BY <1>2, BookHears
<1>4. plan' = plan /\ swept' = "found"
  BY <1>2, <1>3 DEF Advance
<1>5. WorkOK' /\ Calm
  BY <1>1, <1>2, <1>4, StopFacts
<1>6. dispatched[n] \in Works /\ None \notin Works
  BY <1>1, <1>2, PieceFacts DEF Records, WorkOK
<1>7. \A t \in threads : n \notin Bound(t.todo, t.wait)
  BY <1>1, <1>6, RecordedFree DEF ThreadsOK
<1>8. Duties'
  BY <1>2, <1>3, <1>5, <1>7, OutsideReport
<1>9. QED
  BY <1>4, <1>8 DEF Kept

LEMMA SweepRunKeeps == ASSUME Grounds, Duties, SweepRun PROVE Duties' /\ Kept'
<1> DEFINE S == {w \in Works : \E n \in active : dispatched[n] = w /\ Running(w)}
<1>1. ThreadsOK /\ Records /\ WorkOK /\ TypeOK
  BY DEF Duties, Grounds
<1>2. /\ plan' = plan /\ active' = active /\ visits' = visits /\ dispatched' = dispatched /\ life' = life
      /\ swept' = "found" /\ doomed' = AttachedWork("deterministic")
      /\ threads' = threads \cup {Thread(<<>>, dispatched[n]) : n \in AttachedWork("agent-turn")}
  BY DEF SweepRun, SweepFinds
<1>3. work' = [w \in Works |-> IF w \in S THEN [work[w] EXCEPT !.state = "blocked"] ELSE work[w]]
  BY DEF SweepRun
<1>4. "blocked" \in Ends
  BY DEF Ends
<1> HIDE DEF S
<1>5. WorkOK' /\ Works' = Works /\ Calm /\ \A w \in S : ~Running(w)'
  BY <1>1, <1>2, <1>3, <1>4, EndFacts
<1>6. \A k : \A n \in AttachedWork(k) : n \in active /\ dispatched[n] \in Works /\ dispatched[n] \in S
  BY DEF AttachedWork, Running, S
<1>7. ThreadsOK'
  <2>1. \A t \in threads : Sound(t.todo, t.wait)' /\ Bound(t.todo, t.wait)' \subseteq Bound(t.todo, t.wait)
    <3>1. \A t \in threads : \A m \in Bound(t.todo, t.wait) : m \in active'
      BY <1>1, <1>2, BoundActive DEF ThreadsOK
    <3>2. QED
      BY <1>1, <1>2, <1>5, <3>1, SoundKept DEF ThreadsOK
  <2>2. ASSUME NEW w \in Works
        PROVE  /\ Alive(Thread(<<>>, w)) /\ Thread(<<>>, w).todo = <<>> /\ Thread(<<>>, w).wait = w
               /\ Sound(<<>>, w)' /\ Bound(<<>>, w)' = {}
    <3>1. w \in Piece /\ w # None /\ ~Lost(w)'
      BY <1>1, <1>5, PieceFacts DEF WorkOK, Lost
    <3>2. Items(<<>>) = {} /\ <<>> \in Seq(SUBSET Item) /\ \A W : Once(W, <<>>)
      BY DEF Items, Once
    <3>3. QED
      BY <1>2, <3>1, <3>2, ConstantsKept DEF Alive, Thread, Sound, Bound, Binding
  <2>3. \A t \in threads' : \/ t \in threads /\ Alive(t) /\ Sound(t.todo, t.wait)'
                                 /\ Bound(t.todo, t.wait)' \subseteq Bound(t.todo, t.wait)
                            \/ Alive(t) /\ Sound(t.todo, t.wait)' /\ Bound(t.todo, t.wait)' = {}
    <3>1. TAKE t \in threads'
    <3>2. CASE t \in threads
      BY <1>1, <2>1, <3>2 DEF ThreadsOK
    <3>3. CASE \E n \in AttachedWork("agent-turn") : t = Thread(<<>>, dispatched[n])
      <4>1. PICK w \in Works : t = Thread(<<>>, w)
        BY <1>6, <3>3
      <4>2. QED
        BY <2>2, <4>1
    <3>4. QED
      BY <1>2, <3>2, <3>3
  <2>4. \A t, u \in threads' : t # u => Bound(t.todo, t.wait)' \cap Bound(u.todo, u.wait)' = {}
    BY <1>1, <2>3 DEF ThreadsOK
  <2>5. QED
    BY <2>3, <2>4 DEF ThreadsOK, Alive
<1>8. Records'
  <2>1. Ids(Def)' = Ids(Def) /\ Piece' = Piece /\ \A m : Dispatchable(m)' <=> Dispatchable(m)
    BY <1>2, ConstantsKept, PlanKept DEF Dispatchable, Kind
  <2>2. \A m \in doomed' : m \in active' /\ dispatched'[m] \in Works' /\ ~Running(dispatched[m])'
    <3>1. \A w \in S : ~(w \in Works' /\ work'[w].state = "live")
      BY <1>5 DEF Running
    <3>2. \A m \in doomed' : m \in active' /\ dispatched'[m] \in Works' /\ dispatched'[m] \in S
      BY <1>2, <1>5, <1>6
    <3>3. QED
      BY <3>1, <3>2 DEF Running
  <2>3. QED
    BY <1>1, <1>2, <2>1, <2>2 DEF Records
<1>9. QED
  BY <1>2, <1>5, <1>7, <1>8 DEF Duties, Kept

(* A run that expires was live, or nothing is left to answer for.            *)
LEMMA RunExpiresKeeps == ASSUME Grounds, Duties, ~Exhausted', RunExpires PROVE Duties' /\ Kept'
<1>1. ThreadsOK /\ Records /\ WorkOK /\ LiveRunHasWork
  BY DEF Duties, Grounds
<1>2. status \notin Live
  BY DEF RunExpires, Expire, Terminate, Exhausted
<1>3. active = {} /\ active' = {} /\ plan' = plan /\ visits' = visits /\ swept' = "done"
  BY <1>1, <1>2 DEF RunExpires, Expire, LiveRunHasWork
<1>4. dispatched' = [n \in Ids(Def) |-> None] /\ work' = work /\ life' = life /\ threads' = threads
  BY DEF RunExpires
<1>5. WorkOK' /\ Works' = Works
  BY <1>1, <1>3, <1>4, StopFacts
<1>6. \A t \in threads : Bound(t.todo, t.wait) = {}
  BY <1>1, <1>3, BoundActive DEF ThreadsOK
<1>7. ThreadsOK'
  <2>1. threads' = threads \cup {u \in {Thread(<<>>, None)} : Alive(u)}
    BY <1>4, NoThread
  <2>2. QED
    BY <1>1, <1>3, <1>5, <1>6, <2>1, AddedStep
<1>8. Records'
  <2>1. Ids(Def)' = Ids(Def)
    BY <1>3, PlanKept
  <2>2. QED
    BY <1>3, <1>4, <2>1 DEF Records
<1>9. QED
  BY <1>3, <1>5, <1>7, <1>8 DEF Duties, Kept

(* What a boot will do is about nodes with a record or about those without.  *)
LEMMA BootFacts ==
  ASSUME Records, TypeOK, NEW s, s = BootWork
  PROVE  /\ s \in Seq(SUBSET Item) /\ Resting(s) /\ \A W : Once(W, s)
         /\ \A x \in Items(s) : IF x[1] = "look-up" THEN dispatched[x[2]] = x[3] /\ x[3][1] = x[2] ELSE Holds(x)
<1> DEFINE open == {n \in active : dispatched[n] = None}
           A == {<<"settle", n>> : n \in open \cap Joins}
                  \cup {<<"replay", n>> : n \in {n \in open : Dispatchable(n) /\ claims[n] # 0}}
                  \cup {<<"interrupt", n>> : n \in {n \in open : Dispatchable(n) /\ claims[n] = 0}}
           B == {<<"look-up", n, dispatched[n]>> : n \in {n \in Ids(Def) : dispatched[n] # None}}
           a == Level(A)
           b == Level(B)
<1>1. s = a \o b
  BY DEF BootWork
<1>2. \A x \in A : /\ x[2] \in open /\ (x = <<"settle", x[2]>> \/ x = <<"replay", x[2]>> \/ x = <<"interrupt", x[2]>>)
                   /\ x[1] = "settle" => x[2] \in Joins
                   /\ x[1] = "replay" => Dispatchable(x[2]) /\ claims[x[2]] # 0
                   /\ x[1] = "interrupt" => Dispatchable(x[2]) /\ claims[x[2]] = 0
                   /\ x[1] \in {"settle", "replay", "interrupt"}
  OBVIOUS
<1>3. \A x \in B : /\ x[1] = "look-up" /\ x[2] \in Ids(Def) /\ x[3] = dispatched[x[2]] /\ dispatched[x[2]] # None
                   /\ x = <<"look-up", x[2], dispatched[x[2]]>>
  OBVIOUS
<1>4. \A n \in open : n \in active /\ n \in Ids(Def) /\ dispatched[n] = None
  BY DEF TypeOK
<1> HIDE DEF open, A, B
<1>5. A \in SUBSET Item /\ B \in SUBSET Item
  <2>1. \A n \in open : <<"settle", n>> \in Item /\ <<"replay", n>> \in Item /\ <<"interrupt", n>> \in Item
    BY <1>4 DEF Item
  <2>2. A \in SUBSET Item
    BY <1>2, <2>1
  <2>3. \A n \in Ids(Def) : dispatched[n] # None => <<"look-up", n, dispatched[n]>> \in Item
    BY DEF Records, Item
  <2>4. B \in SUBSET Item
    BY <1>3, <2>3
  <2>5. QED
    BY <2>2, <2>4
<1>6. a \in Seq(SUBSET Item) /\ Items(a) = A /\ b \in Seq(SUBSET Item) /\ Items(b) = B
  BY <1>5, LevelFacts
<1>7. \A W : Once(W, a) /\ Once(W, b)
  <2>1. \A W : \A x, y \in A : Binds(W, x) /\ Binds(W, y) /\ x[2] = y[2] => x = y
    <3>1. ASSUME NEW W, NEW x \in A, NEW y \in A, Binds(W, x), Binds(W, y), x[2] = y[2] PROVE x = y
      <4>1. x[1] # "settle" /\ y[1] # "settle"
        BY <3>1 DEF Binds, Duty, Making
      <4>2. x[1] = y[1]
        BY <1>2, <3>1, <4>1
      <4>3. QED
        BY <1>2, <3>1, <4>1, <4>2
    <3>2. QED
      BY <3>1
  <2>2. \A W : \A x, y \in B : Binds(W, x) /\ Binds(W, y) /\ x[2] = y[2] => x = y
    BY <1>3
  <2>3. QED
    BY <1>5, <2>1, <2>2, LevelFacts
<1> HIDE DEF a, b
<1>8. s \in Seq(SUBSET Item) /\ \A x \in Items(s) : x \in A \/ x \in B
  <2>1. a \o b \in Seq(SUBSET Item) /\ Items(a \o b) = Items(a) \cup Items(b)
    BY <1>6, StacksJoin
  <2>2. QED
    BY <1>1, <1>6, <2>1
<1>9. \A W : Once(W, s)
  <2>1. \A W : Binding(W, a) \cap Binding(W, b) = {}
    BY <1>2, <1>3, <1>4, <1>6 DEF Binding
  <2>2. \A W : Once(W, a \o b)
    BY <1>6, <1>7, <2>1, OnceJoined
  <2>3. QED
    BY <1>1, <2>2
<1>10. Resting(s)
  BY <1>2, <1>3, <1>8 DEF Resting, Making
<1>11. \A x \in Items(s) : IF x[1] = "look-up" THEN dispatched[x[2]] = x[3] /\ x[3][1] = x[2] ELSE Holds(x)
  <2>1. \A x \in A : x[1] # "look-up" /\ Holds(x)
    BY <1>2, <1>4 DEF Holds, Duty, Making
  <2>2. \A x \in B : dispatched[x[2]] = x[3] /\ x[3][1] = x[2]
    BY <1>3 DEF Records
  <2>3. QED
    BY <1>3, <1>8, <2>1, <2>2
<1>12. QED
  BY <1>8, <1>9, <1>10, <1>11

(* A restart forgets the threads. The records survive it, and the one thread *)
(* of the boot answers for each of them.                                     *)
LEMMA RestartKeeps ==
  ASSUME Grounds, Duties, NEW lost, NEW interrupted, Restart(lost, interrupted)
  PROVE  Duties' /\ Kept'
<1> DEFINE States == {"live"} \cup Ends
           OnRecord(w) == \E n \in Ids(Def) : dispatched[n] = w
<1>1. Records /\ WorkOK /\ TypeOK
  BY DEF Duties, Grounds
<1>2. /\ plan' = plan /\ active' = active /\ visits' = visits /\ dispatched' = dispatched
      /\ swept' = swept /\ doomed' = doomed /\ swept # "found" /\ life' = life + 1
      /\ \E b \in {TRUE, FALSE} : threads' = IF b THEN {Thread(BootWork, Others)} ELSE {}
  BY DEF Restart, vars
<1>3. work' = [w \in Works \ lost |->
                 [state |-> IF w \in interrupted THEN "fail" ELSE work[w].state,
                  life  |-> IF OnRecord(w) THEN life + 1 ELSE work[w].life]]
  BY DEF Restart
<1>4. Def' = Def /\ Item' = Item /\ Piece' = Piece /\ Joins' = Joins
  BY <1>2, ConstantsKept
<1> HIDE DEF OnRecord
<1>5. Works' = Works \ lost
  BY <1>3 DEF Works
<1>6. \A w \in Works' : /\ work'[w] \in [state : States, life : Nat] /\ work'[w].life <= life + 1
                        /\ work'[w].life = life + 1 => OnRecord(w)
  <2>1. \A w \in Works : work[w].state \in States /\ work[w].life \in Nat /\ work[w].life <= life
    <3>1. \A w \in Works : work[w] \in [state : States, life : Nat] /\ work[w].life <= life
      BY <1>1 DEF WorkOK
    <3>2. QED
      BY <3>1
  <2>2. "fail" \in States /\ life \in Nat
    BY <1>1 DEF Ends, WorkOK
  <2>3. ASSUME NEW w \in Works'
        PROVE  /\ work'[w] \in [state : States, life : Nat] /\ work'[w].life <= life + 1
               /\ work'[w].life = life + 1 => OnRecord(w)
    <3>1. PICK s \in States : s = IF w \in interrupted THEN "fail" ELSE work[w].state
      BY <1>5, <2>1, <2>2, <2>3
    <3>2. PICK k \in Nat : k = IF OnRecord(w) THEN life + 1 ELSE work[w].life
      BY <1>5, <2>1, <2>2, <2>3
    <3>3. work'[w] = [state |-> s, life |-> k]
      BY <1>3, <1>5, <2>3, <3>1, <3>2
    <3>4. k <= life + 1 /\ (k = life + 1 => OnRecord(w))
      BY <1>5, <2>1, <2>2, <2>3, <3>2
    <3>5. QED
      BY <3>3, <3>4
  <2>4. QED
    BY <2>3
<1>7. WorkOK'
  <2>1. work' \in [Works' -> [state : States, life : Nat]]
    BY <1>3, <1>5, <1>6
  <2>2. life' \in Nat /\ Works' \subseteq Piece'
    BY <1>1, <1>2, <1>4, <1>5 DEF WorkOK
  <2>3. QED
    BY <1>2, <1>6, <2>1, <2>2 DEF WorkOK
<1>8. Records'
  <2>1. \A m : Dispatchable(m)' <=> Dispatchable(m)
    BY <1>4 DEF Dispatchable, Kind
  <2>2. QED
    BY <1>1, <1>2, <1>4, <2>1 DEF Records
<1>9. ThreadsOK'
  <2>1. PICK s : s = BootWork
    OBVIOUS
  <2>2. /\ s \in Seq(SUBSET Item) /\ Resting(s) /\ \A W : Once(W, s)
        /\ \A x \in Items(s) : IF x[1] = "look-up" THEN dispatched[x[2]] = x[3] /\ x[3][1] = x[2] ELSE Holds(x)
    BY <1>1, <2>1, BootFacts
  <2>3. ~Lost(Others)'
    BY DEF Lost
  <2>4. \A x \in Items(s) : Holds(x)'
    BY <1>2, <1>4, <2>2 DEF Holds, Dispatchable, Kind, Resting, Making, Duty
  <2>5. Sound(s, Others)'
    BY <1>4, <2>2, <2>3, <2>4 DEF Sound, Resting
  <2>6. Alive(Thread(s, Others)) /\ Thread(s, Others).todo = s /\ Thread(s, Others).wait = Others
    BY DEF Alive, Thread, Others, None
  <2>7. \A t \in threads' : t = Thread(s, Others)
    BY <1>2, <2>1
  <2>8. QED
    BY <2>5, <2>6, <2>7 DEF ThreadsOK, Alive
<1>10. Kept'
  <2>1. ASSUME NEW w \in Works', work'[w].life = life' PROVE dispatched'[w[1]] = w
    <3>1. PICK n \in Ids(Def) : dispatched[n] = w
      BY <1>2, <1>6, <2>1 DEF OnRecord
    <3>2. w # None
      BY <1>1, <1>5, <2>1, PieceFacts DEF WorkOK
    <3>3. QED
      BY <1>1, <1>2, <3>1, <3>2 DEF Records
  <2>2. QED
    BY <2>1 DEF Kept, Attended
<1>11. QED
  BY <1>7, <1>8, <1>9, <1>10 DEF Duties

(* Before a run is started there is nothing to answer for.                   *)
LEMMA LaunchKeeps == ASSUME Grounds, Duties, Kept, ~Exhausted', Launch PROVE Duties' /\ Kept'
<1>1. Records /\ WorkOK /\ ThreadsOK /\ TypeOK /\ LiveRunHasWork
  BY DEF Duties, Grounds
<1>2. /\ Start /\ threads' = {u \in {Thread(Released, None)} : Alive(u)} /\ work' = work /\ life' = life
      /\ dispatched' = dispatched /\ plan' = plan /\ swept' = swept /\ doomed' = doomed
  BY DEF Launch, Start
<1>3. BeginsIn(EntryNodes(Def)) /\ TypeOK'
  BY <1>1, <1>2, StartMoves, StartType
<1>4. active = {}
  BY <1>1, <1>3 DEF LiveRunHasWork, Live, BeginsIn
<1>5. \A m \in Ids(Def) : dispatched[m] = None
  BY <1>1, <1>4 DEF Records
<1>6. \A m \in Ids(Def) : visits'[m] > visits[m] => m \in active'
  BY <1>3 DEF BeginsIn, Exhausted
<1>7. WorkOK' /\ Works' = Works /\ Calm
  BY <1>1, <1>2, StopFacts
<1>8. Def' = Def /\ Item' = Item /\ Piece' = Piece
  BY <1>2, ConstantsKept
<1>9. ThreadsOK'
  <2>1. PICK s : s = Released
    OBVIOUS
  <2>2. visits' \in [Ids(Def) -> Nat]
    BY <1>3, <1>8 DEF TypeOK
  <2>3. PICK K : K = {}
    OBVIOUS
  <2>4. \A m \in Ids(Def) : visits'[m] > visits[m] /\ active' # {} =>
          m \in active' /\ m \notin K /\ dispatched'[m] = None
    BY <1>2, <1>5, <1>6, <2>3
  <2>5. s \in Seq(SUBSET Item) /\ Resting(s) /\ (\A W : Once(W, s)) /\ \A x \in Items(s) : Holds(x)'
    BY <1>1, <1>2, <2>1, <2>2, <2>4, ReleasedFacts
  <2>6. ~Lost(None)'
    BY DEF Lost
  <2>7. Sound(s, None)'
    BY <1>8, <2>5, <2>6 DEF Sound, Resting
  <2>8. \A t \in threads' : Alive(t) /\ t = Thread(s, None) /\ t.todo = s /\ t.wait = None
    BY <1>2, <2>1 DEF Thread
  <2>9. QED
    BY <2>7, <2>8 DEF ThreadsOK, Alive
<1>10. Records'
  <2>1. dispatched' = [m \in Ids(Def)' |-> dispatched'[m]] /\ \A m \in Ids(Def)' : dispatched'[m] = None
    BY <1>1, <1>2, <1>5, <1>8 DEF Records
  <2>2. swept' = "found" => doomed' = {}
    BY <1>1, <1>2, <1>4 DEF Records
  <2>3. QED
    BY <2>1, <2>2 DEF Records
<1>11. Kept'
  <2>1. ASSUME swept = "no", NEW w \in Works, Running(w), work[w].life = life PROVE FALSE
    <3>1. Attended(w)
      BY <2>1 DEF Kept
    <3>2. dispatched[w[1]] # w
      BY <1>1, <1>5, <2>1, PieceFacts DEF WorkOK
    <3>3. PICK t \in threads : t.todo # <<>> /\ Head(t.todo) \cap Recording(w) # {}
      BY <3>1, <3>2 DEF Attended
    <3>4. PICK x \in Head(t.todo) : x \in Recording(w)
      BY <3>3
    <3>5. x[1] \in Making
      BY <3>4 DEF Recording, Making
    <3>6. t.todo \in Seq(SUBSET Item) /\ \A y \in Items(t.todo) : Holds(y)
      BY <1>1 DEF ThreadsOK, Sound
    <3>7. x \in Items(t.todo)
      <4>1. 1 \in DOMAIN t.todo /\ Head(t.todo) = t.todo[1]
        BY <3>3, <3>6
      <4>2. QED
        BY <3>4, <4>1 DEF Items
    <3>8. QED
      BY <1>4, <3>5, <3>6, <3>7 DEF Holds, Duty
  <2>2. QED
    BY <1>2, <2>1 DEF Kept, Running, Works
<1>12. QED
  BY <1>7, <1>9, <1>10, <1>11 DEF Duties

(* A step that leaves the dispatcher and the nodes of the run alone.         *)
LEMMA TickKeeps ==
  ASSUME Duties, Kept, plan' = plan, active' = active, visits' = visits, swept' = swept, doomed' = doomed,
         UNCHANGED dispatchVars
  PROVE  Duties' /\ Kept'
<1>1. WorkOK /\ dispatched' = dispatched /\ work' = work /\ life' = life /\ threads' = threads
  BY DEF Duties, dispatchVars
<1>2. WorkOK' /\ Works' = Works /\ Calm /\ \A w \in Works : work'[w].life = work[w].life
  BY <1>1, StopFacts
<1>3. threads' = threads \cup {u \in {Thread(<<>>, None)} : Alive(u)} /\ None \in {None} \cup Works
  BY <1>1, NoThread
<1>4. QED
  BY <1>1, <1>2, <1>3, OutsideQuiet

-----------------------------------------------------------------------------
(* The inductive invariant                                                   *)

(* An end by a limit is final, and a sweep that found a node is not undone.  *)
LEMMA SpentStays == ASSUME TypeOK, LiveRunHasWork, [Next]_vars, Exhausted PROVE Exhausted'
<1>1. status \in Ended /\ active = {}
  BY DEF TypeOK, Exhausted, LiveRunHasWork, Live, Ended
<1>2. reason' = reason
  <2>1. CASE Sweep \/ Tick \/ UNCHANGED vars
    BY <2>1 DEF Sweep, SweepFinds, Tick, vars
  <2>2. CASE Expire
    BY <1>1, <2>2 DEF Expire, Live, Ended
  <2>3. CASE \E n \in Ids(Def) : Step(n)
    BY <1>1, <2>3 DEF Step, Report, SettleJoin, Continue
  <2>4. CASE Start \/ \E n \in plan.adoptable : \E k \in 1..Limits.maxVisitsPerNode : Adopt(n, k)
    BY <1>1, <2>4 DEF Start, Adopt, Ended
  <2>5. QED
    BY <2>1, <2>2, <2>3, <2>4 DEF Next
<1>3. QED
  BY <1>2 DEF Exhausted

Orderly == sweeps = 0 /\ ~Exhausted
DispatchInv == sweeps \in Nat /\ (Orderly => Duties /\ Kept)

LEMMA SweepsCount == ASSUME sweeps \in Nat, [DispatchNext]_allVars PROVE sweeps' \in Nat /\ (sweeps' = 0 => sweeps' = sweeps)
<1>1. sweeps' = sweeps \/ sweeps' = sweeps + 1
  <2>1. CASE \E t \in threads : ThreadStep(t) \/ Resume(t)
    <3>1. \A t, n : \/ SettleNode(t, n) \/ Replay(t, n) \/ Interrupt(t, n) \/ Resume(t) => sweeps' = sweeps
      BY DEF SettleNode, Replay, Interrupt, Resume
    <3>2. \A t, n, x : Claim(t, n, x) \/ CreateTurn(t, n, x) \/ Complete(t, n, x) => sweeps' = sweeps
      BY DEF Claim, CreateTurn, Complete
    <3>3. \A t, n, x : CreateJob(t, n, x) \/ Attach(t, n, x) \/ StartFails(t, n, x) => sweeps' = sweeps
      BY DEF CreateJob, Attach, StartFails
    <3>4. \A t, n, x : GiveUp(t, n, x) \/ Cancel(t, n, x) \/ LookUp(t, n, x) => sweeps' = sweeps
      BY DEF GiveUp, Cancel, LookUp
    <3>5. QED
      BY <2>1, <3>1, <3>2, <3>3, <3>4 DEF ThreadStep
  <2>2. CASE \/ \E w \in Works : \E o \in Outcomes(Def.node[w[1]]) : WorkEnds(w, o)
             \/ \E n \in doomed : JobCancelled(n)
             \/ RunExpires \/ Launch \/ SweepRun
    BY <2>2 DEF WorkEnds, JobCancelled, RunExpires, Launch, SweepRun
  <2>3. CASE \/ \E n \in Ids(Def) : ContinueGate(n)
             \/ \E late \in SUBSET active : SweepNodes(late)
             \/ \E lost, interrupted \in SUBSET Works : Restart(lost, interrupted)
    BY <2>3 DEF ContinueGate, SweepNodes, Restart
  <2>4. CASE (Tick /\ UNCHANGED dispatchVars) \/ UNCHANGED allVars
    BY <2>4 DEF dispatchVars, allVars
  <2>5. QED
    BY <2>1, <2>2, <2>3, <2>4 DEF DispatchNext, Progress
<1>2. QED
  BY <1>1

LEMMA DispatchBegins == ASSUME DispatchInit PROVE DispatchInv
<1>1. TypeOK /\ active = {} /\ swept = "no" /\ threads = {} /\ life = 0 /\ sweeps = 0 /\ work = <<>>
  BY InitType DEF DispatchInit, Init
<1>2. Works = {}
  BY <1>1 DEF Works
<1>3. WorkOK /\ Kept
  BY <1>1, <1>2 DEF WorkOK, Kept
<1>4. Records
  BY <1>1 DEF DispatchInit, Records
<1>5. ThreadsOK
  BY <1>1 DEF ThreadsOK
<1>6. QED
  BY <1>1, <1>3, <1>4, <1>5 DEF DispatchInv, Duties

LEMMA DispatchStep == ASSUME Grounds, DispatchInv, [DispatchNext]_allVars PROVE DispatchInv'
<1>1. sweeps' \in Nat /\ (sweeps' = 0 => sweeps' = sweeps)
  BY SweepsCount DEF DispatchInv
<1>2. TypeOK /\ LiveRunHasWork /\ [Next]_vars
  BY DispatchSteps DEF Grounds
<1>3. Exhausted => Exhausted'
  BY <1>2, SpentStays
<1>4. SUFFICES ASSUME Orderly' PROVE Duties' /\ Kept'
  BY <1>1 DEF DispatchInv
<1>5. ~Exhausted' /\ sweeps' = sweeps /\ Duties /\ Kept
  BY <1>1, <1>3, <1>4 DEF Orderly, DispatchInv
<1>6. CASE \E t \in threads : ThreadStep(t) \/ Resume(t)
  BY <1>5, <1>6, ThreadKeeps, ResumeKeeps
<1>7. CASE \E w \in Works : \E o \in Outcomes(Def.node[w[1]]) : WorkEnds(w, o)
  BY <1>5, <1>7, WorkEndsKeeps
<1>8. CASE \E n \in doomed : JobCancelled(n)
  BY <1>5, <1>8, JobCancelledKeeps
<1>9. CASE RunExpires
  BY <1>5, <1>9, RunExpiresKeeps
<1>10. CASE \E n \in Ids(Def) : ContinueGate(n)
  BY <1>5, <1>10, ContinueKeeps
<1>11. CASE Launch
  BY <1>5, <1>11, LaunchKeeps
<1>12. CASE SweepRun
  BY <1>5, <1>12, SweepRunKeeps
<1>13. CASE \E lost, interrupted \in SUBSET Works : Restart(lost, interrupted)
  BY <1>5, <1>13, RestartKeeps
<1>14. CASE \E late \in SUBSET active : SweepNodes(late)
  BY <1>5, <1>14 DEF SweepNodes, Orderly, DispatchInv
<1>15. CASE Tick /\ UNCHANGED dispatchVars
  BY <1>5, <1>15, TickKeeps DEF Tick
<1>16. CASE UNCHANGED allVars
  BY <1>5, <1>16, TickKeeps DEF allVars, vars
<1>17. QED
  BY <1>6, <1>7, <1>8, <1>9, <1>10, <1>11, <1>12, <1>13, <1>14, <1>15, <1>16 DEF DispatchNext, Progress

-----------------------------------------------------------------------------
(* What the dispatcher promises                                              *)

(* The hypothesis is about the graphs alone: every node is on a strand, and  *)
(* nothing is ever active beside a gate.                                     *)
LEMMA DispatchOrderly ==
  ASSUME \A p \in Plan : OnStrands(p.def) /\ GatesStandAlone(p.def)
  PROVE  DispatchSpec => [](DispatchInv /\ TypeOK /\ LiveRunHasWork)
<1>1. DispatchInit => DispatchInv
  BY DispatchBegins
<1>2. TypeOK => OnStrands(Def) /\ GatesStandAlone(Def)
  BY DEF TypeOK, Def
<1>3. TypeOK /\ LiveRunHasWork /\ StrandInv /\ GateInv /\ DispatchInv /\ [DispatchNext]_allVars => DispatchInv'
  BY <1>2, DispatchStep DEF Grounds
<1>4. QED
  BY <1>1, <1>3, DispatchImplementsRun, RunTypeCorrect, RunHasWork, RunOnStrands, GatesAreAsked, PTL
     DEF DispatchSpec

(* What is on record for a node was made for the visit it is on, for every   *)
(* graph of that shape, over loops, joins, replayed starts and any number of *)
(* restarts, until the deadline sweep first finds a node                     *)
(* (qaap-workflow-dispatcher.ts:28-31,                                       *)
(* qaap-workflow-runtime-ports.ts:450-454).                                  *)
THEOREM RecordsAreOfThisVisit ==
  ASSUME \A p \in Plan : OnStrands(p.def) /\ GatesStandAlone(p.def)
  PROVE  DispatchSpec => [](sweeps = 0 => RecordIsOfThisVisit)
<1>1. ASSUME DispatchInv, TypeOK, LiveRunHasWork, sweeps = 0 PROVE RecordIsOfThisVisit
  <2>1. CASE Exhausted
    <3>1. active = {}
      BY <1>1, <2>1 DEF TypeOK, LiveRunHasWork, Exhausted, Live, Ended
    <3>2. QED
      BY <3>1 DEF RecordIsOfThisVisit
  <2>2. CASE ~Exhausted
    <3>1. Records
      BY <1>1, <2>2 DEF DispatchInv, Orderly, Duties
    <3>2. QED
      BY <1>1, <3>1 DEF Records, RecordIsOfThisVisit, TypeOK
  <2>3. QED
    BY <2>1, <2>2
<1>2. QED
  BY <1>1, DispatchOrderly, PTL

(* No work of this life runs behind the back of the graph, for every graph   *)
(* of that shape and any number of restarts: work that is made is recorded   *)
(* in the turn that makes it, a record is cleared only by the report of its  *)
(* end, and a refused one is cancelled                                       *)
(* (qaap-workflow-dispatcher.ts:155-160, 214-248).                           *)
THEOREM NoWorkStrays ==
  ASSUME \A p \in Plan : OnStrands(p.def) /\ GatesStandAlone(p.def)
  PROVE  DispatchSpec => []NothingStrays
<1>1. ASSUME DispatchInv, TypeOK, sweeps = 0, swept = "no", ~Exhausted,
             NEW w \in Works, Running(w), work[w].life = life
      PROVE  \/ dispatched[w[1]] = w /\ w[1] \in active
             \/ \E t \in threads : t.todo # <<>> /\
                  Head(t.todo) \cap {<<"complete", w[1], w>>, <<"attach", w[1], w>>} # {}
  <2>1. Records /\ WorkOK /\ Attended(w)
    BY <1>1 DEF DispatchInv, Orderly, Duties, Kept
  <2>2. w # None /\ w[1] \in Ids(Def)
    BY <1>1, <2>1, PieceFacts DEF WorkOK
  <2>3. dispatched[w[1]] = w => w[1] \in active
    BY <2>1, <2>2 DEF Records
  <2>4. QED
    BY <2>1, <2>3 DEF Attended, Recording
<1>2. DispatchInv /\ TypeOK => NothingStrays
  BY <1>1 DEF NothingStrays
<1>3. QED
  BY <1>2, DispatchOrderly, PTL
=============================================================================
