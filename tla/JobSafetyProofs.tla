--------------------------- MODULE JobSafetyProofs ---------------------------
(***************************************************************************)
(* The budgets, the workspace lease and the dependencies of the job        *)
(* runtime, for every set of jobs and every dependency graph.              *)
(***************************************************************************)
EXTENDS JobRuntimeProofs

-----------------------------------------------------------------------------
(* A job comes to run only through the drain loop's canStart.               *)

LEMMA SettlingStopsRunning ==
  ASSUME TableInv, NEW S \in SUBSET Job, NEW how \in Finished, Finish(S, how)
  PROVE  Running' \subseteq Running
BY DEF Finish, Running, In, Finished, Succeeded, Unsuccessful

LEMMA FailingStopsRunning ==
  ASSUME TableInv, NEW j \in Job, NEW how \in Finished, FailAttempt(j, how)
  PROVE  Running' \subseteq Running
<1>1. CASE ~Retryable(j, attempt[j])
  BY <1>1, SettlingStopsRunning DEF FailAttempt
<1>2. CASE Retryable(j, attempt[j])
  BY <1>2 DEF FailAttempt, Running, In, TableInv, TypeOK, TableType
<1>3. QED
  BY <1>1, <1>2

LEMMA TableUnmoved == UNCHANGED table => Running' \subseteq Running
BY DEF table, Running, In

LEMMA OnlyTheDrainStarts ==
  ASSUME TableInv, [Next]_vars
  PROVE  Running' \subseteq Running \/ \E j \in Job : DrainStart(j)
<1>0. /\ \A how \in {"failed", "timed_out", "succeeded", "cancelled", "interrupted",
                     "dependency_failed"} : how \in Finished
      /\ state \in [Job -> JobState]
  BY DEF Finished, Succeeded, Unsuccessful, TableInv, TypeOK, TableType
<1>1. ASSUME NEW j \in Job,
             Create(j) \/ Cancel(j) \/ AttemptTimeout(j) \/ BackoffElapses(j) \/ RetryWake(j)
      PROVE  Running' \subseteq Running
  <2>1. CASE Create(j)
    BY <2>1, <1>0 DEF Create, InitialState, Running, In
  <2>2. CASE Cancel(j)
    BY <2>2, <1>0, SettlingStopsRunning DEF Cancel
  <2>3. CASE AttemptTimeout(j)
    BY <2>3, <1>0, FailingStopsRunning DEF AttemptTimeout
  <2>4. CASE BackoffElapses(j) \/ RetryWake(j)
    BY <2>4, TableUnmoved DEF BackoffElapses, RetryWake
  <2>5. QED
    BY <1>1, <2>1, <2>2, <2>3, <2>4
<1>2. ASSUME NEW g \in Graph, CreateGraph(g) PROVE Running' \subseteq Running
  BY <1>2, <1>0 DEF CreateGraph, InitialState, Running, In
<1>3. ASSUME NEW j \in Job,
             \/ DrainRetry(j) \/ DrainDependencyFailed(j) \/ DrainReadiness(j)
             \/ DrainStartFails(j)
      PROVE  Running' \subseteq Running
  <2>1. CASE DrainRetry(j)
    BY <2>1, <1>0 DEF DrainRetry, Running, In
  <2>2. CASE DrainDependencyFailed(j)
    BY <2>2, <1>0, SettlingStopsRunning DEF DrainDependencyFailed
  <2>3. CASE DrainReadiness(j)
    BY <2>3, <1>0 DEF DrainReadiness, Running, In
  <2>4. CASE DrainStartFails(j)
    <3>1. \E s \in {"retry_wait", "failed"} : state' = [state EXCEPT ![j] = s]
      BY <2>4 DEF DrainStartFails
    <3>2. QED
      BY <3>1, <1>0 DEF Running, In
  <2>5. QED
    BY <1>3, <2>1, <2>2, <2>3, <2>4
<1>4. ASSUME DrainEnd PROVE Running' \subseteq Running
  BY <1>4, TableUnmoved DEF DrainEnd
<1>5. ASSUME NEW j \in Job, NEW n \in Attempts, NEW ok \in BOOLEAN,
             ChildError(j, n) \/ Escalate(j, n) \/ ProcessClose(j, n, ok)
             \/ FunctionSettles(j, n, ok)
      PROVE  Running' \subseteq Running
  <2>1. CASE ChildError(j, n)
    BY <2>1, <1>0, FailingStopsRunning, TableUnmoved DEF ChildError
  <2>2. CASE Escalate(j, n)
    BY <2>2, TableUnmoved DEF Escalate
  <2>3. CASE ProcessClose(j, n, ok)
    BY <2>3, <1>0, FailingStopsRunning, SettlingStopsRunning, TableUnmoved DEF ProcessClose
  <2>4. CASE FunctionSettles(j, n, ok)
    BY <2>4, <1>0, FailingStopsRunning, SettlingStopsRunning, TableUnmoved DEF FunctionSettles
  <2>5. QED
    BY <1>5, <2>1, <2>2, <2>3, <2>4
<1>6. ASSUME NEW S \in SUBSET Job, Prune(S) PROVE Running' \subseteq Running
  BY <1>6, <1>0 DEF Prune, Running, In
<1>7. CASE Shutdown
  BY <1>7, <1>0 DEF Shutdown, Running, In
<1>8. CASE WriteSnapshot
  BY <1>8, TableUnmoved DEF WriteSnapshot
<1>9. CASE Restart
  <2>1. PICK booted : state' = RestoredState(booted.state)
    BY <1>9, BootsFromDisk DEF Boot
  <2>2. QED
    BY <2>1 DEF RestoredState, Running, In
<1>10. CASE UNCHANGED vars
  BY <1>10, TableUnmoved DEF vars
<1>11. QED
  BY <1>1, <1>2, <1>3, <1>4, <1>5, <1>6, <1>7, <1>8, <1>9, <1>10
     DEF Next, DrainStep, ProcessEvent

(* What the loop starts was free to start.                                  *)
LEMMA StartTakesCapacity ==
  ASSUME TableInv, NEW j \in Job, DrainStart(j)
  PROVE  CanStart(j) /\ j \notin Running /\ Running' = Running \cup {j}
<1>1. Candidate(j) /\ state' = [state EXCEPT ![j] = "running"]
  BY DEF DrainStart
<1>2. CanStart(j) /\ state[j] = "queued"
  BY <1>1 DEF Candidate
<1>3. QED
  BY <1>1, <1>2 DEF Running, In, TableInv, TypeOK, TableType

-----------------------------------------------------------------------------
LEMMA LeaseStep ==
  ASSUME TableInv, LeaseExclusive, [Next]_vars
  PROVE  LeaseExclusive'
<1>1. CASE Running' \subseteq Running
  BY <1>1 DEF LeaseExclusive
<1>2. ASSUME NEW j \in Job, DrainStart(j) PROVE LeaseExclusive'
  <2>1. /\ Running' = Running \cup {j} /\ j \notin Running
        /\ LeaseFree(j)
    BY <1>2, StartTakesCapacity DEF CanStart
  <2>2. \A i \in Running : Cwd(i) = Cwd(j) => Access(i) = "read" /\ Access(j) = "read"
    BY <2>1 DEF LeaseFree
  <2>3. QED
    BY <2>1, <2>2 DEF LeaseExclusive
<1>3. QED
  BY <1>1, <1>2, OnlyTheDrainStarts

(* Workspace lease: among the jobs the runtime counts as running, two in    *)
(* one workspace are both readers, whatever the schedule, the failures and  *)
(* the restarts.                                                            *)
THEOREM LeaseCorrect == Spec => []LeaseExclusive
<1>1. Init => LeaseExclusive
  BY DEF Init, LeaseExclusive, Running, In
<1>2. TableInv /\ LeaseExclusive /\ [Next]_vars => LeaseExclusive'
  BY LeaseStep
<1>3. QED
  BY <1>1, <1>2, TableInvariant, PTL DEF Spec

-----------------------------------------------------------------------------
(* The budgets, over the set of running jobs.                               *)

OfOwner(R, owner) == {i \in R : Owner(i) = owner}
OfClass(R, class) == {i \in R : Class(i) = class}

LEMMA LoadsAreCounts ==
  /\ \A o : Load(o) = Cardinality(OfOwner(Running, o))
  /\ \A c : LaneLoad(c) = Cardinality(OfClass(Running, c))
BY DEF Load, LaneLoad, OfOwner, OfClass

LEMMA RunningFinite ==
  /\ IsFiniteSet(Running) /\ Cardinality(Running) \in Nat
  /\ \A o : IsFiniteSet(OfOwner(Running, o)) /\ Cardinality(OfOwner(Running, o)) \in Nat
  /\ \A c : IsFiniteSet(OfClass(Running, c)) /\ Cardinality(OfClass(Running, c)) \in Nat
<1>1. \A T \in SUBSET Job : IsFiniteSet(T) /\ Cardinality(T) \in Nat
  BY JobAssumption, FS_Subset, FS_CardinalityType
<1>2. Running \in SUBSET Job
  BY DEF Running, In
<1>3. \A o : OfOwner(Running, o) \in SUBSET Job
  BY <1>2 DEF OfOwner
<1>4. \A c : OfClass(Running, c) \in SUBSET Job
  BY <1>2 DEF OfClass
<1>5. QED
  BY <1>1, <1>2, <1>3, <1>4

LEMMA LimitsShrink ==
  ASSUME WithinLimits, Running' \subseteq Running
  PROVE  WithinLimits'
<1>1. Cardinality(Running') <= Cardinality(Running) /\ Cardinality(Running') \in Nat
  BY RunningFinite, FS_Subset, FS_CardinalityType
<1>2. \A o : /\ Cardinality(OfOwner(Running', o)) <= Cardinality(OfOwner(Running, o))
             /\ Cardinality(OfOwner(Running', o)) \in Nat
  <2> SUFFICES ASSUME NEW o
               PROVE  /\ Cardinality(OfOwner(Running', o)) <= Cardinality(OfOwner(Running, o))
                      /\ Cardinality(OfOwner(Running', o)) \in Nat
    OBVIOUS
  <2>1. OfOwner(Running', o) \in SUBSET OfOwner(Running, o)
    BY DEF OfOwner
  <2>2. QED
    BY <2>1, RunningFinite, FS_Subset, FS_CardinalityType
<1>3. \A c : /\ Cardinality(OfClass(Running', c)) <= Cardinality(OfClass(Running, c))
             /\ Cardinality(OfClass(Running', c)) \in Nat
  <2> SUFFICES ASSUME NEW c
               PROVE  /\ Cardinality(OfClass(Running', c)) <= Cardinality(OfClass(Running, c))
                      /\ Cardinality(OfClass(Running', c)) \in Nat
    OBVIOUS
  <2>1. OfClass(Running', c) \in SUBSET OfClass(Running, c)
    BY DEF OfClass
  <2>2. QED
    BY <2>1, RunningFinite, FS_Subset, FS_CardinalityType
<1>4. Cardinality(Running') <= MaxConcurrent
  BY <1>1, RunningFinite, LimitAssumption DEF WithinLimits
<1>5. \A j \in Job : Cardinality(OfOwner(Running', Owner(j))) <= MaxPerUser
  BY <1>2, RunningFinite, LimitAssumption, LoadsAreCounts DEF WithinLimits
<1>6. \A c \in Classes : Cardinality(OfClass(Running', c)) <= ResourceLimit[c]
  BY <1>3, RunningFinite, LimitAssumption, LoadsAreCounts DEF WithinLimits
<1>7. QED
  BY <1>4, <1>5, <1>6 DEF WithinLimits, Load, LaneLoad, OfOwner, OfClass

LEMMA LimitsGrow ==
  ASSUME WithinLimits, NEW j \in Job, j \notin Running, WithinBudget(j),
         Running' = Running \cup {j}
  PROVE  WithinLimits'
<1>1. Cardinality(Running') <= MaxConcurrent
  BY RunningFinite, FS_AddElement, LimitAssumption DEF WithinBudget
<1>2. ASSUME NEW i \in Job PROVE Cardinality(OfOwner(Running', Owner(i))) <= MaxPerUser
  <2>1. CASE Owner(i) = Owner(j)
    <3>1. OfOwner(Running', Owner(i)) = OfOwner(Running, Owner(j)) \cup {j}
      BY <2>1 DEF OfOwner
    <3>2. Cardinality(OfOwner(Running, Owner(j))) < MaxPerUser
      BY LoadsAreCounts DEF WithinBudget
    <3>3. j \notin OfOwner(Running, Owner(j))
      BY DEF OfOwner
    <3>4. Cardinality(OfOwner(Running', Owner(i))) = Cardinality(OfOwner(Running, Owner(j))) + 1
      BY <3>1, <3>3, RunningFinite, FS_AddElement
    <3>5. Cardinality(OfOwner(Running, Owner(j))) \in Nat /\ MaxPerUser \in Nat
      BY RunningFinite, LimitAssumption
    <3>6. QED
      BY <3>2, <3>4, <3>5
  <2>2. CASE Owner(i) # Owner(j)
    <3>1. OfOwner(Running', Owner(i)) = OfOwner(Running, Owner(i))
      BY <2>2 DEF OfOwner
    <3>2. QED
      BY <3>1, LoadsAreCounts DEF WithinLimits
  <2>3. QED
    BY <2>1, <2>2
<1>3. ASSUME NEW c \in Classes PROVE Cardinality(OfClass(Running', c)) <= ResourceLimit[c]
  <2>1. CASE c = Class(j)
    <3>1. OfClass(Running', c) = OfClass(Running, c) \cup {j}
      BY <2>1 DEF OfClass
    <3>2. Cardinality(OfClass(Running, c)) < ResourceLimit[c]
      BY <2>1, LoadsAreCounts DEF WithinBudget
    <3>3. j \notin OfClass(Running, c)
      BY DEF OfClass
    <3>4. Cardinality(OfClass(Running', c)) = Cardinality(OfClass(Running, c)) + 1
      BY <3>1, <3>3, RunningFinite, FS_AddElement
    <3>5. Cardinality(OfClass(Running, c)) \in Nat /\ ResourceLimit[c] \in Nat
      BY RunningFinite, LimitAssumption
    <3>6. QED
      BY <3>2, <3>4, <3>5
  <2>2. CASE c # Class(j)
    <3>1. OfClass(Running', c) = OfClass(Running, c)
      BY <2>2 DEF OfClass
    <3>2. QED
      BY <3>1, LoadsAreCounts DEF WithinLimits
  <2>3. QED
    BY <2>1, <2>2
<1>4. QED
  BY <1>1, <1>2, <1>3 DEF WithinLimits, Load, LaneLoad, OfOwner, OfClass

(* Admission control: the running jobs never exceed the global, the         *)
(* per-owner and the per-lane budget (canStart).                            *)
THEOREM BudgetsCorrect == Spec => []WithinLimits
<1>1. Init => WithinLimits
  <2> SUFFICES ASSUME Init PROVE WithinLimits
    OBVIOUS
  <2>1. Running = {}
    BY DEF Init, Running, In
  <2>2. /\ \A o : Load(o) = 0
        /\ \A c : LaneLoad(c) = 0
        /\ Cardinality(Running) = 0
    BY <2>1, FS_EmptySet DEF Load, LaneLoad
  <2>3. QED
    BY <2>2, LimitAssumption DEF WithinLimits
<1>2. TableInv /\ WithinLimits /\ [Next]_vars => WithinLimits'
  <2> SUFFICES ASSUME TableInv, WithinLimits, [Next]_vars PROVE WithinLimits'
    OBVIOUS
  <2>1. CASE Running' \subseteq Running
    BY <2>1, LimitsShrink
  <2>2. ASSUME NEW j \in Job, DrainStart(j) PROVE WithinLimits'
    BY <2>2, StartTakesCapacity, LimitsGrow DEF CanStart
  <2>3. QED
    BY <2>1, <2>2, OnlyTheDrainStarts
<1>3. QED
  BY <1>1, <1>2, TableInvariant, PTL DEF Spec

-----------------------------------------------------------------------------
(* Dependencies.  A restart goes back to a snapshot, so the inductive       *)
(* invariant asks of every snapshot in the journal what it asks of memory.  *)

Met(s) ==
  \A j \in Job : \A d \in DependsOn(j) :
    /\ s[j] \in {"queued", "running", "retry_wait"} => s[d] = "succeeded"
    /\ s[j] \in Unfinished => s[d] # "absent"

MetSnapshots == {x \in SnapshotType : Met(x.state)}

DependencyInv == Met(state) /\ journal \in Seq(MetSnapshots)

LEMMA DependencyInvImplies ==
  ASSUME TableInv, DependencyInv
  PROVE  DependenciesHeld
BY JobAssumption DEF DependencyInv, Met, DependenciesHeld, In, Present

LEMMA SettlingKeepsMet ==
  ASSUME TableInv, Met(state), NEW S \in SUBSET In(Unfinished), NEW how \in Finished,
         state' = [i \in Job |-> IF i \in S THEN how ELSE state[i]]
  PROVE  Met(state')
BY JobAssumption DEF Met, In, Finished, Succeeded, Unsuccessful, Unfinished, Resumable

(* A job that moves on between the states past waiting.                     *)
LEMMA MovingKeepsMet ==
  ASSUME TableInv, Met(state), NEW j \in Job,
         state[j] \in {"queued", "running", "retry_wait"},
         NEW s \in {"queued", "running", "retry_wait", "failed"}
  PROVE  Met([state EXCEPT ![j] = s])
BY JobAssumption DEF Met, Unfinished, Resumable, TableInv, TypeOK, TableType

LEMMA MetUnmoved == Met(state) /\ UNCHANGED table => Met(state')
BY DEF table, Met

LEMMA FinishKeepsMet ==
  ASSUME TableInv, Met(state), NEW j \in In(Unfinished), NEW how \in Finished,
         Finish({j}, how)
  PROVE  Met(state')
<1>1. {j} \in SUBSET In(Unfinished)
      /\ state' = [i \in Job |-> IF i \in {j} THEN how ELSE state[i]]
  BY DEF Finish
<1>2. QED
  BY <1>1, SettlingKeepsMet

LEMMA FailKeepsMet ==
  ASSUME TableInv, Met(state), NEW j \in Job, state[j] = "running",
         NEW how \in Finished, FailAttempt(j, how)
  PROVE  Met(state')
<1>1. CASE ~Retryable(j, attempt[j])
  BY <1>1, FinishKeepsMet DEF FailAttempt, In, Unfinished
<1>2. CASE Retryable(j, attempt[j])
  BY <1>2, MovingKeepsMet DEF FailAttempt
<1>3. QED
  BY <1>1, <1>2

LEMMA AdmissionKeepsMet ==
  ASSUME TableInv, Met(state), NEW S \in SUBSET Job,
         \A j \in S : state[j] = "absent",
         \A j \in S : \A d \in DependsOn(j) : d \in S \/ state[d] # "absent",
         state' = [j \in Job |-> IF j \in S THEN InitialState(j) ELSE state[j]]
  PROVE  Met(state')
<1> SUFFICES ASSUME NEW j \in Job, NEW d \in DependsOn(j)
             PROVE  /\ state'[j] \in {"queued", "running", "retry_wait"}
                         => state'[d] = "succeeded"
                    /\ state'[j] \in Unfinished => state'[d] # "absent"
  BY DEF Met
<1>0. /\ d \in Job /\ DependsOn(j) # {}
      /\ \A i \in Job : InitialState(i) \in {"queued", "waiting"}
      /\ InitialState(j) = "waiting"
  BY JobAssumption DEF InitialState
<1>1. CASE j \in S
  BY <1>0, <1>1 DEF Unfinished, Resumable
<1>2. CASE j \notin S
  <2>1. /\ state'[j] = state[j]
        /\ state[j] \in {"queued", "running", "retry_wait"} => state[d] = "succeeded"
        /\ state[j] \in Unfinished => state[d] # "absent"
    BY <1>2 DEF Met
  <2>2. QED
    BY <1>0, <2>1
<1>3. QED
  BY <1>1, <1>2

LEMMA MetStep ==
  ASSUME TableInv, DependencyInv, [Next]_vars
  PROVE  Met(state')
<1>0. /\ \A how \in {"failed", "timed_out", "succeeded", "cancelled", "interrupted",
                     "dependency_failed"} : how \in Finished
      /\ state \in [Job -> JobState] /\ Met(state)
  BY DEF Finished, Succeeded, Unsuccessful, TableInv, TypeOK, TableType, DependencyInv
<1>1. ASSUME NEW j \in Job,
             Create(j) \/ Cancel(j) \/ AttemptTimeout(j) \/ BackoffElapses(j) \/ RetryWake(j)
      PROVE  Met(state')
  <2>1. CASE Create(j)
    <3>1. state[j] = "absent"
      BY <2>1 DEF Create, TableInv, SoundNow, Sound
    <3>2. \A d \in DependsOn(j) : state[d] # "absent"
      BY <2>1 DEF Create
    <3>3. state' = [i \in Job |-> IF i \in {j} THEN InitialState(i) ELSE state[i]]
      BY <2>1, <1>0 DEF Create
    <3> DEFINE S == {j}
    <3>4. /\ S \in SUBSET Job /\ \A i \in S : state[i] = "absent"
          /\ \A i \in S : \A d \in DependsOn(i) : d \in S \/ state[d] # "absent"
          /\ state' = [i \in Job |-> IF i \in S THEN InitialState(i) ELSE state[i]]
      BY <3>1, <3>2, <3>3
    <3> HIDE DEF S
    <3>5. QED
      BY <3>4, <1>0, AdmissionKeepsMet
  <2>2. CASE Cancel(j)
    BY <2>2, <1>0, FinishKeepsMet DEF Cancel, In
  <2>3. CASE AttemptTimeout(j)
    BY <2>3, <1>0, FailKeepsMet DEF AttemptTimeout
  <2>4. CASE BackoffElapses(j) \/ RetryWake(j)
    BY <2>4, <1>0, MetUnmoved DEF BackoffElapses, RetryWake
  <2>5. QED
    BY <1>1, <2>1, <2>2, <2>3, <2>4
<1>2. ASSUME NEW g \in Graph, CreateGraph(g) PROVE Met(state')
  <2>1. NodesOf(g) \in SUBSET Job
    BY GraphAssumption DEF NodesOf
  <2>2. /\ \A j \in NodesOf(g) : state[j] = "absent"
        /\ \A j \in NodesOf(g) : \A d \in DependsOn(j) : d \in NodesOf(g)
        /\ state' = [j \in Job |-> IF j \in NodesOf(g) THEN InitialState(j) ELSE state[j]]
    BY <1>2, <2>1 DEF CreateGraph, TableInv, SoundNow, Sound
  <2>3. QED
    BY <2>1, <2>2, <1>0, AdmissionKeepsMet
<1>3. ASSUME NEW j \in Job,
             \/ DrainRetry(j) \/ DrainDependencyFailed(j) \/ DrainReadiness(j)
             \/ DrainStart(j) \/ DrainStartFails(j)
      PROVE  Met(state')
  <2>1. CASE DrainRetry(j)
    BY <2>1, <1>0, MovingKeepsMet DEF DrainRetry
  <2>2. CASE DrainDependencyFailed(j)
    BY <2>2, <1>0, FinishKeepsMet DEF DrainDependencyFailed, In, Unfinished, Resumable
  <2>3. CASE DrainReadiness(j)
    <3>1. state' = [state EXCEPT ![j] = IF DependenciesMet(j) THEN "queued" ELSE "waiting"]
          /\ ~DependencyLost(j) /\ state[j] \in {"waiting", "queued"}
      BY <2>3 DEF DrainReadiness
    <3>2. \A d \in DependsOn(j) : state[d] # "absent"
      BY <3>1 DEF DependencyLost
    <3>3. QED
      BY <3>1, <3>2, <1>0, JobAssumption DEF Met, DependenciesMet, Unfinished, Resumable
  <2>4. CASE DrainStart(j)
    <3>1. state[j] = "queued" /\ state' = [state EXCEPT ![j] = "running"]
      BY <2>4 DEF DrainStart, Candidate
    <3>2. QED
      BY <3>1, <1>0, MovingKeepsMet
  <2>5. CASE DrainStartFails(j)
    <3>1. state[j] = "queued" /\ \E s \in {"retry_wait", "failed"} : state' = [state EXCEPT ![j] = s]
      BY <2>5 DEF DrainStartFails, Candidate
    <3>2. QED
      BY <3>1, <1>0, MovingKeepsMet
  <2>6. QED
    BY <1>3, <2>1, <2>2, <2>3, <2>4, <2>5
<1>4. ASSUME DrainEnd PROVE Met(state')
  BY <1>4, <1>0, MetUnmoved DEF DrainEnd
<1>5. ASSUME NEW j \in Job, NEW n \in Attempts, NEW ok \in BOOLEAN,
             ChildError(j, n) \/ Escalate(j, n) \/ ProcessClose(j, n, ok)
             \/ FunctionSettles(j, n, ok)
      PROVE  Met(state')
  <2>0. Settles(j) => state[j] = "running" /\ j \in In(Unfinished)
    BY DEF Settles, In, Unfinished
  <2>1. CASE ChildError(j, n)
    BY <2>0, <2>1, <1>0, FailKeepsMet, MetUnmoved DEF ChildError
  <2>2. CASE Escalate(j, n)
    BY <2>2, <1>0, MetUnmoved DEF Escalate
  <2>3. CASE ProcessClose(j, n, ok)
    BY <2>0, <2>3, <1>0, FailKeepsMet, FinishKeepsMet, MetUnmoved DEF ProcessClose
  <2>4. CASE FunctionSettles(j, n, ok)
    BY <2>0, <2>4, <1>0, FailKeepsMet, FinishKeepsMet, MetUnmoved DEF FunctionSettles
  <2>5. QED
    BY <1>5, <2>1, <2>2, <2>3, <2>4
<1>6. ASSUME NEW S \in SUBSET Job, Prune(S) PROVE Met(state')
  <2>1. /\ state' = [j \in Job |-> IF j \in S THEN "absent" ELSE state[j]]
        /\ \A j \in Job : state[j] \in Unfinished => j \notin S /\ DependsOn(j) \cap S = {}
    BY <1>6 DEF Prune, Protected, In
  <2>2. QED
    BY <2>1, <1>0, JobAssumption DEF Met, Unfinished, Resumable
<1>7. CASE Shutdown
  <2>1. Running \in SUBSET In(Unfinished)
        /\ state' = [j \in Job |-> IF j \in Running THEN "interrupted" ELSE state[j]]
    BY <1>7 DEF Shutdown, Running, In, Unfinished
  <2>2. QED
    BY <2>1, <1>0, SettlingKeepsMet
<1>8. CASE WriteSnapshot
  BY <1>8, <1>0, MetUnmoved DEF WriteSnapshot
<1>9. CASE Restart
  <2>1. PICK booted : /\ state' = RestoredState(booted.state)
                      /\ \/ booted.state = Head(journal).state
                         \/ booted.state = [j \in Job |-> "absent"]
    BY <1>9, BootsFromDisk DEF Boot
  <2>2. Met(Head(journal).state)
    BY HeadTailProperties DEF DependencyInv, MetSnapshots, TableInv, JournalSound, JournalType
  <2>3. Met([j \in Job |-> "absent"])
    BY DEF Met, Unfinished, Resumable
  <2>4. QED
    BY <2>1, <2>2, <2>3, JobAssumption DEF Met, RestoredState, Unfinished, Resumable
<1>10. CASE UNCHANGED vars
  BY <1>10, <1>0, MetUnmoved DEF vars
<1>11. QED
  BY <1>1, <1>2, <1>3, <1>4, <1>5, <1>6, <1>7, <1>8, <1>9, <1>10
     DEF Next, DrainStep, ProcessEvent

(* What a step does to the journal.                                         *)
LEMMA JournalCases ==
  ASSUME [Next]_vars
  PROVE  \/ UNCHANGED journal \/ Persist \/ WriteSnapshot \/ Restart
         \/ \E j \in Job : DrainStartFails(j)
<1> DEFINE Usual == UNCHANGED journal \/ Persist
<1>1. CASE DrainStep
  BY <1>1 DEF DrainStep, DrainRetry, DrainDependencyFailed, Finish, DrainReadiness, DrainStart,
     DrainEnd
<1>2. ASSUME NEW j, NEW how, FailAttempt(j, how) PROVE Persist
  BY <1>2 DEF FailAttempt, Finish
<1>3. CASE ProcessEvent
  <2> SUFFICES ASSUME NEW j \in Job, NEW n \in Attempts, NEW ok \in BOOLEAN,
                      ChildError(j, n) \/ Escalate(j, n) \/ ProcessClose(j, n, ok)
                      \/ FunctionSettles(j, n, ok)
               PROVE  Usual
    BY <1>3 DEF ProcessEvent
  <2>1. Finish({j}, "succeeded") => Persist
    BY DEF Finish
  <2>2. QED
    BY <1>2, <2>1 DEF ChildError, Escalate, ProcessClose, FunctionSettles
<1>4. ASSUME NEW j \in Job,
             Create(j) \/ Cancel(j) \/ AttemptTimeout(j) \/ BackoffElapses(j) \/ RetryWake(j)
      PROVE  Usual
  BY <1>2, <1>4 DEF Create, Cancel, Finish, AttemptTimeout, BackoffElapses, RetryWake
<1>5. QED
  BY <1>1, <1>3, <1>4 DEF Next, CreateGraph, Prune, Shutdown, vars

(* The journal only ever gains snapshots of the table as it becomes, and of *)
(* an attempt that was announced before its start failed.                   *)
LEMMA JournalMoves ==
  ASSUME TableInv, [Next]_vars, NEW S, journal \in Seq(S),
         Snapshot(state', attempt', born', graphs') \in S,
         \A j \in Job : DrainStartFails(j) =>
           Snapshot([state EXCEPT ![j] = "running"], attempt', born, graphs) \in S
  PROVE  journal' \in Seq(S)
<1>0. journal # <<>>
  BY DEF TableInv, JournalSound, JournalType
<1>1. Persist => journal' \in Seq(S)
  BY <1>0, RecordedType DEF Persist
<1>2. ASSUME NEW j \in Job, DrainStartFails(j) PROVE journal' \in Seq(S)
  <2> DEFINE x == Snapshot([state EXCEPT ![j] = "running"], attempt', born, graphs)
             y == Snapshot(state', attempt', born', graphs')
  <2>1. x \in S /\ y \in S /\ journal' = Recorded(Recorded(journal, x), y)
    BY <1>2 DEF DrainStartFails
  <2> HIDE DEF x, y
  <2>2. Recorded(journal, x) \in Seq(S) /\ Recorded(journal, x) # <<>>
    BY <2>1, <1>0, RecordedType
  <2>3. QED
    BY <2>1, <2>2, RecordedType
<1>3. CASE WriteSnapshot
  BY <1>3, WriteKeeps DEF WriteSnapshot
<1>4. CASE Restart
  <2>1. Head(journal) \in S /\ journal' = <<Head(journal)>>
    BY <1>0, <1>4, HeadTailProperties DEF Restart
  <2>2. QED
    BY <2>1
<1>5. QED
  BY <1>1, <1>2, <1>3, <1>4, JournalCases

LEMMA DependencyStep == TableInv /\ DependencyInv /\ [Next]_vars => DependencyInv'
<1> SUFFICES ASSUME TableInv, DependencyInv, [Next]_vars PROVE DependencyInv'
  OBVIOUS
<1>1. Met(state')
  BY MetStep
<1>2. TableInv'
  BY NextTable
<1>3. Snapshot(state', attempt', born', graphs') \in MetSnapshots
  <2>1. Snapshot(state', attempt', born', graphs') \in SnapshotType
    BY <1>2, SnapshotSound DEF TableInv, TypeOK, TableType
  <2>2. QED
    BY <1>1, <2>1 DEF MetSnapshots, Snapshot
<1>4. ASSUME NEW j \in Job, DrainStartFails(j)
      PROVE  Snapshot([state EXCEPT ![j] = "running"], attempt', born, graphs) \in MetSnapshots
  <2> DEFINE started == [state EXCEPT ![j] = "running"]
  <2>1. state[j] = "queued"
    BY <1>4 DEF DrainStartFails, Candidate
  <2>2. Met(started)
    BY <2>1, MovingKeepsMet DEF DependencyInv
  <2>3. started \in [Job -> JobState]
    BY DEF TableInv, TypeOK, TableType, JobState, Unfinished
  <2>4. attempt' \in [Job -> Nat] /\ born \in [Job -> Nat] /\ graphs \in SUBSET Graph
    BY <1>2 DEF TableInv, TypeOK, TableType
  <2> HIDE DEF started
  <2>5. Snapshot(started, attempt', born, graphs) \in SnapshotType
    BY <2>3, <2>4, SnapshotSound
  <2>6. QED
    BY <2>2, <2>5 DEF MetSnapshots, Snapshot, started
<1>5. journal' \in Seq(MetSnapshots)
  <2>1. journal \in Seq(MetSnapshots)
    BY DEF DependencyInv
  <2>2. QED
    BY <1>3, <1>4, <2>1, JournalMoves
<1>6. QED
  BY <1>1, <1>5 DEF DependencyInv

(* Dependencies: a job past waiting has every dependency in the table and   *)
(* succeeded, and no unfinished job loses one to retention or to a restart. *)
THEOREM DependenciesCorrect == Spec => []DependenciesHeld
<1>1. Init => DependencyInv
  <2> SUFFICES ASSUME Init PROVE DependencyInv
    OBVIOUS
  <2>1. Met(state)
    BY DEF Init, Met, Unfinished, Resumable
  <2>2. TableInv
    BY InitTable
  <2>3. Snapshot(state, attempt, born, graphs) \in MetSnapshots
    BY <2>1, <2>2, SnapshotSound DEF MetSnapshots, Snapshot, TableInv, TypeOK, TableType
  <2>4. QED
    BY <2>1, <2>3 DEF Init, DependencyInv
<1>2. TableInv /\ DependencyInv => DependenciesHeld
  BY DependencyInvImplies
<1>3. QED
  BY <1>1, <1>2, DependencyStep, TableInvariant, PTL DEF Spec

-----------------------------------------------------------------------------
(* A terminal state is final: every handler that writes a state looks at    *)
(* the one it replaces, and only retention and a restart touch a job that   *)
(* is finished.                                                             *)

Settled == \A j \in In(Finished) : state'[j] \in {state[j], "absent"}

LEMMA TableUnmovedSettles == UNCHANGED table => Settled
BY DEF table, Settled, In

LEMMA OneJobSettles ==
  ASSUME TableInv, NEW j \in Job, state[j] \notin Finished, NEW s,
         state' = [state EXCEPT ![j] = s]
  PROVE  Settled
BY DEF Settled, In, TableInv, TypeOK, TableType

LEMMA FinishSettles ==
  ASSUME TableInv, NEW j \in Job, state[j] \notin Finished, NEW how, Finish({j}, how)
  PROVE  Settled
BY DEF Finish, Settled, In, TableInv, TypeOK, TableType

LEMMA FailAttemptSettles ==
  ASSUME TableInv, NEW j \in Job, state[j] \notin Finished, NEW how, FailAttempt(j, how)
  PROVE  Settled
<1>1. CASE ~Retryable(j, attempt[j])
  BY <1>1, FinishSettles DEF FailAttempt
<1>2. CASE Retryable(j, attempt[j])
  BY <1>2, OneJobSettles DEF FailAttempt
<1>3. QED
  BY <1>1, <1>2

LEMMA SettledStep ==
  ASSUME TableInv, [Next]_vars, restarts' = restarts
  PROVE  Settled
<1>0. /\ \A j \in Job : state[j] \in Unfinished => state[j] \notin Finished
      /\ \A s \in {"absent", "waiting", "queued", "retry_wait", "running"} : s \notin Finished
  BY DEF Finished, Succeeded, Unsuccessful, Unfinished, Resumable
<1>a. /\ state \in [Job -> JobState]
      /\ \A j \in Job : born[j] = 0 => state[j] \notin Finished
  BY <1>0 DEF TableInv, TypeOK, TableType, SoundNow, Sound
<1>1. ASSUME NEW j \in Job,
             Create(j) \/ Cancel(j) \/ AttemptTimeout(j) \/ BackoffElapses(j) \/ RetryWake(j)
      PROVE  Settled
  <2>1. CASE Create(j)
    BY <2>1, <1>a, OneJobSettles DEF Create
  <2>2. CASE Cancel(j)
    BY <2>2, <1>0, FinishSettles DEF Cancel
  <2>3. CASE AttemptTimeout(j)
    BY <2>3, <1>0, FailAttemptSettles DEF AttemptTimeout
  <2>4. CASE BackoffElapses(j) \/ RetryWake(j)
    BY <2>4, TableUnmovedSettles DEF BackoffElapses, RetryWake
  <2>5. QED
    BY <1>1, <2>1, <2>2, <2>3, <2>4
<1>2. ASSUME NEW g \in Graph, CreateGraph(g) PROVE Settled
  BY <1>2, <1>a DEF CreateGraph, Settled, In
<1>3. ASSUME NEW j \in Job,
             \/ DrainRetry(j) \/ DrainDependencyFailed(j) \/ DrainReadiness(j)
             \/ DrainStart(j) \/ DrainStartFails(j)
      PROVE  Settled
  <2>1. state[j] \notin Finished
    BY <1>3, <1>0 DEF DrainRetry, DrainDependencyFailed, DrainReadiness, DrainStart,
                     DrainStartFails, Candidate
  <2>2. CASE DrainRetry(j)
    BY <2>1, <2>2, OneJobSettles DEF DrainRetry, Settled, In
  <2>3. CASE DrainDependencyFailed(j)
    BY <2>1, <2>3, FinishSettles DEF DrainDependencyFailed
  <2>4. CASE DrainReadiness(j)
    BY <2>1, <2>4, OneJobSettles DEF DrainReadiness
  <2>5. CASE DrainStart(j)
    BY <2>1, <2>5, OneJobSettles DEF DrainStart
  <2>6. CASE DrainStartFails(j)
    BY <2>1, <2>6, OneJobSettles DEF DrainStartFails
  <2>7. QED
    BY <1>3, <2>2, <2>3, <2>4, <2>5, <2>6
<1>4. CASE DrainEnd
  BY <1>4, TableUnmovedSettles DEF DrainEnd
<1>5. ASSUME NEW j \in Job, NEW n \in Attempts, NEW ok \in BOOLEAN,
             ChildError(j, n) \/ Escalate(j, n) \/ ProcessClose(j, n, ok)
             \/ FunctionSettles(j, n, ok)
      PROVE  Settled
  <2>0. Settles(j) => state[j] \notin Finished
    BY <1>0 DEF Settles
  <2>1. CASE ChildError(j, n)
    BY <2>0, <2>1, FailAttemptSettles, TableUnmovedSettles DEF ChildError
  <2>2. CASE Escalate(j, n)
    BY <2>2, TableUnmovedSettles DEF Escalate
  <2>3. CASE ProcessClose(j, n, ok)
    BY <2>0, <2>3, FailAttemptSettles, FinishSettles, TableUnmovedSettles DEF ProcessClose
  <2>4. CASE FunctionSettles(j, n, ok)
    BY <2>0, <2>4, FailAttemptSettles, FinishSettles, TableUnmovedSettles DEF FunctionSettles
  <2>5. QED
    BY <1>5, <2>1, <2>2, <2>3, <2>4
<1>6. ASSUME NEW S \in SUBSET Job, Prune(S) PROVE Settled
  BY <1>6, <1>a DEF Prune, Settled, In
<1>7. CASE Shutdown
  <2>1. \A j \in Running : state[j] \notin Finished
    BY <1>0 DEF Running, In
  <2>2. QED
    BY <1>7, <1>a, <2>1 DEF Shutdown, Settled, In
<1>8. CASE WriteSnapshot
  BY <1>8, TableUnmovedSettles DEF WriteSnapshot
<1>9. CASE Restart
  <2>1. restarts' = restarts + 1 /\ restarts \in Nat
    BY <1>9, LimitAssumption DEF Restart, TableInv, TypeOK, LoopType
  <2>2. QED
    BY <2>1
<1>10. CASE UNCHANGED vars
  BY <1>10, TableUnmovedSettles DEF vars
<1>11. QED
  BY <1>1, <1>2, <1>3, <1>4, <1>5, <1>6, <1>7, <1>8, <1>9, <1>10
     DEF Next, DrainStep, ProcessEvent

(* Terminal states: while the backend is up no late event, timer or drain   *)
(* changes how a job ended; it can only be pruned.                          *)
THEOREM OutcomesStable == Spec => OutcomeStable
<1>1. TableInv /\ [Next]_vars
        => [restarts' = restarts =>
              \A j \in In(Finished) : state'[j] \in {state[j], "absent"}]_vars
  BY SettledStep DEF Settled
<1>2. QED
  BY <1>1, TableInvariant, PTL DEF Spec, OutcomeStable
=============================================================================
