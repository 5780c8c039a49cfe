--------------------------- MODULE JobControlProofs ---------------------------
(***************************************************************************)
(* Processes, wake-ups, admission and the ledger: what the job runtime can *)
(* still stop, what its loop leaves behind, what its index names, and what *)
(* of an outcome lasts, for every set of jobs and every dependency graph.  *)
(***************************************************************************)
EXTENDS JobSafetyProofs

-----------------------------------------------------------------------------
(* Handles, deadlines and children of one job. An attempt has a process     *)
(* only if it was counted: this keeps the one attempt of a job without a    *)
(* retry policy apart from any other.                                       *)

Controlled(j) ==
  /\ state[j] = "running" =>
       handle[j] = attempt[j] /\ j \in timeoutTimer /\ child[j][attempt[j]] = "run"
  /\ state[j] # "running" => handle[j] = 0 /\ j \notin timeoutTimer
  /\ \A n \in Attempts : child[j][n] # "none" => n <= attempt[j]
  /\ MaxAttempts(j) = 1 => \A n \in Attempts : child[j][n] = "run" => handle[j] = n

ControlInv == \A j \in Job : Controlled(j)

LEMMA ControlImplies == ControlInv => RunningIsControlled /\ NoUnreachableProcess
BY DEF ControlInv, Controlled, RunningIsControlled, NoUnreachableProcess

LEMMA ControlUnmoved ==
  ASSUME ControlInv, UNCHANGED <<state, attempt, child, handle, timeoutTimer>>
  PROVE  ControlInv'
BY DEF ControlInv, Controlled

(* A job that no step started or stopped.                                   *)
LEMMA Untouched ==
  ASSUME ControlInv, NEW i \in Job,
         state'[i] = state[i] \/ "running" \notin {state[i], state'[i]},
         attempt'[i] = attempt[i], handle'[i] = handle[i], child'[i] = child[i],
         i \in timeoutTimer' <=> i \in timeoutTimer
  PROVE  Controlled(i)'
BY DEF ControlInv, Controlled

(* A job whose attempt is over, or that had none.                           *)
LEMMA Released ==
  ASSUME TableInv, ControlInv, NEW j \in Job,
         state'[j] # "running", handle'[j] = 0, j \notin timeoutTimer',
         attempt'[j] \in Nat, attempt[j] <= attempt'[j],
         \A n \in Attempts : child'[j][n] # "none" => child[j][n] # "none",
         MaxAttempts(j) = 1 => \A n \in Attempts :
           child'[j][n] = "run" => child[j][n] = "run" /\ handle[j] # n
  PROVE  Controlled(j)'
<1>1. \A n \in Attempts : child'[j][n] # "none" => n <= attempt'[j]
  BY AttemptsBounded DEF ControlInv, Controlled, TableInv, TypeOK, TableType
<1>2. MaxAttempts(j) = 1 => \A n \in Attempts : child'[j][n] # "run"
  BY DEF ControlInv, Controlled
<1>3. QED
  BY <1>1, <1>2 DEF Controlled

(* The attempt of a job without retry policy is the only one it has.        *)
LEMMA OnlyAttempt ==
  ASSUME TableInv, ControlInv, NEW j \in Job, MaxAttempts(j) = 1,
         NEW n \in Attempts, NEW m \in Attempts,
         child[j][n] # "none", child[j][m] # "none"
  PROVE  n = m
BY AttemptsBounded DEF TableInv, TypeOK, TableType, ControlInv, Controlled

LEMMA FinishControls ==
  ASSUME TableInv, NEW j \in Job, NEW how \in Finished, Finish({j}, how)
  PROVE  /\ state'[j] # "running" /\ handle'[j] = 0 /\ j \notin timeoutTimer'
         /\ attempt' = attempt
         /\ \A i \in Job \ {j} :
              /\ state'[i] = state[i] /\ handle'[i] = handle[i]
              /\ i \in timeoutTimer' <=> i \in timeoutTimer
BY DEF Finish, ClearActiveAttempt, Finished, Succeeded, Unsuccessful

LEMMA FailControls ==
  ASSUME TableInv, NEW j \in Job, NEW how \in Finished, FailAttempt(j, how)
  PROVE  /\ state'[j] # "running" /\ handle'[j] = 0 /\ j \notin timeoutTimer'
         /\ attempt' = attempt
         /\ \A i \in Job \ {j} :
              /\ state'[i] = state[i] /\ handle'[i] = handle[i]
              /\ i \in timeoutTimer' <=> i \in timeoutTimer
<1>1. CASE ~Retryable(j, attempt[j])
  BY <1>1, FinishControls DEF FailAttempt
<1>2. CASE Retryable(j, attempt[j])
  BY <1>2 DEF FailAttempt, ClearActiveAttempt, TableInv, TypeOK, TableType
<1>3. QED
  BY <1>1, <1>2

(* One job is settled while its process ends or is told to stop.            *)
LEMMA OneJobReleased ==
  ASSUME TableInv, ControlInv, NEW j \in Job,
         state'[j] # "running" /\ handle'[j] = 0 /\ j \notin timeoutTimer',
         attempt' = attempt,
         \A i \in Job \ {j} :
           /\ state'[i] = state[i] /\ handle'[i] = handle[i] /\ child'[i] = child[i]
           /\ i \in timeoutTimer' <=> i \in timeoutTimer,
         \A n \in Attempts : child'[j][n] # "none" => child[j][n] # "none",
         MaxAttempts(j) = 1 => \A n \in Attempts :
           child'[j][n] = "run" => child[j][n] = "run" /\ handle[j] # n
  PROVE  ControlInv'
<1>1. Controlled(j)'
  BY Released DEF TableInv, TypeOK, TableType
<1>2. \A i \in Job \ {j} : Controlled(i)'
  BY Untouched
<1>3. QED
  BY <1>1, <1>2 DEF ControlInv

(* What a termination leaves running is not what the runtime held.          *)
LEMMA TerminateControls ==
  ASSUME TableInv, NEW S \in SUBSET Job, Terminate(S)
  PROVE  /\ \A i \in Job \ S : child'[i] = child[i]
         /\ \A j \in S : \A n \in Attempts :
              /\ child'[j][n] # "none" => child[j][n] # "none"
              /\ child'[j][n] = "run" => child[j][n] = "run" /\ handle[j] # n
<1>1. child' = [j \in Job |->
                  IF j \in S /\ handle[j] # 0
                  THEN [child[j] EXCEPT ![handle[j]] = IF @ = "run" THEN "term" ELSE @]
                  ELSE child[j]]
  BY DEF Terminate
<1>2. child \in [Job -> [Attempts -> ChildState]] /\ \A n \in Attempts : n # 0
  BY AttemptsBounded DEF TableInv, TypeOK, ProcsType
<1>3. \A i \in Job \ S : child'[i] = child[i]
  BY <1>1
<1>4. ASSUME NEW j \in S, NEW n \in Attempts
      PROVE  /\ child'[j][n] # "none" => child[j][n] # "none"
             /\ child'[j][n] = "run" => child[j][n] = "run" /\ handle[j] # n
  BY <1>1, <1>2
<1>5. QED
  BY <1>3, <1>4

(* A process or promise is reported over while its job runs.                *)
LEMMA EventControls ==
  ASSUME TableInv, ControlInv, NEW j \in Job, NEW n \in Attempts, state[j] = "running",
         child[j][n] # "none", NEW over \in {"none", "dead"},
         child' = [child EXCEPT ![j][n] = over],
         NEW how \in Finished, Finish({j}, how) \/ FailAttempt(j, how)
  PROVE  ControlInv'
<1>1. /\ state'[j] # "running" /\ handle'[j] = 0 /\ j \notin timeoutTimer'
      /\ attempt' = attempt
      /\ \A i \in Job \ {j} :
           /\ state'[i] = state[i] /\ handle'[i] = handle[i]
           /\ i \in timeoutTimer' <=> i \in timeoutTimer
  BY FinishControls, FailControls
<1>2. /\ \A i \in Job \ {j} : child'[i] = child[i]
      /\ child'[j][n] = over
      /\ \A m \in Attempts \ {n} : child'[j][m] = child[j][m]
  BY DEF TableInv, TypeOK, ProcsType
<1>3. MaxAttempts(j) = 1 => \A m \in Attempts : child'[j][m] # "run"
  BY <1>2, OnlyAttempt
<1>4. \A m \in Attempts : child'[j][m] # "none" => child[j][m] # "none"
  BY <1>2
<1>5. QED
  BY <1>1, <1>2, <1>3, <1>4, OneJobReleased

(* Only what is reported of processes of jobs that do not run.              *)
LEMMA StrayControls ==
  ASSUME TableInv, ControlInv, NEW j \in Job, NEW n \in Attempts,
         child[j][n] # "none", NEW over \in {"none", "dead"},
         child' = [child EXCEPT ![j][n] = over],
         state[j] # "running", handle'[j] = 0,
         \A i \in Job \ {j} : handle'[i] = handle[i],
         UNCHANGED <<state, attempt, timeoutTimer>>
  PROVE  ControlInv'
<1>1. /\ \A i \in Job \ {j} : child'[i] = child[i]
      /\ child'[j][n] = over
      /\ \A m \in Attempts \ {n} : child'[j][m] = child[j][m]
  BY DEF TableInv, TypeOK, ProcsType
<1>2. handle[j] = 0 /\ j \notin timeoutTimer
  BY DEF ControlInv, Controlled
<1>3. \A m \in Attempts : m # 0
  BY AttemptsBounded
<1>4. \A m \in Attempts : /\ child'[j][m] # "none" => child[j][m] # "none"
                          /\ child'[j][m] = "run" => child[j][m] = "run" /\ handle[j] # m
  BY <1>1, <1>2, <1>3
<1>5. QED
  BY <1>1, <1>2, <1>4, OneJobReleased
LEMMA DrainControls ==
  ASSUME TableInv, ControlInv, NEW j \in Job,
         \/ DrainRetry(j) \/ DrainDependencyFailed(j) \/ DrainReadiness(j)
         \/ DrainStart(j) \/ DrainStartFails(j)
  PROVE  ControlInv'
<1>0. state \in [Job -> JobState] /\ attempt \in [Job -> Nat]
  BY DEF TableInv, TypeOK, TableType
<1>1. CASE DrainRetry(j)
  BY <1>0, <1>1, Untouched DEF DrainRetry, procs, ControlInv
<1>2. CASE DrainDependencyFailed(j)
  <2>1. /\ Finish({j}, "dependency_failed") /\ child' = child /\ state[j] # "running"
        /\ "dependency_failed" \in Finished
    BY <1>2 DEF DrainDependencyFailed, Finished, Unsuccessful
  <2>2. handle[j] = 0 /\ \A n \in Attempts : n # 0
    BY <2>1, AttemptsBounded DEF ControlInv, Controlled
  <2>3. QED
    BY <2>1, <2>2, FinishControls, OneJobReleased
<1>3. CASE DrainReadiness(j)
  <2>1. /\ state' = [state EXCEPT ![j] = IF DependenciesMet(j) THEN "queued" ELSE "waiting"]
        /\ state[j] \in {"waiting", "queued"} /\ UNCHANGED <<attempt, timers, procs>>
    BY <1>3 DEF DrainReadiness
  <2>2. QED
    BY <1>0, <2>1, Untouched DEF timers, procs, ControlInv
<1>4. CASE DrainStart(j)
  <2> DEFINE n == attempt[j] + 1
  <2>1. /\ state[j] = "queued" /\ state' = [state EXCEPT ![j] = "running"]
        /\ attempt' = [attempt EXCEPT ![j] = n] /\ Launch(j, n)
    BY <1>4 DEF DrainStart, Candidate
  <2>2. attempt[j] < MaxAttempts(j) /\ n \in Attempts /\ n = attempt[j] + 1
    BY <1>0, <2>1, AttemptsBounded DEF TableInv, SoundNow, Sound, Resumable, Attempts
  <2> HIDE DEF n
  <2>3. /\ child' = [child EXCEPT ![j][n] = "run"] /\ handle' = [handle EXCEPT ![j] = n]
        /\ timeoutTimer' = timeoutTimer \cup {j}
        /\ child \in [Job -> [Attempts -> ChildState]] /\ handle \in [Job -> Attempts \cup {0}]
    BY <2>1 DEF Launch, TableInv, TypeOK, ProcsType
  <2>4. /\ child'[j][n] = "run" /\ handle'[j] = n /\ j \in timeoutTimer'
        /\ state'[j] = "running" /\ attempt'[j] = n
        /\ \A m \in Attempts \ {n} : child'[j][m] = child[j][m]
    BY <1>0, <2>1, <2>2, <2>3
  <2>5. \A m \in Attempts : child'[j][m] # "none" => m <= attempt'[j]
    BY <1>0, <2>2, <2>4, AttemptsBounded DEF ControlInv, Controlled
  <2>6. MaxAttempts(j) = 1 => \A m \in Attempts : child'[j][m] = "run" => handle'[j] = m
    <3> SUFFICES ASSUME MaxAttempts(j) = 1, NEW m \in Attempts, child'[j][m] = "run"
                 PROVE  m = n
      BY <2>4
    <3>1. n = 1 /\ m <= n /\ m \in Nat /\ m > 0
      BY <1>0, <2>2, <2>4, <2>5, AttemptsBounded
    <3>2. QED
      BY <3>1
  <2>7. Controlled(j)'
    BY <2>4, <2>5, <2>6 DEF Controlled
  <2>8. \A i \in Job \ {j} : Controlled(i)'
    BY <1>0, <2>1, <2>3, Untouched
  <2>9. QED
    BY <2>7, <2>8 DEF ControlInv
<1>5. CASE DrainStartFails(j)
  <2>1. /\ state[j] = "queued" /\ attempt' = [attempt EXCEPT ![j] = attempt[j] + 1]
        /\ UNCHANGED <<timeoutTimer, procs>>
        /\ \E s \in {"retry_wait", "failed"} : state' = [state EXCEPT ![j] = s]
    BY <1>5 DEF DrainStartFails, Candidate
  <2>2. handle[j] = 0 /\ j \notin timeoutTimer
    BY <2>1 DEF ControlInv, Controlled
  <2>3. /\ state'[j] # "running" /\ handle'[j] = 0 /\ j \notin timeoutTimer'
        /\ attempt'[j] \in Nat /\ attempt[j] <= attempt'[j] /\ child'[j] = child[j]
    BY <1>0, <2>1, <2>2 DEF procs
  <2>4. \A n \in Attempts : n # 0
    BY AttemptsBounded
  <2>5. Controlled(j)'
    BY <2>2, <2>3, <2>4, Released
  <2>6. \A i \in Job \ {j} : Controlled(i)'
    BY <1>0, <2>1, Untouched DEF procs
  <2>7. QED
    BY <2>5, <2>6 DEF ControlInv
<1>6. QED
  BY <1>1, <1>2, <1>3, <1>4, <1>5

(* Whoever ends a job from outside tells its process first.                 *)
LEMMA StopControls ==
  ASSUME TableInv, ControlInv, NEW j \in Job, Cancel(j) \/ AttemptTimeout(j)
  PROVE  ControlInv'
<1>1. Terminate({j}) /\ \E how \in Finished : Finish({j}, how) \/ FailAttempt(j, how)
  BY Outcomes DEF Cancel, AttemptTimeout
<1>2. /\ state'[j] # "running" /\ handle'[j] = 0 /\ j \notin timeoutTimer'
      /\ attempt' = attempt
      /\ \A i \in Job \ {j} :
           /\ state'[i] = state[i] /\ handle'[i] = handle[i]
           /\ i \in timeoutTimer' <=> i \in timeoutTimer
  BY <1>1, FinishControls, FailControls
<1>3. /\ \A i \in Job \ {j} : child'[i] = child[i]
      /\ \A n \in Attempts :
           /\ child'[j][n] # "none" => child[j][n] # "none"
           /\ child'[j][n] = "run" => child[j][n] = "run" /\ handle[j] # n
  BY <1>1, TerminateControls
<1>4. QED
  BY <1>2, <1>3, OneJobReleased

LEMMA ControlStep == TableInv /\ ControlInv /\ [Next]_vars => ControlInv'
<1> SUFFICES ASSUME TableInv, ControlInv, [Next]_vars PROVE ControlInv'
  OBVIOUS
<1>0. /\ state \in [Job -> JobState] /\ attempt \in [Job -> Nat]
      /\ child \in [Job -> [Attempts -> ChildState]] /\ handle \in [Job -> Attempts \cup {0}]
      /\ \A j \in Job : born[j] = 0 => state[j] = "absent"
  BY DEF TableInv, TypeOK, TableType, ProcsType, SoundNow, Sound
<1>1. ASSUME NEW j \in Job,
             Create(j) \/ Cancel(j) \/ AttemptTimeout(j) \/ BackoffElapses(j) \/ RetryWake(j)
      PROVE  ControlInv'
  <2>1. CASE Create(j)
    BY <2>1, <1>0, Untouched DEF Create, InitialState, timers, procs, ControlInv
  <2>2. CASE BackoffElapses(j) \/ RetryWake(j)
    BY <2>2, ControlUnmoved DEF BackoffElapses, RetryWake, table, procs
  <2>3. QED
    BY <1>1, <2>1, <2>2, StopControls
<1>2. ASSUME NEW g \in Graph, CreateGraph(g) PROVE ControlInv'
  BY <1>2, <1>0, Untouched DEF CreateGraph, InitialState, timers, procs, ControlInv
<1>3. CASE DrainStep
  <2>1. CASE DrainEnd
    BY <2>1, ControlUnmoved DEF DrainEnd, table, timers, procs
  <2>2. QED
    BY <1>3, <2>1, DrainControls DEF DrainStep
<1>4. ASSUME NEW j \in Job, NEW n \in Attempts, NEW ok \in BOOLEAN,
             ChildError(j, n) \/ Escalate(j, n) \/ ProcessClose(j, n, ok)
             \/ FunctionSettles(j, n, ok)
      PROVE  ControlInv'
  <2>0. ~Settles(j) => state[j] # "running" /\ handle[j] = 0
    BY DEF Settles, ControlInv, Controlled
  <2>1. CASE ChildError(j, n)
    <3>1. child[j][n] # "none" /\ child' = [child EXCEPT ![j][n] = "dead"]
      BY <2>1 DEF ChildError
    <3>2. CASE Settles(j)
      BY <2>1, <3>1, <3>2, EventControls, Outcomes DEF ChildError, Settles
    <3>3. CASE ~Settles(j)
      BY <2>0, <2>1, <3>1, <3>3, StrayControls DEF ChildError, table, timers
    <3>4. QED
      BY <3>2, <3>3
  <2>2. CASE Escalate(j, n)
    <3>1. /\ child' = [child EXCEPT ![j][n] = IF @ = "term" THEN "kill" ELSE @]
          /\ UNCHANGED <<state, attempt, timeoutTimer, handle>>
      BY <2>2 DEF Escalate, table, timers
    <3>2. CASE child[j][n] # "term"
      <4>1. child' = child
        BY <1>0, <3>1, <3>2
      <4>2. QED
        BY <3>1, <4>1, ControlUnmoved
    <3>3. CASE child[j][n] = "term"
      <4>1. /\ child'[j][n] = "kill"
            /\ \A m \in Attempts \ {n} : child'[j][m] = child[j][m]
            /\ \A i \in Job \ {j} : child'[i] = child[i]
        BY <1>0, <3>1, <3>3
      <4>2. Controlled(j)'
        BY <3>1, <3>3, <4>1 DEF ControlInv, Controlled
      <4>3. \A i \in Job \ {j} : Controlled(i)'
        BY <3>1, <4>1, Untouched
      <4>4. QED
        BY <4>2, <4>3 DEF ControlInv
    <3>4. QED
      BY <3>2, <3>3
  <2>3. CASE ProcessClose(j, n, ok)
    <3>1. child[j][n] # "none" /\ child' = [child EXCEPT ![j][n] = "none"]
      BY <2>3 DEF ProcessClose
    <3>2. CASE Settles(j)
      BY <2>3, <3>1, <3>2, EventControls, Outcomes DEF ProcessClose, Settles
    <3>3. CASE ~Settles(j)
      <4>1. handle' = [handle EXCEPT ![j] = 0] /\ UNCHANGED <<table, timers>>
        BY <2>3, <3>3 DEF ProcessClose
      <4>2. handle'[j] = 0 /\ \A i \in Job \ {j} : handle'[i] = handle[i]
        BY <1>0, <4>1
      <4>3. QED
        BY <2>0, <3>1, <3>3, <4>1, <4>2, StrayControls DEF table, timers
    <3>4. QED
      BY <3>2, <3>3
  <2>4. CASE FunctionSettles(j, n, ok)
    <3>1. child[j][n] # "none" /\ child' = [child EXCEPT ![j][n] = "none"]
      BY <2>4 DEF FunctionSettles
    <3>2. CASE Settles(j)
      BY <2>4, <3>1, <3>2, EventControls, Outcomes DEF FunctionSettles, Settles
    <3>3. CASE ~Settles(j)
      BY <2>0, <2>4, <3>1, <3>3, StrayControls DEF FunctionSettles, table, timers
    <3>4. QED
      BY <3>2, <3>3
  <2>5. QED
    BY <1>4, <2>1, <2>2, <2>3, <2>4
<1>5. ASSUME NEW S \in SUBSET Job, Prune(S) PROVE ControlInv'
  BY <1>5, <1>0, Untouched DEF Prune, In, Finished, Succeeded, Unsuccessful, timers, procs,
     ControlInv
<1>6. CASE Shutdown
  <2>1. /\ Terminate(Running) /\ Running \in SUBSET Job /\ attempt' = attempt
        /\ state' = [j \in Job |-> IF j \in Running THEN "interrupted" ELSE state[j]]
        /\ handle' = [j \in Job |-> IF j \in Running THEN 0 ELSE handle[j]]
        /\ timeoutTimer' = timeoutTimer \ Running
    BY <1>6 DEF Shutdown, ClearActiveAttempt, Running, In
  <2>2. ASSUME NEW j \in Running PROVE Controlled(j)'
    <3>1. \A n \in Attempts :
            /\ child'[j][n] # "none" => child[j][n] # "none"
            /\ child'[j][n] = "run" => child[j][n] = "run" /\ handle[j] # n
      BY <2>1, TerminateControls
    <3>2. QED
      BY <1>0, <2>1, <3>1, Released
  <2>3. ASSUME NEW j \in Job \ Running PROVE Controlled(j)'
    <3>1. child'[j] = child[j]
      BY <2>1, TerminateControls
    <3>2. QED
      BY <2>1, <3>1, Untouched
  <2>4. QED
    BY <2>2, <2>3 DEF ControlInv
<1>7. CASE WriteSnapshot
  BY <1>7, ControlUnmoved DEF WriteSnapshot, table, timers, procs
<1>8. CASE Restart
  <2>1. /\ \E s : state' = RestoredState(s)
        /\ handle' = [j \in Job |-> 0] /\ timeoutTimer' = {}
        /\ child' = [j \in Job |-> [n \in Attempts |-> "none"]]
    BY <1>8 DEF Restart, Boot
  <2>2. \A j \in Job : state'[j] # "running"
    BY <2>1 DEF RestoredState
  <2>3. QED
    BY <2>1, <2>2 DEF ControlInv, Controlled
<1>9. CASE UNCHANGED vars
  BY <1>9, ControlUnmoved DEF vars, table, timers, procs
<1>10. QED
  BY <1>1, <1>2, <1>3, <1>4, <1>5, <1>6, <1>7, <1>8, <1>9 DEF Next, ProcessEvent

LEMMA ControlInvariant == Spec => []ControlInv
<1>1. Init => ControlInv
  BY DEF Init, ControlInv, Controlled
<1>2. QED
  BY <1>1, ControlStep, TableInvariant, PTL DEF Spec

(* Control: a running job is the one its handle, its deadline and its       *)
(* process say it is, and no other job holds any of them, whatever late     *)
(* closes, errors and kills of earlier attempts are reported.               *)
THEOREM ControlCorrect == Spec => []RunningIsControlled
BY ControlInvariant, ControlImplies, PTL

(* Nothing unreachable: the process of a job without retry policy is held   *)
(* or has been told to stop.                                                *)
THEOREM ProcessesReachable == Spec => []NoUnreachableProcess
BY ControlInvariant, ControlImplies, PTL
-----------------------------------------------------------------------------
(* The order of writers and readers of one workspace.                       *)

LEMMA StartLooksAtTheQueue ==
  ASSUME TableInv, [Next]_vars, NEW w \in Job, NEW r \in Job,
         state[w] = "queued", Access(w) = "write", Access(r) = "read", Cwd(r) = Cwd(w),
         born[w] < born[r], state[r] # "running"
  PROVE  state'[r] # "running"
<1>1. CASE Running' \subseteq Running
  BY <1>1 DEF Running, In
<1>2. ASSUME NEW j \in Job, DrainStart(j) PROVE state'[r] # "running"
  <2>1. CanStart(j) /\ Running' = Running \cup {j}
    BY <1>2, StartTakesCapacity
  <2>2. r # j
    BY <2>1 DEF CanStart, LeaseFree, EarlierQueuedWriter, In
  <2>3. QED
    BY <2>1, <2>2 DEF Running, In
<1>3. QED
  BY <1>1, <1>2, OnlyTheDrainStarts

(* Writers first come, first served: no step starts a reader over a queued  *)
(* writer of its workspace that is older.                                   *)
THEOREM WritersKeepTheirPlace == Spec => WriterNotOvertaken
<1>1. TableInv /\ [Next]_vars
        => [\A w, r \in Job :
              /\ state[w] = "queued" /\ state'[w] = "queued" /\ Access(w) = "write"
              /\ Access(r) = "read" /\ Cwd(r) = Cwd(w) /\ born[w] < born[r]
              /\ state[r] # "running"
              => state'[r] # "running"]_vars
  BY StartLooksAtTheQueue
<1>2. QED
  BY <1>1, TableInvariant, PTL DEF Spec, WriterNotOvertaken

-----------------------------------------------------------------------------
(* Admission. A restart rebuilds the index from a snapshot, so every        *)
(* snapshot of the journal names a key once.                                *)

Unique(s) ==
  \A i, j \in Job :
    s[i] # "absent" /\ s[j] # "absent" /\ Key(j) # NoKey /\ OwnerKey(i) = OwnerKey(j) => i = j

UniqueSnapshots == {x \in SnapshotType : Unique(x.state)}

IndexNames == \A j \in Present : Key(j) # NoKey => idempotencyIndex[OwnerKey(j)] = j

AdmissionInv == Unique(state) /\ IndexNames /\ journal \in Seq(UniqueSnapshots)

LEMMA AdmissionImplies == AdmissionInv => IdempotentAdmission
BY DEF AdmissionInv, Unique, IndexNames, IdempotentAdmission, Present

LEMMA OwnerKeys ==
  ASSUME NEW i \in Job, NEW j \in Job
  PROVE  OwnerKey(j) \in Keys /\ (OwnerKey(i) = OwnerKey(j) => Key(i) = Key(j))
BY DEF OwnerKey, Keys

(* Who is in the table and what the index says of them does not change.     *)
PresenceKept ==
  /\ \A j \in Job : state'[j] = "absent" <=> state[j] = "absent"
  /\ UNCHANGED idempotencyIndex

LEMMA FinishKeepsPresence ==
  ASSUME TableInv, NEW j \in Job, state[j] # "absent", NEW how \in Finished,
         Finish({j}, how) \/ FailAttempt(j, how)
  PROVE  PresenceKept
<1>1. state \in [Job -> JobState] /\ "absent" \notin Finished
  BY DEF TableInv, TypeOK, TableType, Finished, Succeeded, Unsuccessful
<1>2. CASE Finish({j}, how)
  BY <1>1, <1>2 DEF Finish, PresenceKept
<1>3. CASE FailAttempt(j, how)
  <2>1. CASE ~Retryable(j, attempt[j])
    BY <1>1, <1>3, <2>1 DEF FailAttempt, Finish, PresenceKept
  <2>2. CASE Retryable(j, attempt[j])
    BY <1>1, <1>3, <2>2 DEF FailAttempt, PresenceKept
  <2>3. QED
    BY <2>1, <2>2
<1>4. QED
  BY <1>2, <1>3

LEMMA DrainKeepsPresence ==
  ASSUME TableInv, DrainStep
  PROVE  PresenceKept
<1>0. state \in [Job -> JobState] /\ "dependency_failed" \in Finished
  BY DEF TableInv, TypeOK, TableType, Finished, Unsuccessful
<1>1. ASSUME NEW j \in Job, DrainRetry(j) PROVE PresenceKept
  BY <1>0, <1>1 DEF DrainRetry, PresenceKept
<1>2. ASSUME NEW j \in Job, DrainDependencyFailed(j) PROVE PresenceKept
  BY <1>0, <1>2, FinishKeepsPresence DEF DrainDependencyFailed
<1>3. ASSUME NEW j \in Job, DrainReadiness(j) PROVE PresenceKept
  BY <1>0, <1>3 DEF DrainReadiness, PresenceKept
<1>4. ASSUME NEW j \in Job, DrainStart(j) PROVE PresenceKept
  BY <1>0, <1>4 DEF DrainStart, Candidate, PresenceKept
<1>5. ASSUME NEW j \in Job, DrainStartFails(j) PROVE PresenceKept
  <2>1. state[j] = "queued" /\ UNCHANGED idempotencyIndex
        /\ \E s \in {"retry_wait", "failed"} : state' = [state EXCEPT ![j] = s]
    BY <1>5 DEF DrainStartFails, Candidate
  <2>2. QED
    BY <1>0, <2>1 DEF PresenceKept
<1>6. CASE DrainEnd
  BY <1>6 DEF DrainEnd, table, PresenceKept
<1>7. QED
  BY <1>1, <1>2, <1>3, <1>4, <1>5, <1>6 DEF DrainStep

LEMMA EventKeepsPresence ==
  ASSUME TableInv, ProcessEvent
  PROVE  PresenceKept
<1> SUFFICES ASSUME NEW j \in Job, NEW n \in Attempts, NEW ok \in BOOLEAN,
                    ChildError(j, n) \/ Escalate(j, n) \/ ProcessClose(j, n, ok)
                    \/ FunctionSettles(j, n, ok)
             PROVE  PresenceKept
  BY DEF ProcessEvent
<1>1. UNCHANGED table => PresenceKept
  BY DEF table, PresenceKept
<1>2. Settles(j) => state[j] # "absent"
  BY DEF Settles
<1>3. CASE ChildError(j, n) \/ Escalate(j, n)
  BY <1>1, <1>2, <1>3, FinishKeepsPresence, Outcomes DEF ChildError, Escalate
<1>4. CASE ProcessClose(j, n, ok)
  BY <1>1, <1>2, <1>4, FinishKeepsPresence, Outcomes DEF ProcessClose
<1>5. CASE FunctionSettles(j, n, ok)
  BY <1>1, <1>2, <1>5, FinishKeepsPresence, Outcomes DEF FunctionSettles
<1>6. QED
  BY <1>3, <1>4, <1>5

LEMMA OthersKeepPresence ==
  ASSUME TableInv,
         \/ \E j \in Job : Cancel(j) \/ AttemptTimeout(j) \/ BackoffElapses(j) \/ RetryWake(j)
         \/ Shutdown \/ WriteSnapshot \/ UNCHANGED vars
  PROVE  PresenceKept
<1>0. state \in [Job -> JobState] /\ "absent" \notin Unfinished
  BY DEF TableInv, TypeOK, TableType, Unfinished, Resumable
<1>1. ASSUME NEW j \in Job, Cancel(j) \/ AttemptTimeout(j) PROVE PresenceKept
  BY <1>0, <1>1, FinishKeepsPresence, Outcomes DEF Cancel, AttemptTimeout
<1>2. CASE Shutdown
  BY <1>0, <1>2 DEF Shutdown, Running, In, PresenceKept
<1>3. UNCHANGED table => PresenceKept
  BY DEF table, PresenceKept
<1>4. QED
  BY <1>1, <1>2, <1>3 DEF BackoffElapses, RetryWake, WriteSnapshot, vars
LEMMA PresenceKeeps ==
  ASSUME Unique(state), IndexNames, PresenceKept
  PROVE  Unique(state') /\ IndexNames'
BY DEF Unique, IndexNames, Present, PresenceKept

(* A key is admitted again only when the job it named is gone.              *)
LEMMA CreateKeeps ==
  ASSUME TableInv, Unique(state), IndexNames, NEW j \in Job, Create(j)
  PROVE  Unique(state') /\ IndexNames'
<1>1. /\ state \in [Job -> JobState] /\ state[j] = "absent"
      /\ idempotencyIndex \in [Keys -> Job \cup {NoJob}]
      /\ state' = [state EXCEPT ![j] = InitialState(j)]
      /\ Key(j) # NoKey => ~Indexed(j)
  BY DEF Create, TableInv, TypeOK, TableType, SoundNow, Sound
<1>2. ASSUME NEW i \in Present, Key(i) # NoKey PROVE OwnerKey(i) # OwnerKey(j)
  <2> SUFFICES ASSUME OwnerKey(i) = OwnerKey(j) PROVE FALSE
    OBVIOUS
  <2>1. Key(j) # NoKey /\ i \in Job /\ state[i] # "absent"
    BY <1>2, OwnerKeys DEF Present
  <2>2. idempotencyIndex[OwnerKey(j)] = i
    BY <1>2 DEF IndexNames
  <2>3. Indexed(j)
    BY <2>1, <2>2, JobAssumption DEF Indexed
  <2>4. QED
    BY <1>1, <2>1, <2>3
<1>3. Unique(state')
  <2> SUFFICES ASSUME NEW i \in Job, NEW h \in Job, state'[i] # "absent", state'[h] # "absent",
                      Key(h) # NoKey, OwnerKey(i) = OwnerKey(h)
               PROVE  i = h
    BY DEF Unique
  <2>1. Key(i) # NoKey
    BY OwnerKeys
  <2>2. /\ i # j => i \in Present
        /\ h # j => h \in Present
    BY <1>1 DEF Present
  <2>3. QED
    BY <1>1, <1>2, <2>1, <2>2 DEF Unique, Present
<1>4. IndexNames'
  <2> SUFFICES ASSUME NEW i \in Job, state'[i] # "absent", Key(i) # NoKey
               PROVE  idempotencyIndex'[OwnerKey(i)] = i
    BY DEF IndexNames, Present
  <2>0. OwnerKey(i) \in Keys /\ OwnerKey(j) \in Keys
    BY OwnerKeys
  <2>1. CASE i = j
    BY <1>1, <2>0, <2>1 DEF Create
  <2>2. CASE i # j
    <3>1. i \in Present
      BY <1>1, <2>2 DEF Present
    <3>2. OwnerKey(i) # OwnerKey(j) /\ idempotencyIndex[OwnerKey(i)] = i
      BY <1>2, <3>1 DEF IndexNames
    <3>3. QED
      BY <1>1, <2>0, <3>2 DEF Create
  <2>3. QED
    BY <2>1, <2>2
<1>5. QED
  BY <1>3, <1>4

LEMMA CreateGraphKeeps ==
  ASSUME TableInv, Unique(state), IndexNames, NEW g \in Graph, CreateGraph(g)
  PROVE  Unique(state') /\ IndexNames'
<1>1. /\ \A i \in Job : i \notin NodesOf(g) => state'[i] = state[i]
      /\ \A i \in NodesOf(g) : Key(i) = NoKey
      /\ UNCHANGED idempotencyIndex
  BY DEF CreateGraph
<1>2. \A i, h \in Job : OwnerKey(i) = OwnerKey(h) => Key(i) = Key(h)
  BY OwnerKeys
<1>3. QED
  BY <1>1, <1>2 DEF Unique, IndexNames, Present

(* Retention gives the key of a pruned job back, which no other job has.    *)
LEMMA PruneKeeps ==
  ASSUME TableInv, Unique(state), IndexNames, NEW S \in SUBSET Job, Prune(S)
  PROVE  Unique(state') /\ IndexNames'
<1>1. /\ \A j \in Job : state'[j] # "absent" => state[j] # "absent" /\ j \notin S
      /\ \A j \in S : state[j] # "absent"
  BY DEF Prune, In, Finished, Succeeded, Unsuccessful
<1>2. Unique(state')
  BY <1>1 DEF Unique
<1>3. ASSUME NEW j \in Job, state'[j] # "absent", Key(j) # NoKey
      PROVE  idempotencyIndex'[OwnerKey(j)] = j
  <2>1. \A i \in S : OwnerKey(i) # OwnerKey(j)
    BY <1>1, <1>3 DEF Unique
  <2>2. idempotencyIndex[OwnerKey(j)] = j
    BY <1>1, <1>3 DEF IndexNames, Present
  <2>3. QED
    BY <2>1, <2>2, OwnerKeys DEF Prune
<1>4. QED
  BY <1>2, <1>3 DEF IndexNames, Present

(* A restart names in the index the only job of each key.                   *)
LEMMA RestartKeeps ==
  ASSUME TableInv, journal \in Seq(UniqueSnapshots), Restart
  PROVE  Unique(state') /\ IndexNames'
<1>0. PICK booted \in SoundSnapshots :
        /\ Boot(booted)
        /\ \/ booted.state = Head(journal).state
           \/ booted.state = [j \in Job |-> "absent"]
  BY BootsFromDisk
<1>1. /\ Unique(booted.state)
      /\ booted.state \in [Job -> JobState] /\ booted.born \in [Job -> Nat]
  <2>1. Unique(Head(journal).state)
    BY HeadTailProperties DEF UniqueSnapshots, TableInv, JournalSound, JournalType
  <2>2. Unique([j \in Job |-> "absent"])
    BY DEF Unique
  <2>3. QED
    BY <1>0, <2>1, <2>2 DEF SoundSnapshots, SnapshotType
<1>2. /\ state' = RestoredState(booted.state)
      /\ idempotencyIndex' = RestoredIndex(state', booted.born)
  BY <1>0 DEF Boot
<1>3. \A j \in Job : state'[j] = "absent" <=> booted.state[j] = "absent"
  BY <1>1, <1>2 DEF RestoredState
<1>4. Unique(state')
  BY <1>1, <1>3 DEF Unique
<1>5. ASSUME NEW j \in Job, state'[j] # "absent", Key(j) # NoKey
      PROVE  idempotencyIndex'[OwnerKey(j)] = j
  <2> DEFINE named == {i \in Job : state'[i] # "absent" /\ Key(i) # NoKey
                                   /\ OwnerKey(i) = OwnerKey(j)}
  <2>1. named = {j}
    BY <1>4, <1>5 DEF Unique
  <2>2. OwnerKey(j) \in Keys
    BY OwnerKeys
  <2>3. idempotencyIndex'[OwnerKey(j)]
          = IF named = {} THEN NoJob
            ELSE CHOOSE h \in named : \A i \in named : booted.born[i] <= booted.born[h]
    BY <1>2, <2>2 DEF RestoredIndex
  <2>4. \A i \in named : booted.born[i] <= booted.born[j]
    BY <1>1, <2>1
  <2> HIDE DEF named
  <2>5. QED
    BY <2>1, <2>3, <2>4
<1>6. QED
  BY <1>4, <1>5 DEF IndexNames, Present

LEMMA AdmissionStep == TableInv /\ AdmissionInv /\ [Next]_vars => AdmissionInv'
<1> SUFFICES ASSUME TableInv, AdmissionInv, [Next]_vars PROVE AdmissionInv'
  OBVIOUS
<1>0. Unique(state) /\ IndexNames /\ journal \in Seq(UniqueSnapshots)
  BY DEF AdmissionInv
<1>1. Unique(state') /\ IndexNames'
  <2>1. CASE DrainStep \/ ProcessEvent
    BY <1>0, <2>1, DrainKeepsPresence, EventKeepsPresence, PresenceKeeps
  <2>2. ASSUME NEW j \in Job,
               Create(j) \/ Cancel(j) \/ AttemptTimeout(j) \/ BackoffElapses(j) \/ RetryWake(j)
        PROVE  Unique(state') /\ IndexNames'
    BY <1>0, <2>2, CreateKeeps, OthersKeepPresence, PresenceKeeps
  <2>3. CASE Shutdown \/ WriteSnapshot \/ UNCHANGED vars
    BY <1>0, <2>3, OthersKeepPresence, PresenceKeeps
  <2>4. QED
    BY <1>0, <2>1, <2>2, <2>3, CreateGraphKeeps, PruneKeeps, RestartKeeps DEF Next
<1>2. TableInv'
  BY NextTable
<1>3. Snapshot(state', attempt', born', graphs') \in UniqueSnapshots
  BY <1>1, <1>2, SnapshotSound DEF TableInv, TypeOK, TableType, UniqueSnapshots, Snapshot
<1>4. ASSUME NEW j \in Job, DrainStartFails(j)
      PROVE  Snapshot([state EXCEPT ![j] = "running"], attempt', born, graphs) \in UniqueSnapshots
  <2> DEFINE started == [state EXCEPT ![j] = "running"]
  <2>1. state[j] = "queued" /\ state \in [Job -> JobState]
    BY <1>4 DEF DrainStartFails, Candidate, TableInv, TypeOK, TableType
  <2>2. Unique(started)
    BY <1>0, <2>1 DEF Unique
  <2>3. started \in [Job -> JobState]
    BY <2>1 DEF JobState, Unfinished
  <2>4. attempt' \in [Job -> Nat] /\ born \in [Job -> Nat] /\ graphs \in SUBSET Graph
    BY <1>2 DEF TableInv, TypeOK, TableType
  <2> HIDE DEF started
  <2>5. Snapshot(started, attempt', born, graphs) \in SnapshotType
    BY <2>3, <2>4, SnapshotSound
  <2>6. QED
    BY <2>2, <2>5 DEF UniqueSnapshots, Snapshot, started
<1>5. journal' \in Seq(UniqueSnapshots)
  BY <1>0, <1>3, <1>4, JournalMoves
<1>6. QED
  BY <1>1, <1>5 DEF AdmissionInv

(* Idempotent admission: one job of the table per owner and key, and the    *)
(* index names it, across retention and restarts from any snapshot.         *)
THEOREM AdmissionCorrect == Spec => []IdempotentAdmission
<1>1. Init => AdmissionInv
  <2> SUFFICES ASSUME Init PROVE AdmissionInv
    OBVIOUS
  <2>1. Unique(state) /\ IndexNames
    BY DEF Init, Unique, IndexNames, Present
  <2>2. Snapshot(state, attempt, born, graphs) \in UniqueSnapshots
    BY <2>1, InitTable, SnapshotSound DEF UniqueSnapshots, Snapshot, TableInv, TypeOK, TableType
  <2>3. QED
    BY <2>1, <2>2 DEF Init, AdmissionInv
<1>2. QED
  BY <1>1, AdmissionStep, AdmissionImplies, TableInvariant, PTL DEF Spec
-----------------------------------------------------------------------------
(* The order of the Map: positions are given out once, also after a restart *)
(* from any snapshot.                                                       *)

Inserted(b) == {j \in Job : b[j] # 0}

Ordered(b) ==
  \A i \in Job :
    /\ b[i] <= Cardinality(Inserted(b))
    /\ b[i] # 0 => \A j \in Job : b[i] = b[j] => i = j

OrderedSnapshots == {x \in SnapshotType : Ordered(x.born)}

OrderInv == Ordered(born) /\ journal \in Seq(OrderedSnapshots)

LEMMA InsertedFinite ==
  ASSUME NEW b
  PROVE  IsFiniteSet(Inserted(b)) /\ Cardinality(Inserted(b)) \in Nat
<1>1. Inserted(b) \in SUBSET Job
  BY DEF Inserted
<1>2. QED
  BY <1>1, JobAssumption, FS_Subset, FS_CardinalityType

LEMMA CreateOrders ==
  ASSUME TableInv, Ordered(born), NEW j \in Job, Create(j)
  PROVE  Ordered(born')
<1>1. /\ born \in [Job -> Nat] /\ born[j] = 0
      /\ born' = [born EXCEPT ![j] = Cardinality(Inserted(born)) + 1]
  BY DEF Create, NextBorn, Inserted, TableInv, TypeOK, TableType
<1>2. Cardinality(Inserted(born)) \in Nat
  BY InsertedFinite
<1>3. Inserted(born') = Inserted(born) \cup {j} /\ j \notin Inserted(born)
  BY <1>1, <1>2 DEF Inserted
<1>4. Cardinality(Inserted(born')) = Cardinality(Inserted(born)) + 1
  BY <1>3, InsertedFinite, FS_AddElement
<1>5. QED
  BY <1>1, <1>2, <1>4 DEF Ordered

(* The nodes of a graph are as many as its list is long.                    *)
LEMMA PositionsCount ==
  ASSUME NEW g \in Graph
  PROVE  /\ NodesOf(g) \in SUBSET Job
         /\ Cardinality(NodesOf(g)) = Len(GraphRequest[g].nodes)
         /\ \A j \in NodesOf(g) :
              /\ Position(g, j) \in 1 .. Len(GraphRequest[g].nodes)
              /\ GraphRequest[g].nodes[Position(g, j)] = j
<1> DEFINE nodes == GraphRequest[g].nodes
<1>1. /\ nodes \in Seq(Job) /\ DOMAIN nodes = 1 .. Len(nodes) /\ Len(nodes) \in Nat
      /\ \A i, h \in DOMAIN nodes : nodes[i] = nodes[h] => i = h
  BY GraphAssumption
<1>2. NodesOf(g) = {nodes[i] : i \in 1 .. Len(nodes)}
  BY <1>1 DEF NodesOf
<1>3. \A j \in NodesOf(g) : Position(g, j) \in 1 .. Len(nodes) /\ nodes[Position(g, j)] = j
  BY <1>1, <1>2 DEF Position
<1> HIDE DEF nodes
<1>4. Cardinality(NodesOf(g)) = Len(nodes)
  <2> DEFINE f == [i \in 1 .. Len(nodes) |-> nodes[i]]
  <2>1. f \in Bijection(1 .. Len(nodes), NodesOf(g))
    BY <1>1, <1>2 DEF Bijection, Injection, IsInjective, Surjection
  <2>2. ExistsBijection(1 .. Len(nodes), NodesOf(g))
    BY <2>1 DEF ExistsBijection
  <2>3. QED
    BY <1>1, <2>2, FS_CountingElements
<1>5. NodesOf(g) \in SUBSET Job
  BY <1>1, <1>2
<1>6. QED
  BY <1>3, <1>4, <1>5 DEF nodes

LEMMA CreateGraphOrders ==
  ASSUME TableInv, Ordered(born), NEW g \in Graph, CreateGraph(g)
  PROVE  Ordered(born')
<1> DEFINE last == Cardinality(Inserted(born))
           length == Len(GraphRequest[g].nodes)
<1>1. /\ born \in [Job -> Nat] /\ \A j \in NodesOf(g) : born[j] = 0
      /\ born' = [j \in Job |-> IF j \in NodesOf(g) THEN last + 1 + Position(g, j) - 1
                                                    ELSE born[j]]
  BY DEF CreateGraph, NextBorn, Inserted, TableInv, TypeOK, TableType
<1>2. last \in Nat /\ length \in Nat
  BY InsertedFinite, GraphAssumption
<1>3. /\ NodesOf(g) \in SUBSET Job /\ Cardinality(NodesOf(g)) = length
      /\ \A j \in NodesOf(g) : Position(g, j) \in 1 .. length
      /\ \A i, j \in NodesOf(g) : Position(g, i) = Position(g, j) => i = j
  BY PositionsCount
<1>4. /\ IsFiniteSet(Inserted(born)) /\ IsFiniteSet(NodesOf(g))
  BY <1>3, InsertedFinite, JobAssumption, FS_Subset
<1> HIDE DEF last, length
<1>5. \A j \in NodesOf(g) : born'[j] = last + Position(g, j) /\ born'[j] \in Nat /\ born'[j] # 0
  BY <1>1, <1>2, <1>3
<1>6. Inserted(born') = Inserted(born) \cup NodesOf(g) /\ Inserted(born) \cap NodesOf(g) = {}
  BY <1>1, <1>3, <1>5 DEF Inserted
<1>7. Cardinality(Inserted(born')) = last + length
  <2>1. Cardinality(Inserted(born) \cup NodesOf(g))
          = Cardinality(Inserted(born)) + Cardinality(NodesOf(g))
              - Cardinality(Inserted(born) \cap NodesOf(g))
    BY <1>4, FS_Union
  <2>2. Cardinality(Inserted(born) \cap NodesOf(g)) = 0
    BY <1>6, FS_EmptySet
  <2>3. QED
    BY <1>2, <1>3, <1>6, <2>1, <2>2 DEF last
<1>8. ASSUME NEW i \in Job
      PROVE  /\ born'[i] <= last + length
             /\ born'[i] # 0 => \A j \in Job : born'[i] = born'[j] => i = j
  <2>1. \A j \in Job \ NodesOf(g) : born'[j] = born[j] /\ born[j] <= last /\ born[j] \in Nat
    BY <1>1 DEF Ordered, last
  <2>2. \A j \in NodesOf(g) : last < born'[j] /\ born'[j] <= last + length
    BY <1>2, <1>3, <1>5
  <2>3. CASE i \in NodesOf(g)
    <3>1. ASSUME NEW j \in Job, born'[i] = born'[j] PROVE i = j
      <4>1. j \in NodesOf(g)
        BY <1>2, <1>5, <2>1, <2>2, <2>3, <3>1
      <4>2. Position(g, i) = Position(g, j)
        BY <1>2, <1>3, <1>5, <2>3, <3>1, <4>1
      <4>3. QED
        BY <1>3, <2>3, <4>1, <4>2
    <3>2. QED
      BY <2>2, <2>3, <3>1
  <2>4. CASE i \notin NodesOf(g)
    <3>1. ASSUME NEW j \in Job, born'[i] = born'[j], born'[i] # 0 PROVE i = j
      <4>1. j \notin NodesOf(g)
        BY <1>2, <1>5, <2>1, <2>2, <2>4, <3>1
      <4>2. QED
        BY <2>1, <2>4, <3>1, <4>1 DEF Ordered
    <3>2. born'[i] <= last + length
      BY <1>2, <2>1, <2>4
    <3>3. QED
      BY <3>1, <3>2
  <2>5. QED
    BY <2>3, <2>4
<1>9. QED
  BY <1>7, <1>8 DEF Ordered

(* Nothing else gives out positions.                                        *)
LEMMA PositionsStay ==
  ASSUME \/ DrainStep \/ ProcessEvent \/ Shutdown \/ WriteSnapshot \/ UNCHANGED vars
         \/ \E j \in Job : Cancel(j) \/ AttemptTimeout(j) \/ BackoffElapses(j) \/ RetryWake(j)
         \/ \E S \in SUBSET Job : Prune(S)
  PROVE  born' = born
<1>1. \A S, how : Finish(S, how) => born' = born
  BY DEF Finish
<1>2. \A j, how : FailAttempt(j, how) => born' = born
  BY <1>1 DEF FailAttempt
<1>3. CASE DrainStep
  BY <1>1, <1>3 DEF DrainStep, DrainRetry, DrainDependencyFailed, DrainReadiness, DrainStart,
     DrainStartFails, DrainEnd, table
<1>4. CASE ProcessEvent
  <2> SUFFICES ASSUME NEW j \in Job, NEW n \in Attempts, NEW ok \in BOOLEAN,
                      \/ ChildError(j, n) \/ Escalate(j, n)
                      \/ ProcessClose(j, n, ok) \/ FunctionSettles(j, n, ok)
               PROVE  born' = born
    BY <1>4 DEF ProcessEvent
  <2>1. \/ UNCHANGED table
        \/ \E how \in {"failed", "succeeded"} : Finish({j}, how) \/ FailAttempt(j, how)
    BY DEF ChildError, Escalate, ProcessClose, FunctionSettles
  <2>2. QED
    BY <1>1, <1>2, <2>1 DEF table
<1>5. CASE \E j \in Job : Cancel(j) \/ AttemptTimeout(j) \/ BackoffElapses(j) \/ RetryWake(j)
  BY <1>1, <1>2, <1>5 DEF Cancel, AttemptTimeout, BackoffElapses, RetryWake, table
<1>6. QED
  BY <1>3, <1>4, <1>5 DEF Shutdown, WriteSnapshot, Prune, vars, table

LEMMA OrderStep == TableInv /\ OrderInv /\ [Next]_vars => OrderInv'
<1> SUFFICES ASSUME TableInv, OrderInv, [Next]_vars PROVE OrderInv'
  OBVIOUS
<1>0. Ordered(born) /\ journal \in Seq(OrderedSnapshots)
  BY DEF OrderInv
<1>1. Ordered(born')
  <2>1. CASE Restart
    <3>1. born' = Head(journal).born /\ Head(journal) \in OrderedSnapshots
      BY <1>0, <2>1, HeadTailProperties, BootsFromDisk DEF Boot, TableInv, JournalSound, JournalType
    <3>2. QED
      BY <3>1 DEF OrderedSnapshots
  <2>2. QED
    BY <1>0, <2>1, CreateOrders, CreateGraphOrders, PositionsStay DEF Next
<1>2. TableInv'
  BY NextTable
<1>3. Snapshot(state', attempt', born', graphs') \in OrderedSnapshots
  BY <1>1, <1>2, SnapshotSound DEF TableInv, TypeOK, TableType, OrderedSnapshots, Snapshot
<1>4. ASSUME NEW j \in Job, DrainStartFails(j)
      PROVE  Snapshot([state EXCEPT ![j] = "running"], attempt', born, graphs) \in OrderedSnapshots
  <2> DEFINE started == [state EXCEPT ![j] = "running"]
  <2>1. started \in [Job -> JobState]
    BY DEF TableInv, TypeOK, TableType, JobState, Unfinished
  <2>2. attempt' \in [Job -> Nat] /\ born \in [Job -> Nat] /\ graphs \in SUBSET Graph
    BY <1>2 DEF TableInv, TypeOK, TableType
  <2> HIDE DEF started
  <2>3. Snapshot(started, attempt', born, graphs) \in SnapshotType
    BY <2>1, <2>2, SnapshotSound
  <2>4. Snapshot(started, attempt', born, graphs).born = born
    BY DEF Snapshot
  <2>5. Snapshot(started, attempt', born, graphs) \in OrderedSnapshots
    BY <1>0, <2>3, <2>4 DEF OrderedSnapshots
  <2>6. QED
    BY <2>5 DEF started
<1>5. journal' \in Seq(OrderedSnapshots)
  BY <1>0, <1>3, <1>4, JournalMoves
<1>6. QED
  BY <1>1, <1>5 DEF OrderInv

LEMMA OrderInvariant == Spec => []OrderInv
<1>1. Init => OrderInv
  <2> SUFFICES ASSUME Init PROVE OrderInv
    OBVIOUS
  <2>1. Ordered(born)
    BY InsertedFinite DEF Init, Ordered
  <2>2. Snapshot(state, attempt, born, graphs) \in OrderedSnapshots
    BY <2>1, InitTable, SnapshotSound DEF OrderedSnapshots, Snapshot, TableInv, TypeOK, TableType
  <2>3. QED
    BY <2>1, <2>2 DEF Init, OrderInv
<1>2. QED
  BY <1>1, OrderStep, TableInvariant, PTL DEF Spec

-----------------------------------------------------------------------------
(* No lost wake-up. While the queue is drained, what the loop has passed is *)
(* as it would leave it; between two handlers nothing is left behind.       *)

Visited ==
  \A j \in Job : born[j] <= cursor =>
    /\ state[j] = "waiting" => ~DependenciesMet(j)
    /\ state[j] = "retry_wait" => j \in retryTimer

LoopInv == (draining => Visited) /\ NothingForgotten

(* A loop that starts over has passed nothing.                              *)
LEMMA LoopStartsOver ==
  ASSUME TableInv', cursor' = 0, draining' \/ stopping'
  PROVE  LoopInv'
<1>1. \A j \in Job : born'[j] <= 0 => state'[j] = "absent"
  BY DEF TableInv, TypeOK, TableType, SoundNow, Sound
<1>2. QED
  BY <1>1 DEF LoopInv, Visited, NothingForgotten

LEMMA DrainStartsOver ==
  ASSUME TableInv, TableInv', NEW x, Drain(x), UNCHANGED stopping
  PROVE  LoopInv'
BY LoopStartsOver DEF Drain, TableInv, TypeOK, LoopType

(* Nothing of the table changed, and no timer is lost that is still needed. *)
LEMMA LoopUnmoved ==
  ASSUME LoopInv, UNCHANGED <<state, born, draining, cursor, stopping>>,
         retryTimer \cap In({"retry_wait"}) \subseteq retryTimer'
  PROVE  LoopInv'
<1>1. \A j \in Job : /\ CanStart(j)' <=> CanStart(j)
                     /\ DependenciesMet(j)' <=> DependenciesMet(j)
  BY DEF CanStart, WithinBudget, LeaseFree, EarlierQueuedWriter, Load, LaneLoad, Running, In,
     DependenciesMet
<1>2. \A j \in Job : state[j] = "retry_wait" /\ j \in retryTimer => j \in retryTimer'
  BY DEF In
<1>3. QED
  BY <1>1, <1>2 DEF LoopInv, Visited, NothingForgotten, In

(* One visit of the loop.                                                   *)
LEMMA VisitKeepsLoop ==
  ASSUME TableInv, Ordered(born), LoopInv, NEW j \in Job, Visit(j),
         UNCHANGED <<born, stopping>>,
         \A i \in Job \ {j} : state'[i] = state[i],
         \A i \in Job : state'[i] = "succeeded" => state[i] = "succeeded",
         retryTimer \ {j} \subseteq retryTimer',
         state'[j] = "waiting" => ~DependenciesMet(j),
         state'[j] = "retry_wait" => j \in retryTimer'
  PROVE  LoopInv'
<1>1. draining /\ draining' /\ cursor' = born[j] /\ cursor \in Nat /\ born \in [Job -> Nat]
  BY DEF Visit, TableInv, TypeOK, LoopType, TableType
<1>2. Visited
  BY <1>1 DEF LoopInv
<1>3. \A i \in Job : DependenciesMet(i)' => DependenciesMet(i)
  BY JobAssumption DEF DependenciesMet
<1>4. ASSUME NEW i \in Job \ {j}, born[i] <= born[j], state[i] \in Resumable
      PROVE  born[i] <= cursor
  <2>1. born[i] # 0 /\ born[i] # born[j]
    BY <1>4 DEF Ordered, TableInv, SoundNow, Sound, Resumable
  <2>2. CASE born[i] > cursor
    BY <1>1, <1>4, <2>1, <2>2 DEF Visit, Scanned, In
  <2>3. QED
    BY <1>1, <2>2
<1>5. Visited'
  <2> SUFFICES ASSUME NEW i \in Job, born[i] <= born[j]
               PROVE  /\ state'[i] = "waiting" => ~DependenciesMet(i)'
                      /\ state'[i] = "retry_wait" => i \in retryTimer'
    BY <1>1 DEF Visited
  <2>1. CASE i = j
    BY <1>3, <2>1
  <2>2. CASE i # j
    BY <1>2, <1>3, <1>4, <2>2 DEF Visited, Resumable
  <2>3. QED
    BY <2>1, <2>2
<1>6. QED
  BY <1>1, <1>5 DEF LoopInv, NothingForgotten

LEMMA DrainKeepsLoop ==
  ASSUME TableInv, TableInv', Ordered(born), LoopInv, DrainStep
  PROVE  LoopInv'
<1>0. state \in [Job -> JobState]
  BY DEF TableInv, TypeOK, TableType
<1>1. ASSUME NEW j \in Job, DrainRetry(j) PROVE LoopInv'
  <2>1. /\ Visit(j) /\ state[j] = "retry_wait" /\ UNCHANGED <<born, stopping>>
        /\ \/ state' = [state EXCEPT ![j] = "queued"] /\ retryTimer' = retryTimer
           \/ state' = state /\ retryTimer' = retryTimer \cup {j}
    BY <1>1 DEF DrainRetry
  <2>2. QED
    BY <1>0, <2>1, VisitKeepsLoop
<1>2. ASSUME NEW j \in Job, DrainDependencyFailed(j) PROVE LoopInv'
  <2>1. /\ Visit(j) /\ state[j] \in {"waiting", "queued"} /\ UNCHANGED <<born, stopping>>
        /\ state' = [i \in Job |-> IF i \in {j} THEN "dependency_failed" ELSE state[i]]
        /\ retryTimer' = retryTimer \ {j}
    BY <1>2 DEF DrainDependencyFailed, Finish
  <2>2. QED
    BY <1>0, <2>1, VisitKeepsLoop
<1>3. ASSUME NEW j \in Job, DrainReadiness(j) PROVE LoopInv'
  <2>1. /\ Visit(j) /\ UNCHANGED <<born, stopping, retryTimer>>
        /\ state' = [state EXCEPT ![j] = IF DependenciesMet(j) THEN "queued" ELSE "waiting"]
    BY <1>3 DEF DrainReadiness, timers
  <2>2. QED
    BY <1>0, <2>1, VisitKeepsLoop
<1>4. ASSUME NEW j \in Job, DrainStart(j) \/ DrainStartFails(j) PROVE LoopInv'
  <2>1. draining' /\ cursor' = 0
    BY <1>4 DEF DrainStart, DrainStartFails, Candidate
  <2>2. QED
    BY <2>1, LoopStartsOver
<1>5. CASE DrainEnd
  <2>1. /\ draining /\ ~draining' /\ Scanned = {} /\ UNCHANGED <<state, born, retryTimer>>
        /\ \A j \in In({"queued"}) : ~CanStart(j)
    BY <1>5 DEF DrainEnd, table, timers
  <2>2. \A j \in Job : state[j] \in Resumable => born[j] <= cursor
    BY <2>1 DEF Scanned, In, TableInv, TypeOK, TableType, LoopType
  <2>3. /\ \A j \in In({"waiting"}) : ~DependenciesMet(j)
        /\ In({"retry_wait"}) \subseteq retryTimer
    BY <2>1, <2>2 DEF LoopInv, Visited, In, Resumable
  <2>4. /\ \A j \in Job : /\ CanStart(j)' <=> CanStart(j)
                          /\ DependenciesMet(j)' <=> DependenciesMet(j)
        /\ \A S : In(S)' = In(S)
    BY <2>1 DEF CanStart, WithinBudget, LeaseFree, EarlierQueuedWriter, Load, LaneLoad, Running,
       In, DependenciesMet
  <2>5. NothingForgotten'
    BY <2>1, <2>3, <2>4 DEF NothingForgotten, In
  <2>6. QED
    BY <2>1, <2>5 DEF LoopInv
<1>6. QED
  BY <1>1, <1>2, <1>3, <1>4, <1>5 DEF DrainStep

LEMMA EventKeepsLoop ==
  ASSUME TableInv, TableInv', LoopInv, ProcessEvent
  PROVE  LoopInv'
<1> SUFFICES ASSUME NEW j \in Job, NEW n \in Attempts, NEW ok \in BOOLEAN,
                    \/ ChildError(j, n) \/ Escalate(j, n)
                    \/ ProcessClose(j, n, ok) \/ FunctionSettles(j, n, ok)
             PROVE  LoopInv'
  BY DEF ProcessEvent
<1>1. /\ UNCHANGED stopping
      /\ Drain(FALSE) \/ UNCHANGED <<table, timers, loop>>
  BY DEF ChildError, Escalate, ProcessClose, FunctionSettles
<1>2. QED
  BY <1>1, DrainStartsOver, LoopUnmoved DEF table, timers, loop

(* Retention only removes finished jobs none of the queue depends on.       *)
LEMMA PruneKeepsLoop ==
  ASSUME TableInv, TableInv', LoopInv, NEW S \in SUBSET Job, Prune(S)
  PROVE  LoopInv'
<1>1. /\ state' = [j \in Job |-> IF j \in S THEN "absent" ELSE state[j]]
      /\ \A j \in S : state[j] \in Finished
      /\ ~draining /\ UNCHANGED <<born, retryTimer, draining, stopping>>
  BY DEF Prune, In, AtRest, timers, loop
<1>2. \A j \in Job : \A s \in Unfinished : state'[j] = s <=> state[j] = s
  BY <1>1 DEF Finished, Succeeded, Unsuccessful, Unfinished, Resumable
<1>3. /\ \A s \in Unfinished : In({s})' = In({s})
      /\ Running' = Running
  BY <1>2 DEF In, Running, Unfinished
<1>4. \A j \in Job : CanStart(j)' <=> CanStart(j)
  <2>1. In({"queued"})' = In({"queued"})
    BY <1>3 DEF Unfinished, Resumable
  <2>2. \A j \in Job : EarlierQueuedWriter(j)' <=> EarlierQueuedWriter(j)
    BY <1>1, <2>1 DEF EarlierQueuedWriter
  <2>3. QED
    BY <1>3, <2>2 DEF CanStart, WithinBudget, LeaseFree, Load, LaneLoad
<1>5. \A j \in Job : DependenciesMet(j)' => DependenciesMet(j)
  BY <1>1, JobAssumption DEF DependenciesMet
<1>6. NothingForgotten'
  BY <1>1, <1>3, <1>4, <1>5 DEF LoopInv, NothingForgotten, Unfinished, Resumable, In
<1>7. QED
  BY <1>1, <1>6 DEF LoopInv

LEMMA LoopStep == TableInv /\ OrderInv /\ LoopInv /\ [Next]_vars => LoopInv'
<1> SUFFICES ASSUME TableInv, OrderInv, LoopInv, [Next]_vars PROVE LoopInv'
  OBVIOUS
<1>0. TableInv' /\ Ordered(born)
  BY NextTable DEF OrderInv
<1>1. ASSUME NEW j \in Job, Create(j) \/ Cancel(j) \/ AttemptTimeout(j) PROVE LoopInv'
  BY <1>0, <1>1, DrainStartsOver DEF Create, Cancel, AttemptTimeout
<1>2. ASSUME NEW j \in Job, BackoffElapses(j) PROVE LoopInv'
  BY <1>2, LoopUnmoved DEF BackoffElapses, table, loop
<1>3. ASSUME NEW j \in Job, RetryWake(j) PROVE LoopInv'
  <2>1. CASE state[j] = "retry_wait"
    BY <1>0, <1>3, <2>1, DrainStartsOver DEF RetryWake
  <2>2. CASE state[j] # "retry_wait"
    BY <1>3, <2>2, LoopUnmoved DEF RetryWake, table, loop, In
  <2>3. QED
    BY <2>1, <2>2
<1>4. ASSUME NEW g \in Graph, CreateGraph(g) PROVE LoopInv'
  BY <1>0, <1>4, DrainStartsOver DEF CreateGraph
<1>5. CASE Shutdown
  BY <1>5 DEF Shutdown, AtRest, loop, LoopInv, NothingForgotten
<1>6. CASE WriteSnapshot \/ UNCHANGED vars
  BY <1>6, LoopUnmoved DEF WriteSnapshot, vars, table, timers, loop
<1>7. CASE Restart
  BY <1>0, <1>7, LoopStartsOver DEF Restart, Boot
<1>8. QED
  BY <1>0, <1>1, <1>2, <1>3, <1>4, <1>5, <1>6, <1>7, DrainKeepsLoop, EventKeepsLoop,
     PruneKeepsLoop DEF Next

(* No lost wake-up, for every dependency graph and every budget: when the   *)
(* event loop is idle nothing startable is left queued, nothing ready is    *)
(* left waiting, and every retry has its timer (drainQueue,                 *)
(* scheduleRetryWake).                                                      *)
THEOREM NothingIsForgotten == Spec => []NothingForgotten
<1>1. Init => LoopInv
  BY DEF Init, LoopInv, NothingForgotten, In
<1>2. LoopInv => NothingForgotten
  BY DEF LoopInv
<1>3. QED
  BY <1>1, <1>2, LoopStep, OrderInvariant, TableInvariant, PTL DEF Spec

-----------------------------------------------------------------------------
(* The promise of the ledger: every step of the runtime, drain or event,    *)
(* crash or restart, is a step of JobLedger or leaves the ledger alone, and *)
(* what of the ledger has reached the disk stays there. This is the         *)
(* refinement mapping.                                                      *)

LEMMA Phases ==
  /\ PhaseOf("absent") = "unknown" /\ PhaseOf("running") = "active"
  /\ PhaseOf("succeeded") = "done"
  /\ \A s \in Resumable : PhaseOf(s) = "pending"
  /\ \A s \in Unsuccessful : PhaseOf(s) = "dead"
  /\ \A s \in Unfinished : PhaseOf(s) \in {"pending", "active"}
  /\ \A s \in Finished : PhaseOf(s) \in {"done", "dead"}
BY DEF PhaseOf, Resumable, Unsuccessful, Unfinished, Finished, Succeeded

LEMMA PhasesBack ==
  ASSUME NEW s \in JobState
  PROVE  /\ PhaseOf(s) \in {"unknown", "pending", "active", "done", "dead"}
         /\ PhaseOf(s) = "unknown" => s = "absent"
         /\ PhaseOf(s) = "pending" => s \in Resumable
         /\ PhaseOf(s) = "active" => s = "running"
BY DEF PhaseOf, JobState, Finished, Unfinished, Resumable, Succeeded, Unsuccessful

(* A step that only moves jobs about before their attempts.                 *)
LEMMA Stutters ==
  ASSUME \A j \in Job : state'[j] = state[j] \/ {state[j], state'[j]} \subseteq Resumable
  PROVE  LedgerPhase' = LedgerPhase
BY Phases DEF LedgerPhase

(* A step that takes the jobs of S to one phase and leaves the others.      *)
LEMMA Moves ==
  ASSUME NEW S \in SUBSET Job, NEW from, NEW to,
         \A j \in S : PhaseOf(state[j]) \in from /\ PhaseOf(state'[j]) = to,
         \A j \in Job \ S : state'[j] = state[j]
  PROVE  Ledger!Move(S, from, to)
BY DEF Ledger!Move, LedgerPhase

LedgerStep == Ledger!LedgerNext \/ LedgerPhase' = LedgerPhase

LEMMA GivesUp ==
  ASSUME NEW S \in SUBSET In(Unfinished), NEW how \in Unsuccessful,
         state' = [j \in Job |-> IF j \in S THEN how ELSE state[j]]
  PROVE  LedgerStep
<1>1. S \in SUBSET Job /\ \A j \in S : state'[j] \in Unsuccessful
  BY DEF In
<1>2. \A j \in S : PhaseOf(state'[j]) = "dead"
  BY <1>1, Phases
<1>3. \A j \in S : PhaseOf(state[j]) \in Ledger!Unsettled
  BY Phases DEF Ledger!Unsettled, In, Unfinished
<1>4. Ledger!GiveUp(S)
  BY <1>1, <1>2, <1>3, Moves DEF Ledger!GiveUp
<1>5. QED
  BY <1>1, <1>4 DEF LedgerStep, Ledger!LedgerNext

LEMMA Succeeds ==
  ASSUME NEW j \in Job, state[j] = "running", Finish({j}, "succeeded")
  PROVE  LedgerStep
<1>1. state' = [i \in Job |-> IF i \in {j} THEN "succeeded" ELSE state[i]]
  BY DEF Finish
<1>2. PhaseOf(state[j]) = "active" /\ PhaseOf(state'[j]) = "done"
  BY <1>1, Phases DEF Resumable
<1>3. Ledger!Move({j}, {"active"}, "done")
  BY <1>1, <1>2, Moves
<1>4. QED
  BY <1>3 DEF LedgerStep, Ledger!LedgerNext, Ledger!Succeed

LEMMA Fails ==
  ASSUME TableInv, NEW j \in Job, state[j] = "running", NEW how \in Unsuccessful,
         FailAttempt(j, how)
  PROVE  LedgerStep
<1>1. CASE ~Retryable(j, attempt[j])
  <2>1. /\ state' = [i \in Job |-> IF i \in {j} THEN how ELSE state[i]]
        /\ {j} \in SUBSET In(Unfinished)
    BY <1>1 DEF FailAttempt, Finish, In, Unfinished
  <2>2. QED
    BY <2>1, GivesUp
<1>2. CASE Retryable(j, attempt[j])
  <2>1. state' = [state EXCEPT ![j] = "retry_wait"] /\ state \in [Job -> JobState]
    BY <1>2 DEF FailAttempt, TableInv, TypeOK, TableType
  <2>2. PhaseOf(state[j]) = "active" /\ PhaseOf(state'[j]) = "pending"
    BY <2>1, Phases DEF Resumable
  <2>3. Ledger!Move({j}, {"active"}, "pending")
    BY <2>1, <2>2, Moves
  <2>4. QED
    BY <2>3 DEF LedgerStep, Ledger!LedgerNext, Ledger!Retry
<1>3. QED
  BY <1>1, <1>2

LEMMA Submits ==
  ASSUME TableInv, NEW S \in SUBSET Job, \A j \in S : born[j] = 0,
         state' = [j \in Job |-> IF j \in S THEN InitialState(j) ELSE state[j]]
  PROVE  LedgerStep
<1>1. \A j \in S : state[j] = "absent" /\ state'[j] \in {"queued", "waiting"}
  BY DEF InitialState, TableInv, SoundNow, Sound
<1>2. \A j \in S : PhaseOf(state[j]) = "unknown" /\ PhaseOf(state'[j]) = "pending"
  BY <1>1, Phases DEF Resumable
<1>3. Ledger!Move(S, {"unknown"}, "pending")
  BY <1>2, Moves
<1>4. QED
  BY <1>3 DEF LedgerStep, Ledger!LedgerNext, Ledger!Submit

-----------------------------------------------------------------------------
(* A start                                                                  *)

LEMMA ActiveAreRunning ==
  ASSUME TableType
  PROVE  Ledger!Holding(LedgerPhase, {"active"}) = Running
BY Phases, PhasesBack DEF TableType, Ledger!Holding, LedgerPhase, Running, In

LEMMA SameCardinality == \A S : Ledger!Cardinality(S) = Cardinality(S)
BY Zenon DEF Ledger!Cardinality, Cardinality

LEMMA WithinBudgets ==
  ASSUME WithinLimits', LeaseExclusive'
  PROVE  Ledger!Compatible(Running')
<1>1. Running' \in SUBSET Job
  BY DEF Running, In
<1>2. Cardinality(Running') <= MaxConcurrent
  BY DEF WithinLimits
<1>3. ASSUME NEW j \in Running'
      PROVE  /\ Cardinality({i \in Running' : Request[i].owner = Request[j].owner}) <= MaxPerUser
             /\ Cardinality({i \in Running' : Request[i].class = Request[j].class})
                  <= ResourceLimit[Request[j].class]
  <2>1. Load(Owner(j))' <= MaxPerUser /\ LaneLoad(Class(j))' <= ResourceLimit[Class(j)]
    BY <1>1 DEF WithinLimits, Classes
  <2>2. QED
    BY <2>1 DEF Load, LaneLoad, Owner, Class
<1>4. \A j, i \in Running' :
        i # j /\ Request[i].cwd = Request[j].cwd => Request[i].access = "read"
  BY DEF LeaseExclusive, Cwd, Access
<1>5. QED
  BY <1>2, <1>3, <1>4, SameCardinality DEF Ledger!Compatible

LEMMA Begins ==
  ASSUME TableInv, DependenciesHeld, WithinLimits', LeaseExclusive', NEW j \in Job, DrainStart(j)
  PROVE  LedgerStep
<1>1. /\ state[j] = "queued" /\ state \in [Job -> JobState]
      /\ state' = [state EXCEPT ![j] = "running"]
      /\ Running' = Running \cup {j}
  BY StartTakesCapacity DEF DrainStart, Candidate, TableInv, TypeOK, TableType
<1>2. \A d \in Request[j].dependsOn : LedgerPhase[d] = "done"
  <2>1. \A d \in DependsOn(j) : d \in Job /\ state[d] = "succeeded"
    BY <1>1, JobAssumption DEF DependenciesHeld, In
  <2>2. QED
    BY <2>1, Phases DEF DependsOn, LedgerPhase
<1>3. Ledger!Compatible(Ledger!Holding(LedgerPhase, {"active"}) \cup {j})
  <2>1. Ledger!Compatible(Running')
    BY WithinBudgets
  <2>2. QED
    BY <1>1, <2>1, ActiveAreRunning DEF TableInv, TypeOK
<1>4. PhaseOf(state[j]) = "pending" /\ PhaseOf(state'[j]) = "active"
  BY <1>1, Phases DEF Resumable
<1>5. Ledger!Move({j}, {"pending"}, "active")
  BY <1>1, <1>4, Moves
<1>6. QED
  BY <1>2, <1>3, <1>5 DEF LedgerStep, Ledger!LedgerNext, Ledger!Begin

-----------------------------------------------------------------------------
(* The other steps                                                          *)

LEMMA DrainFollows ==
  ASSUME TableInv, DependenciesHeld, WithinLimits', LeaseExclusive', DrainStep
  PROVE  LedgerStep
<1>0. state \in [Job -> JobState]
  BY DEF TableInv, TypeOK, TableType
<1>1. ASSUME NEW j \in Job, DrainRetry(j) \/ DrainReadiness(j) PROVE LedgerStep
  <2>1. \/ UNCHANGED state
        \/ /\ state[j] \in Resumable
           /\ \E s \in Resumable : state' = [state EXCEPT ![j] = s]
    BY <1>1 DEF DrainRetry, DrainReadiness, Resumable
  <2>2. \A i \in Job : state'[i] = state[i] \/ {state[i], state'[i]} \subseteq Resumable
    BY <1>0, <2>1
  <2>3. QED
    BY <2>2, Stutters DEF LedgerStep
<1>2. ASSUME NEW j \in Job, DrainDependencyFailed(j) PROVE LedgerStep
  <2>1. /\ state' = [i \in Job |-> IF i \in {j} THEN "dependency_failed" ELSE state[i]]
        /\ {j} \in SUBSET In(Unfinished)
    BY <1>2 DEF DrainDependencyFailed, Finish, In, Unfinished, Resumable
  <2>2. QED
    BY <2>1, GivesUp DEF Unsuccessful
<1>3. ASSUME NEW j \in Job, DrainStartFails(j) PROVE LedgerStep
  <2>1. /\ state[j] = "queued"
        /\ state' = [state EXCEPT ![j] = "retry_wait"] \/ state' = [state EXCEPT ![j] = "failed"]
    BY <1>3 DEF DrainStartFails, Candidate
  <2>2. CASE state' = [state EXCEPT ![j] = "retry_wait"]
    <3>1. \A i \in Job : state'[i] = state[i] \/ {state[i], state'[i]} \subseteq Resumable
      BY <1>0, <2>1, <2>2 DEF Resumable
    <3>2. QED
      BY <3>1, Stutters DEF LedgerStep
  <2>3. CASE state' = [state EXCEPT ![j] = "failed"]
    <3>1. /\ state' = [i \in Job |-> IF i \in {j} THEN "failed" ELSE state[i]]
          /\ {j} \in SUBSET In(Unfinished)
      BY <1>0, <2>1, <2>3 DEF In, Unfinished, Resumable
    <3>2. QED
      BY <3>1, GivesUp DEF Unsuccessful
  <2>4. QED
    BY <2>1, <2>2, <2>3
<1>4. CASE DrainEnd
  <2>1. UNCHANGED state
    BY <1>4 DEF DrainEnd, table
  <2>2. QED
    BY <2>1 DEF LedgerStep, LedgerPhase
<1>5. QED
  BY <1>1, <1>2, <1>3, <1>4, Begins DEF DrainStep

LEMMA EventsFollow ==
  ASSUME TableInv, ProcessEvent
  PROVE  LedgerStep
<1> SUFFICES ASSUME NEW j \in Job, NEW n \in Attempts, NEW ok \in BOOLEAN,
                    \/ ChildError(j, n) \/ Escalate(j, n)
                    \/ ProcessClose(j, n, ok) \/ FunctionSettles(j, n, ok)
             PROVE  LedgerStep
  BY DEF ProcessEvent
<1>1. \/ UNCHANGED table
      \/ state[j] = "running" /\ (Finish({j}, "succeeded") \/ FailAttempt(j, "failed"))
  BY DEF ChildError, Escalate, ProcessClose, FunctionSettles, Settles
<1>2. UNCHANGED table => LedgerStep
  BY DEF table, LedgerStep, LedgerPhase
<1>3. "failed" \in Unsuccessful
  BY DEF Unsuccessful
<1>4. QED
  BY <1>1, <1>2, <1>3, Succeeds, Fails

LEMMA RequestsFollow ==
  ASSUME TableInv, NEW j \in Job,
         Create(j) \/ Cancel(j) \/ AttemptTimeout(j) \/ BackoffElapses(j) \/ RetryWake(j)
  PROVE  LedgerStep
<1>1. CASE Create(j)
  <2>1. /\ {j} \in SUBSET Job /\ \A i \in {j} : born[i] = 0
        /\ state' = [i \in Job |-> IF i \in {j} THEN InitialState(i) ELSE state[i]]
    BY <1>1 DEF Create, TableInv, TypeOK, TableType
  <2>2. QED
    BY <2>1, Submits
<1>2. CASE Cancel(j)
  <2>1. /\ state' = [i \in Job |-> IF i \in {j} THEN "cancelled" ELSE state[i]]
        /\ {j} \in SUBSET In(Unfinished)
    BY <1>2 DEF Cancel, Finish, In
  <2>2. QED
    BY <2>1, GivesUp DEF Unsuccessful
<1>3. CASE AttemptTimeout(j)
  <2>1. state[j] = "running" /\ FailAttempt(j, "timed_out") /\ "timed_out" \in Unsuccessful
    BY <1>3 DEF AttemptTimeout, Unsuccessful
  <2>2. QED
    BY <2>1, Fails
<1>4. CASE BackoffElapses(j) \/ RetryWake(j)
  BY <1>4 DEF BackoffElapses, RetryWake, table, LedgerStep, LedgerPhase
<1>5. QED
  BY <1>1, <1>2, <1>3, <1>4

(* Retention spares what an unsettled job depends on.                       *)
LEMMA PruneFollows ==
  ASSUME TableInv, NEW S \in SUBSET Job, Prune(S)
  PROVE  LedgerStep
<1>1. /\ state' = [j \in Job |-> IF j \in S THEN "absent" ELSE state[j]]
      /\ \A j \in S : state[j] \in Finished /\ j \notin Protected
  BY DEF Prune, In
<1>2. \A j \in S : PhaseOf(state[j]) \in {"done", "dead"} /\ PhaseOf(state'[j]) = "unknown"
  BY <1>1, Phases
<1>3. Ledger!Move(S, {"done", "dead"}, "unknown")
  BY <1>1, <1>2, Moves
<1>4. ASSUME NEW j \in Job, LedgerPhase[j] \in Ledger!Unsettled
      PROVE  Request[j].dependsOn \cap S = {}
  <2>1. state[j] \in Unfinished
    BY <1>4, PhasesBack DEF Ledger!Unsettled, LedgerPhase, Unfinished, TableInv, TypeOK, TableType
  <2>2. DependsOn(j) \subseteq Protected
    BY <2>1 DEF Protected, In
  <2>3. QED
    BY <1>1, <2>2 DEF DependsOn
<1>5. Ledger!Forget(S)
  BY <1>3, <1>4 DEF Ledger!Forget, Ledger!Holding
<1>6. QED
  BY <1>5 DEF LedgerStep, Ledger!LedgerNext

(* The table a backend boots with has nothing running, and no dependency    *)
(* of an unfinished job is missing in it.                                   *)
LEMMA RestartRecovers ==
  ASSUME TableInv, TableInv', DependenciesHeld', Restart
  PROVE  LedgerStep
<1>1. state' \in [Job -> JobState] /\ \A j \in Job : state'[j] # "running"
  BY DEF Restart, Boot, RestoredState, TableInv, TypeOK, TableType
<1>2. LedgerPhase' = [j \in Job |-> PhaseOf(state'[j])]
  BY DEF LedgerPhase
<1>3. LedgerPhase' \in [Job -> Ledger!Phase \ {"active"}]
  BY <1>1, <1>2, PhasesBack DEF Ledger!Phase
<1>4. ASSUME NEW j \in Ledger!Holding(LedgerPhase', {"pending"}), NEW i \in Request[j].dependsOn
      PROVE  LedgerPhase'[i] # "unknown"
  <2>1. j \in Job /\ state'[j] \in Unfinished
    BY <1>1, <1>2, <1>4, PhasesBack DEF Ledger!Holding, Unfinished
  <2>2. i \in Job /\ state'[i] # "absent"
    BY <2>1, JobAssumption DEF DependenciesHeld, In, Present, DependsOn
  <2>3. QED
    BY <1>1, <1>2, <2>2, PhasesBack
<1>5. Ledger!Recover
  BY <1>3, <1>4 DEF Ledger!Recover
<1>6. QED
  BY <1>5 DEF LedgerStep, Ledger!LedgerNext

LEMMA EveryStepFollows ==
  ASSUME TableInv, TableInv', DependenciesHeld, DependenciesHeld', WithinLimits',
         LeaseExclusive', [Next]_vars
  PROVE  LedgerStep
<1>1. ASSUME NEW g \in Graph, CreateGraph(g) PROVE LedgerStep
  <2>1. /\ NodesOf(g) \in SUBSET Job /\ \A j \in NodesOf(g) : born[j] = 0
        /\ state' = [j \in Job |-> IF j \in NodesOf(g) THEN InitialState(j) ELSE state[j]]
    BY <1>1, GraphAssumption DEF CreateGraph, NodesOf
  <2>2. QED
    BY <2>1, Submits
<1>2. CASE Shutdown
  <2>1. /\ state' = [j \in Job |-> IF j \in Running THEN "interrupted" ELSE state[j]]
        /\ Running \in SUBSET In(Unfinished)
    BY <1>2 DEF Shutdown, Running, In, Unfinished
  <2>2. QED
    BY <2>1, GivesUp DEF Unsuccessful
<1>3. CASE WriteSnapshot \/ UNCHANGED vars
  BY <1>3 DEF WriteSnapshot, vars, table, LedgerStep, LedgerPhase
<1>4. QED
  BY <1>1, <1>2, <1>3, DrainFollows, EventsFollow, RequestsFollow, PruneFollows,
     RestartRecovers DEF Next

(* The job runtime implements JobLedger: what it starts, retries, settles,  *)
(* forgets and restores is what the ledger allows, for every set of jobs.   *)
THEOREM RuntimeImplementsLedger == Spec => ImplementsLedger
<1>1. Init => Ledger!LedgerInit
  BY Phases DEF Init, Ledger!LedgerInit, LedgerPhase
<1>2. TableInv /\ TableInv' /\ DependenciesHeld /\ DependenciesHeld' /\ WithinLimits'
        /\ LeaseExclusive' /\ [Next]_vars => [Ledger!LedgerNext]_LedgerPhase
  BY EveryStepFollows DEF LedgerStep
<1>3. QED
  BY <1>1, <1>2, TableInvariant, DependenciesCorrect, BudgetsCorrect, LeaseCorrect, PTL
  DEF Spec, ImplementsLedger, Ledger!LedgerSpec

-----------------------------------------------------------------------------
(* Durability. Along the journal and on to the table an outcome stays or is *)
(* forgotten, what is forgotten stays so, and attempts are only added.      *)

Later(x, y) ==
  \A j \in Job :
    /\ x.attempt[j] <= y.attempt[j]
    /\ x.born[j] # 0 => y.born[j] # 0
    /\ x.state[j] \in Finished => y.state[j] \in {x.state[j], "absent"}
    /\ x.state[j] = "absent" /\ x.born[j] # 0 => y.state[j] = "absent"

Chain(log) == \A a, b \in DOMAIN log : a < b => Later(log[a], log[b])
Before(log, x) == \A a \in DOMAIN log : Later(log[a], x)

Current == Snapshot(state, attempt, born, graphs)

DurableInv == Chain(journal) /\ (restarts < MaxRestarts => Before(journal, Current))

LEMMA LaterTransitive ==
  ASSUME NEW x \in SoundSnapshots, NEW y \in SoundSnapshots, NEW z \in SoundSnapshots,
         Later(x, y), Later(y, z)
  PROVE  Later(x, z)
<1> SUFFICES ASSUME NEW j \in Job
             PROVE  /\ x.attempt[j] <= z.attempt[j]
                    /\ x.born[j] # 0 => z.born[j] # 0
                    /\ x.state[j] \in Finished => z.state[j] \in {x.state[j], "absent"}
                    /\ x.state[j] = "absent" /\ x.born[j] # 0 => z.state[j] = "absent"
  BY DEF Later
<1>1. /\ x.attempt[j] \in Nat /\ y.attempt[j] \in Nat /\ z.attempt[j] \in Nat
      /\ x.attempt[j] <= y.attempt[j] /\ y.attempt[j] <= z.attempt[j]
  BY DEF SoundSnapshots, SnapshotType, Later
<1>2. x.born[j] # 0 => y.born[j] # 0 /\ z.born[j] # 0
  BY DEF Later
<1>3. x.state[j] \in Finished => x.born[j] # 0
  BY DEF SoundSnapshots, Sound, Finished, Succeeded, Unsuccessful
<1>4. QED
  BY <1>1, <1>2, <1>3 DEF Later

LEMMA LaterReflexive ==
  ASSUME NEW x \in SoundSnapshots
  PROVE  Later(x, x)
BY DEF SoundSnapshots, SnapshotType, Later

LEMMA BeforeLater ==
  ASSUME NEW log \in Seq(SoundSnapshots), NEW x \in SoundSnapshots, NEW y \in SoundSnapshots,
         Before(log, x), Later(x, y)
  PROVE  Before(log, y)
<1>1. \A a \in DOMAIN log : log[a] \in SoundSnapshots
  BY ElementOfSeq
<1>2. QED
  BY <1>1, LaterTransitive DEF Before

LEMMA ChainGrows ==
  ASSUME NEW log \in Seq(SoundSnapshots), log # <<>>, NEW x \in SoundSnapshots,
         Chain(log), Before(log, x)
  PROVE  /\ Recorded(log, x) \in Seq(SoundSnapshots) /\ Recorded(log, x) # <<>>
         /\ Chain(Recorded(log, x)) /\ Before(Recorded(log, x), x)
<1> DEFINE more == Append(log, x)
<1>1. /\ Len(log) \in Nat /\ DOMAIN log = 1 .. Len(log)
      /\ DOMAIN more = 1 .. (Len(log) + 1)
      /\ \A a \in 1 .. Len(log) : more[a] = log[a]
      /\ more[Len(log) + 1] = x
  BY AppendProperties, LenProperties
<1> HIDE DEF more
<1>2. Chain(more)
  <2> SUFFICES ASSUME NEW a \in 1 .. (Len(log) + 1), NEW b \in 1 .. (Len(log) + 1), a < b
               PROVE  Later(more[a], more[b])
    BY <1>1 DEF Chain
  <2>1. a \in DOMAIN log /\ more[a] = log[a]
    BY <1>1
  <2>2. CASE b = Len(log) + 1
    BY <1>1, <2>1, <2>2 DEF Before
  <2>3. CASE b # Len(log) + 1
    <3>1. b \in DOMAIN log /\ more[b] = log[b]
      BY <1>1, <2>3
    <3>2. QED
      BY <2>1, <3>1 DEF Chain
  <2>4. QED
    BY <2>2, <2>3
<1>3. Before(more, x)
  <2> SUFFICES ASSUME NEW a \in 1 .. (Len(log) + 1) PROVE Later(more[a], x)
    BY <1>1 DEF Before
  <2>1. CASE a = Len(log) + 1
    BY <1>1, <2>1, LaterReflexive
  <2>2. CASE a # Len(log) + 1
    <3>1. a \in DOMAIN log /\ more[a] = log[a]
      BY <1>1, <2>2
    <3>2. QED
      BY <3>1 DEF Before
  <2>3. QED
    BY <2>1, <2>2
<1>4. Recorded(log, x) = log \/ Recorded(log, x) = more
  BY DEF Recorded, more
<1>5. QED
  BY <1>2, <1>3, <1>4, RecordedType

(* The disk advances to the next write, or that write is dropped.           *)
LEMMA ChainShrinks ==
  ASSUME TableInv, Chain(journal), WriteSnapshot
  PROVE  /\ Chain(journal')
         /\ \A x : Before(journal, x) => Before(journal', x)
         /\ Head(journal') = Head(journal) \/ Later(Head(journal), Head(journal'))
<1> DEFINE n == Len(journal)
<1>1. /\ journal \in Seq(SnapshotType) /\ n \in Nat /\ n > 1
      /\ DOMAIN journal = 1 .. n /\ journal # <<>> /\ Head(journal) = journal[1]
  BY HeadTailProperties, LenProperties DEF WriteSnapshot, TableInv, JournalSound, JournalType
<1>2. /\ Tail(journal) \in Seq(SnapshotType) /\ Len(Tail(journal)) = n - 1
      /\ \A i \in 1 .. (n - 1) : Tail(journal)[i] = journal[i + 1]
  BY <1>1, HeadTailProperties
<1>3. CASE journal' = Tail(journal)
  <2>1. /\ DOMAIN journal' = 1 .. (n - 1)
        /\ \A a \in DOMAIN journal' : a + 1 \in DOMAIN journal /\ journal'[a] = journal[a + 1]
    BY <1>1, <1>2, <1>3, LenProperties
  <2>2. Chain(journal')
    BY <1>1, <2>1 DEF Chain
  <2>3. \A x : Before(journal, x) => Before(journal', x)
    BY <2>1 DEF Before
  <2>4. Head(journal') = journal'[1] /\ 1 \in DOMAIN journal'
    BY <1>1, <1>2, <1>3, <2>1, HeadTailProperties
  <2>5. QED
    BY <1>1, <2>1, <2>2, <2>3, <2>4 DEF Chain
<1>4. CASE journal' = <<Head(journal)>> \o Tail(Tail(journal))
  <2>1. /\ Tail(Tail(journal)) \in Seq(SnapshotType) /\ Len(Tail(Tail(journal))) = n - 2
        /\ \A i \in 1 .. (n - 2) : Tail(Tail(journal))[i] = journal[i + 2]
    <3>1. Tail(journal) # <<>>
      BY <1>1, WriteKeeps
    <3>2. /\ Tail(Tail(journal)) \in Seq(SnapshotType)
          /\ Len(Tail(Tail(journal))) = (n - 1) - 1
          /\ \A i \in 1 .. ((n - 1) - 1) : Tail(Tail(journal))[i] = Tail(journal)[i + 1]
      BY <1>2, <3>1, HeadTailProperties
    <3>3. QED
      BY <1>1, <1>2, <3>2
  <2>2. /\ DOMAIN journal' = 1 .. (n - 1) /\ journal'[1] = journal[1]
        /\ \A a \in 2 .. (n - 1) : journal'[a] = journal[a + 1]
        /\ Head(journal') = Head(journal)
    BY <1>1, <1>4, <2>1
  <2>3. Chain(journal')
    <3> SUFFICES ASSUME NEW a \in 1 .. (n - 1), NEW b \in 1 .. (n - 1), a < b
                 PROVE  Later(journal'[a], journal'[b])
      BY <2>2 DEF Chain
    <3>1. b + 1 \in DOMAIN journal /\ journal'[b] = journal[b + 1]
      BY <1>1, <2>2
    <3>2. PICK c \in DOMAIN journal : c <= a + 1 /\ journal'[a] = journal[c]
      BY <1>1, <2>2
    <3>3. c < b + 1
      BY <1>1, <3>2
    <3>4. QED
      BY <3>1, <3>2, <3>3 DEF Chain
  <2>4. \A a \in DOMAIN journal' : \E c \in DOMAIN journal : journal'[a] = journal[c]
    BY <1>1, <2>2
  <2>5. QED
    BY <2>2, <2>3, <2>4 DEF Before
<1>5. QED
  BY <1>3, <1>4 DEF WriteSnapshot

-----------------------------------------------------------------------------
(* Every step but a restart takes the table to a later one.                 *)

LEMMA AttemptsGrow ==
  ASSUME TableInv, [Next]_vars, ~Restart
  PROVE  /\ restarts' = restarts
         /\ \A j \in Job : attempt[j] <= attempt'[j]
<1>0. attempt \in [Job -> Nat]
  BY DEF TableInv, TypeOK, TableType
<1>1. CASE restarts' = restarts /\ attempt' = attempt
  BY <1>0, <1>1
<1>2. ASSUME NEW j \in Job, DrainStart(j) \/ DrainStartFails(j)
      PROVE  /\ restarts' = restarts
             /\ attempt' = [attempt EXCEPT ![j] = attempt[j] + 1]
  BY <1>2 DEF DrainStart, DrainStartFails
<1>3. CASE \E j \in Job : DrainStart(j) \/ DrainStartFails(j)
  BY <1>0, <1>2, <1>3
<1>4. ASSUME NEW j, NEW how, FailAttempt(j, how) PROVE attempt' = attempt
  BY <1>4 DEF FailAttempt, Finish
<1>5. ASSUME NEW j \in Job, DrainRetry(j) \/ DrainDependencyFailed(j) \/ DrainReadiness(j)
      PROVE  restarts' = restarts /\ attempt' = attempt
  BY <1>5 DEF DrainRetry, DrainDependencyFailed, DrainReadiness, Finish
<1>6. ASSUME NEW j \in Job,
             Create(j) \/ Cancel(j) \/ AttemptTimeout(j) \/ BackoffElapses(j) \/ RetryWake(j)
      PROVE  restarts' = restarts /\ attempt' = attempt
  BY <1>4, <1>6 DEF Create, Cancel, Finish, AttemptTimeout, BackoffElapses, RetryWake, table
<1>7. ASSUME NEW j \in Job, NEW n \in Attempts, NEW ok \in BOOLEAN,
             \/ ChildError(j, n) \/ Escalate(j, n)
             \/ ProcessClose(j, n, ok) \/ FunctionSettles(j, n, ok)
      PROVE  restarts' = restarts /\ attempt' = attempt
  <2>1. Finish({j}, "succeeded") => attempt' = attempt
    BY DEF Finish
  <2>2. QED
    BY <1>4, <1>7, <2>1 DEF ChildError, Escalate, ProcessClose, FunctionSettles, table
<1>8. CASE DrainEnd \/ Shutdown \/ WriteSnapshot \/ UNCHANGED vars
  BY <1>1, <1>8 DEF DrainEnd, Shutdown, WriteSnapshot, vars, table
<1>9. CASE (\E g \in Graph : CreateGraph(g)) \/ (\E S \in SUBSET Job : Prune(S))
  BY <1>1, <1>9 DEF CreateGraph, Prune
<1>10. QED
  BY <1>1, <1>3, <1>5, <1>6, <1>7, <1>8, <1>9 DEF Next, DrainStep, ProcessEvent

LEMMA BirthsStay ==
  ASSUME TableInv, [Next]_vars, ~Restart
  PROVE  \A j \in Job : born[j] # 0 => /\ born'[j] = born[j]
                                       /\ state[j] = "absent" => state'[j] = "absent"
<1>0. born \in [Job -> Nat] /\ state \in [Job -> JobState]
  BY DEF TableInv, TypeOK, TableType
<1>1. ASSUME NEW j \in Job, Create(j)
      PROVE  \A i \in Job : born[i] # 0 => born'[i] = born[i] /\ state'[i] = state[i]
  BY <1>0, <1>1 DEF Create
<1>2. ASSUME NEW g \in Graph, CreateGraph(g)
      PROVE  \A i \in Job : born[i] # 0 => born'[i] = born[i] /\ state'[i] = state[i]
  BY <1>0, <1>2 DEF CreateGraph
<1>3. ASSUME NEW S \in SUBSET Job, Prune(S)
      PROVE  \A i \in Job : state[i] = "absent" => state'[i] = "absent"
  BY <1>0, <1>3 DEF Prune
<1>4. CASE \E S \in SUBSET Job : Prune(S)
  BY <1>3, <1>4, PositionsStay
<1>5. CASE \/ DrainStep \/ ProcessEvent \/ Shutdown \/ WriteSnapshot \/ UNCHANGED vars
           \/ \E j \in Job : Cancel(j) \/ AttemptTimeout(j) \/ BackoffElapses(j) \/ RetryWake(j)
  <2>1. born' = born
    BY <1>5, PositionsStay
  <2>2. PresenceKept
    BY <1>5, DrainKeepsPresence, EventKeepsPresence, OthersKeepPresence
  <2>3. QED
    BY <2>1, <2>2 DEF PresenceKept
<1>6. QED
  BY <1>1, <1>2, <1>4, <1>5 DEF Next

LEMMA TableMovesOn ==
  ASSUME TableInv, [Next]_vars, ~Restart
  PROVE  Later(Current, Current')
<1>1. /\ Current.attempt = attempt /\ Current.born = born /\ Current.state = state
      /\ Current'.attempt = attempt' /\ Current'.born = born' /\ Current'.state = state'
  BY DEF Current, Snapshot
<1>2. \A j \in Job : state[j] \in Finished => state'[j] \in {state[j], "absent"}
  BY AttemptsGrow, SettledStep DEF Settled, In
<1>3. \A j \in Job : /\ attempt[j] <= attempt'[j]
                     /\ born[j] # 0 => born'[j] # 0
                     /\ state[j] = "absent" /\ born[j] # 0 => state'[j] = "absent"
  <2>1. \A j \in Job : attempt[j] <= attempt'[j]
    BY AttemptsGrow
  <2>2. \A j \in Job : born[j] # 0 => /\ born'[j] = born[j]
                                      /\ state[j] = "absent" => state'[j] = "absent"
    BY BirthsStay
  <2>3. QED
    BY <2>1, <2>2
<1>4. QED
  BY <1>1, <1>2, <1>3 DEF Later

LEMMA CurrentSound == TableInv => Current \in SoundSnapshots
BY SnapshotSound DEF TableInv, TypeOK, TableType, SoundNow, Current

(* What is announced before a start that fails lies between the two tables. *)
LEMMA AnnouncedBetween ==
  ASSUME TableInv, TableInv', NEW j \in Job, DrainStartFails(j)
  PROVE  LET started == Snapshot([state EXCEPT ![j] = "running"], attempt', born, graphs)
         IN  /\ started \in SoundSnapshots
             /\ Later(Current, started) /\ Later(started, Current')
<1> DEFINE now == [state EXCEPT ![j] = "running"]
           started == Snapshot(now, attempt', born, graphs)
<1>1. /\ state \in [Job -> JobState] /\ attempt \in [Job -> Nat] /\ born \in [Job -> Nat]
      /\ graphs \in SUBSET Graph /\ attempt' \in [Job -> Nat]
      /\ state[j] = "queued" /\ attempt' = [attempt EXCEPT ![j] = attempt[j] + 1]
      /\ born' = born
      /\ \E s \in {"retry_wait", "failed"} : state' = [state EXCEPT ![j] = s]
  BY DEF DrainStartFails, Candidate, TableInv, TypeOK, TableType
<1>2. now \in [Job -> JobState]
  BY <1>1 DEF JobState, Unfinished
<1>3. Sound(now, attempt', born)
  <2>1. Sound(state, attempt, born)
    BY DEF TableInv, SoundNow
  <2>2. attempt[j] < MaxAttempts(j) /\ MaxAttempts(j) \in Nat
    BY <1>1, <2>1, AttemptsBounded DEF Sound, Resumable
  <2>3. QED
    BY <1>1, <2>1, <2>2 DEF Sound, Resumable
<1>4. started \in SoundSnapshots
  BY <1>1, <1>2, <1>3, SnapshotSound
<1>5. /\ Current.attempt = attempt /\ Current.born = born /\ Current.state = state
      /\ Current'.attempt = attempt' /\ Current'.born = born' /\ Current'.state = state'
      /\ started.attempt = attempt' /\ started.born = born /\ started.state = now
  BY DEF Current, Snapshot
<1>6. \A i \in Job : attempt[i] <= attempt'[i]
  BY <1>1
<1>7. "queued" \notin Finished /\ "running" \notin Finished
  BY DEF Finished, Succeeded, Unsuccessful
<1> HIDE DEF started
<1>8. Later(Current, started)
  BY <1>1, <1>5, <1>6, <1>7 DEF Later
<1>9. Later(started, Current')
  BY <1>1, <1>5, <1>7 DEF Later
<1>10. QED
  BY <1>4, <1>8, <1>9 DEF started

LEMMA DurableStep == TableInv /\ DurableInv /\ [Next]_vars => DurableInv'
<1> SUFFICES ASSUME TableInv, DurableInv, [Next]_vars PROVE DurableInv'
  OBVIOUS
<1>0. /\ journal \in Seq(SoundSnapshots) /\ journal # <<>> /\ Chain(journal)
      /\ Current \in SoundSnapshots
  BY CurrentSound DEF TableInv, JournalSound, JournalType, DurableInv
<1>1. TableInv'
  BY NextTable
<1>2. Current' \in SoundSnapshots
  <2>1. Sound(state', attempt', born')
    BY <1>1 DEF TableInv, SoundNow
  <2>2. QED
    BY <1>1, <2>1, SnapshotSound DEF TableInv, TypeOK, TableType, Current
<1>3. CASE Restart
  <2>1. Head(journal) \in SoundSnapshots /\ journal' = <<Head(journal)>>
    BY <1>3, BootsFromDisk
  <2> DEFINE disk == Head(journal)
  <2>2. PICK booted \in SoundSnapshots :
          /\ Boot(booted)
          /\ booted.state = disk.state \/ booted.state = [j \in Job |-> "absent"]
          /\ booted.attempt = disk.attempt /\ booted.born = disk.born
    BY <1>3, BootsFromDisk
  <2> HIDE DEF disk
  <2>3. Later(disk, Current')
    <3>1. disk \in SoundSnapshots /\ "running" \notin Finished
      BY <2>1 DEF disk, Finished, Succeeded, Unsuccessful
    <3>2. /\ Current'.attempt = disk.attempt /\ Current'.born = disk.born
          /\ Current'.state = RestoredState(booted.state)
      BY <2>2 DEF Current, Snapshot, Boot
    <3>3. QED
      BY <2>2, <3>1, <3>2 DEF Later, RestoredState, SoundSnapshots, SnapshotType
  <2>4. journal' = <<disk>>
    BY <2>1 DEF disk
  <2>5. DOMAIN journal' = {1} /\ journal'[1] = disk
    BY <2>4
  <2>6. QED
    BY <2>3, <2>5 DEF DurableInv, Chain, Before
<1>4. CASE ~Restart
  <2>1. Later(Current, Current') /\ restarts' = restarts
    BY <1>4, TableMovesOn, AttemptsGrow
  <2>2. restarts < MaxRestarts => Before(journal, Current')
    BY <1>0, <1>2, <2>1, BeforeLater DEF DurableInv
  <2>3. CASE WriteSnapshot
    BY <1>0, <2>1, <2>2, <2>3, ChainShrinks DEF DurableInv
  <2>4. CASE UNCHANGED journal
    BY <1>0, <2>1, <2>2, <2>4 DEF DurableInv
  <2>5. restarts = MaxRestarts \/ restarts < MaxRestarts
    BY LimitAssumption DEF TableInv, TypeOK, LoopType
  <2>6. ASSUME restarts = MaxRestarts, Persist \/ \E j \in Job : DrainStartFails(j)
        PROVE  DurableInv'
    <3>1. UNCHANGED journal
      BY <2>6 DEF Persist, Recorded, DrainStartFails
    <3>2. QED
      BY <2>4, <3>1
  <2>7. ASSUME restarts < MaxRestarts, Persist PROVE DurableInv'
    <3>1. journal' = Recorded(journal, Current')
      BY <2>7 DEF Persist, Current
    <3>2. QED
      BY <1>0, <1>2, <2>2, <2>7, <3>1, ChainGrows DEF DurableInv
  <2>8. ASSUME restarts < MaxRestarts, NEW j \in Job, DrainStartFails(j) PROVE DurableInv'
    <3> DEFINE started == Snapshot([state EXCEPT ![j] = "running"], attempt', born, graphs)
    <3>1. journal' = Recorded(Recorded(journal, started), Current')
      BY <2>8 DEF DrainStartFails, Current
    <3>2. started \in SoundSnapshots /\ Later(Current, started) /\ Later(started, Current')
      BY <1>1, <2>8, AnnouncedBetween
    <3> HIDE DEF started
    <3> DEFINE announced == Recorded(journal, started)
    <3>3. /\ announced \in Seq(SoundSnapshots) /\ announced # <<>>
          /\ Chain(announced) /\ Before(announced, started)
      BY <1>0, <2>8, <3>2, BeforeLater, ChainGrows DEF DurableInv
    <3>4. Before(announced, Current')
      BY <1>2, <3>2, <3>3, BeforeLater
    <3> HIDE DEF announced
    <3>5. Chain(Recorded(announced, Current')) /\ Before(Recorded(announced, Current'), Current')
      BY <1>2, <3>3, <3>4, ChainGrows
    <3>6. QED
      BY <3>1, <3>5 DEF DurableInv, announced
  <2>9. QED
    BY <1>4, <2>3, <2>4, <2>5, <2>6, <2>7, <2>8, JournalCases
<1>5. QED
  BY <1>3, <1>4

(* What the disk holds moves on with every write and never back.            *)
LEMMA DiskMovesOn ==
  ASSUME TableInv, DurableInv, [Next]_vars, NEW j \in Job
  PROVE  /\ Head(journal).state[j] \in Finished =>
              /\ Head(journal').state[j] \in {Head(journal).state[j], "absent"}
              /\ restarts' # restarts =>
                   state'[j] = Head(journal).state[j] \/ (Present' = {} /\ ~persistAfter')
         /\ Head(journal).attempt[j] <= Head(journal').attempt[j]
<1>0. /\ journal \in Seq(SoundSnapshots) /\ journal # <<>> /\ Chain(journal)
      /\ Head(journal) \in SoundSnapshots
  BY HeadTailProperties DEF TableInv, JournalSound, JournalType, DurableInv
<1>1. Head(journal') = Head(journal) \/ Later(Head(journal), Head(journal'))
  <2>1. CASE WriteSnapshot
    BY <1>0, <2>1, ChainShrinks
  <2>2. CASE Restart
    BY <2>2 DEF Restart
  <2>3. \A x \in SoundSnapshots : /\ Recorded(journal, x) \in Seq(SoundSnapshots)
                                  /\ Recorded(journal, x) # <<>>
    BY <1>0, RecordedType
  <2>4. ASSUME NEW log \in Seq(SoundSnapshots), log # <<>>, NEW x
        PROVE  Head(Recorded(log, x)) = Head(log)
    <3>1. Len(log) \in Nat /\ Len(log) > 0
      BY <2>4
    <3>2. Head(Append(log, x)) = Head(log)
      BY <2>4, <3>1
    <3>3. QED
      BY <3>2 DEF Recorded
  <2>5. CASE Persist
    BY <1>0, <2>4, <2>5 DEF Persist
  <2>6. ASSUME NEW i \in Job, DrainStartFails(i) PROVE Head(journal') = Head(journal)
    <3> DEFINE started == Snapshot([state EXCEPT ![i] = "running"], attempt', born, graphs)
    <3>1. started \in SoundSnapshots
      BY <2>6, NextTable, AnnouncedBetween
    <3>2. \E x : journal' = Recorded(Recorded(journal, started), x)
      BY <2>6 DEF DrainStartFails
    <3> HIDE DEF started
    <3>3. QED
      BY <1>0, <2>3, <2>4, <3>1, <3>2
  <2>7. QED
    BY <2>1, <2>2, <2>5, <2>6, JournalCases
<1>2. Head(journal).state[j] \in Finished /\ restarts' # restarts =>
        state'[j] = Head(journal).state[j] \/ (Present' = {} /\ ~persistAfter')
  <2> DEFINE disk == Head(journal)
             unread == Unread(disk)
  <2> SUFFICES ASSUME disk.state[j] \in Finished, restarts' # restarts
               PROVE  state'[j] = disk.state[j] \/ (Present' = {} /\ ~persistAfter')
    OBVIOUS
  <2>1. PICK booted \in {disk, unread} : Boot(booted)
    BY AttemptsGrow DEF Restart
  <2>2. disk.state[j] # "running"
    BY DEF Finished, Succeeded, Unsuccessful
  <2>3. state' = RestoredState(booted.state) /\ persistAfter' = (booted = disk)
    BY <2>1 DEF Boot
  <2>4. unread.state = [i \in Job |-> "absent"]
    BY DEF Unread, Snapshot
  <2> HIDE DEF disk, unread
  <2>5. CASE booted = disk
    BY <2>2, <2>3, <2>5 DEF RestoredState
  <2>6. CASE booted # disk
    <3>1. booted.state = [i \in Job |-> "absent"] /\ ~persistAfter'
      BY <2>1, <2>3, <2>4, <2>6
    <3>2. \A i \in Job : state'[i] = "absent"
      BY <2>3, <3>1 DEF RestoredState
    <3>3. QED
      BY <3>1, <3>2 DEF Present
  <2>7. QED
    BY <2>5, <2>6
<1>3. QED
  BY <1>0, <1>1, <1>2, LaterReflexive DEF Later

(* An outcome that has reached the disk is never taken back, by a later     *)
(* write, a failed one or a restart that can read it (persist,              *)
(* restorePersistedIndex); one that cannot starts with no job and leaves    *)
(* the disk as it is (initExtracted).                                       *)
THEOREM OutcomesAreDurable == Spec => DurableOutcome
<1>1. Init => DurableInv
  <2> SUFFICES ASSUME Init PROVE DurableInv
    OBVIOUS
  <2>1. journal = <<Current>> /\ Current \in SoundSnapshots
    BY InitTable, CurrentSound DEF Init, Current
  <2> HIDE DEF Current
  <2>2. DOMAIN journal = {1} /\ journal[1] = Current
    BY <2>1
  <2>3. QED
    BY <2>1, <2>2, LaterReflexive DEF DurableInv, Chain, Before
<1>2. TableInv /\ DurableInv /\ [Next]_vars
        => [\A j \in Job :
              /\ Head(journal).state[j] \in Finished =>
                   /\ Head(journal').state[j] \in {Head(journal).state[j], "absent"}
                   /\ restarts' # restarts =>
                        state'[j] = Head(journal).state[j] \/ (Present' = {} /\ ~persistAfter')
              /\ Head(journal).attempt[j] <= Head(journal').attempt[j]]_vars
  BY DiskMovesOn
<1>3. QED
  BY <1>1, <1>2, DurableStep, TableInvariant, PTL DEF Spec, DurableOutcome
=============================================================================
