----------------------------- MODULE JobRuntime -----------------------------
(***************************************************************************)
(* QaapJobRuntime: the durable scheduler of command and function jobs      *)
(* (packages/qaap-cloud-workspace/src/node/qaap-job-runtime*.ts).          *)
(*                                                                         *)
(* The runtime is one JavaScript object: every request, timer and process  *)
(* event runs to completion.  drainQueue, which most of them end in, is a  *)
(* loop over the job table; it is modelled one visit at a time, and no     *)
(* other handler is enabled while `draining' holds.  What does happen at   *)
(* any moment is what happens outside the event loop: time passes, the     *)
(* disk completes a write, the backend dies.                               *)
(***************************************************************************)
EXTENDS Naturals, FiniteSets, Sequences

CONSTANTS
  Job,            \* job ids (random UUIDs: an id is inserted at most once)
  NoJob,          \* no entry in the idempotency index
  Request,        \* Job -> the normalized request of that job
  Graph,          \* graph ids
  GraphRequest,   \* Graph -> [owner, key, nodes], nodes in request order
  NoKey,          \* a request without idempotency key
  MaxConcurrent,  \* QAAP_JOB_MAX_CONCURRENT
  MaxPerUser,     \* QAAP_JOB_MAX_CONCURRENT_PER_USER
  ResourceLimit,  \* resource class -> QAAP_JOB_LIMIT_<CLASS>
  MaxRetryAttempts, \* MAX_RETRY_ATTEMPTS
  MaxRestarts,    \* bound: backend restarts in a behaviour
  MaxLag          \* bound: index writes in flight when a handler starts

Owner(j)       == Request[j].owner
Cwd(j)         == Request[j].cwd
Access(j)      == Request[j].access
Class(j)       == Request[j].class
Kind(j)        == Request[j].kind
DependsOn(j)   == Request[j].dependsOn
MaxAttempts(j) == Request[j].maxAttempts      \* 1 without a retry policy
Key(j)         == Request[j].key
OwnerKey(j)    == <<Owner(j), Key(j)>>        \* ownerIdempotencyKey

Classes  == {Class(j) : j \in Job}
Keys     == {OwnerKey(j) : j \in Job}
NodesOf(g) == {GraphRequest[g].nodes[i] : i \in DOMAIN GraphRequest[g].nodes}
InGraph  == UNION {NodesOf(g) : g \in Graph}

ASSUME JobAssumption ==
  /\ IsFiniteSet(Job)
  /\ NoJob \notin Job
  /\ \A j \in Job :
       /\ Access(j) \in {"read", "write"}
       /\ Kind(j) \in {"command", "function"}
       /\ DependsOn(j) \subseteq Job
       /\ MaxAttempts(j) \in 1 .. MaxRetryAttempts

(* Node keys are unique, and each key gets a fresh id.                      *)
ASSUME GraphAssumption ==
  \A g \in Graph :
    LET nodes == GraphRequest[g].nodes
    IN  nodes \in Seq(Job) /\ \A i, h \in DOMAIN nodes : nodes[i] = nodes[h] => i = h

ASSUME LimitAssumption ==
  /\ MaxRetryAttempts \in Nat \ {0}
  /\ MaxConcurrent \in Nat \ {0}
  /\ MaxPerUser \in Nat \ {0}
  /\ \A c \in Classes : ResourceLimit[c] \in Nat \ {0}
  /\ MaxRestarts \in Nat
  /\ MaxLag \in Nat \ {0}

VARIABLES
  state,             \* jobs: "absent" or the job's QaapJobState
  attempt,           \* attempts started
  born,              \* insertion position in the jobs Map, 0: never inserted
  graphs,            \* graph records kept
  idempotencyIndex,  \* (owner, key) -> job
  due,               \* jobs whose nextAttemptAt has passed
  retryTimer,        \* retryTimers
  timeoutTimer,      \* timeoutTimers
  child,             \* what has become of each attempt's process or promise
  handle,            \* processes / abortControllers: attempt held, 0: none
  escalation,        \* pending SIGKILL timers, one per terminated attempt
  terminationTimer,  \* terminationTimers: attempt of the one recorded, 0: none
  draining, cursor,  \* drainQueue is running; jobs born up to cursor visited
  persistAfter,      \* the handler that drains persists when it returns
  stopping,          \* shutdown() was called
  journal,           \* snapshots: the index on disk, then the writes queued
  restarts

table  == <<state, attempt, born, graphs, idempotencyIndex>>
timers == <<due, retryTimer, timeoutTimer>>
procs  == <<child, handle, escalation, terminationTimer>>
loop   == <<draining, cursor, persistAfter>>
vars   == <<table, timers, procs, loop, stopping, journal, restarts>>

Succeeded    == {"succeeded"}
Unsuccessful == {"failed", "cancelled", "timed_out", "interrupted",
                 "dependency_failed"}
Finished     == Succeeded \cup Unsuccessful          \* isQaapJobFinished
Resumable    == {"waiting", "queued", "retry_wait"}
Unfinished   == Resumable \cup {"running"}
JobState     == Finished \cup Unfinished \cup {"absent"}
ChildState   == {"none", "run", "term", "kill", "dead"}
Attempts     == 1 .. MaxRetryAttempts

Present == {j \in Job : state[j] # "absent"}
In(S)   == {j \in Job : state[j] \in S}
Running == In({"running"})

-----------------------------------------------------------------------------
(* persist(): a synchronous snapshot, written later, in order.  Once the    *)
(* bound on restarts is spent nobody reads the disk again and snapshots are *)
(* no longer recorded.                                                      *)

Snapshot(s, a, b, g) == [state |-> s, attempt |-> a, born |-> b, graphs |-> g]

Recorded(log, snapshot) ==
  IF restarts = MaxRestarts \/ log[Len(log)] = snapshot
  THEN log ELSE Append(log, snapshot)

Persist == journal' = Recorded(journal, Snapshot(state', attempt', born', graphs'))

(* A handler that ends in drainQueue(), with or without a persist() after.  *)
Drain(thenPersist) ==
  /\ draining' = ~stopping
  /\ cursor' = 0
  /\ persistAfter' = (thenPersist /\ ~stopping)

(* Between handlers: the event loop takes the next request, timer or event. *)
AtRest == ~draining /\ Len(journal) <= MaxLag

-----------------------------------------------------------------------------
(* create and createGraph                                                   *)

NextBorn == Cardinality({j \in Job : born[j] # 0}) + 1

InitialState(j) == IF DependsOn(j) = {} THEN "queued" ELSE "waiting"

Indexed(j) ==
  /\ idempotencyIndex[OwnerKey(j)] # NoJob
  /\ state[idempotencyIndex[OwnerKey(j)]] # "absent"

Create(j) ==
  /\ AtRest /\ ~stopping
  /\ born[j] = 0 /\ j \notin InGraph
  /\ \A d \in DependsOn(j) : state[d] # "absent" /\ Owner(d) = Owner(j)
  /\ Key(j) # NoKey => ~Indexed(j)
  /\ state' = [state EXCEPT ![j] = InitialState(j)]
  /\ born' = [born EXCEPT ![j] = NextBorn]
  /\ idempotencyIndex' = IF Key(j) = NoKey THEN idempotencyIndex
                         ELSE [idempotencyIndex EXCEPT ![OwnerKey(j)] = j]
  /\ Drain(TRUE)
  /\ UNCHANGED <<attempt, graphs, timers, procs, stopping, journal, restarts>>

(* assertAcyclicGraph: every set of nodes has one that depends on no other. *)
Acyclic(S) == \A T \in SUBSET S \ {{}} : \E j \in T : DependsOn(j) \cap T = {}

Position(g, j) ==
  CHOOSE i \in DOMAIN GraphRequest[g].nodes : GraphRequest[g].nodes[i] = j

CreateGraph(g) ==
  /\ AtRest /\ ~stopping
  /\ NodesOf(g) # {} /\ Acyclic(NodesOf(g))
  /\ \A j \in NodesOf(g) :
       /\ born[j] = 0 /\ Owner(j) = GraphRequest[g].owner /\ Key(j) = NoKey
       /\ DependsOn(j) \subseteq NodesOf(g)
  /\ GraphRequest[g].key # NoKey =>
       ~\E h \in graphs : /\ GraphRequest[h].owner = GraphRequest[g].owner
                          /\ GraphRequest[h].key = GraphRequest[g].key
  /\ state' = [j \in Job |-> IF j \in NodesOf(g) THEN InitialState(j) ELSE state[j]]
  /\ born' = [j \in Job |-> IF j \in NodesOf(g) THEN NextBorn + Position(g, j) - 1
                                               ELSE born[j]]
  /\ graphs' = graphs \cup {g}
  /\ Drain(TRUE)
  /\ UNCHANGED <<attempt, idempotencyIndex, timers, procs, stopping, journal, restarts>>

-----------------------------------------------------------------------------
(* finishJob, handleAttemptFailure and terminateProcessTree: what the       *)
(* handlers are made of.                                                    *)

(* Mutant: an event is booked on whatever the job has become.               *)
SettlesAnyway(j) == state[j] # "absent"

(* Only the job's state says whether an event still matters to it.          *)
Settles(j) == state[j] = "running"

(* Mutant: the handle of the attempt that ended is kept.                    *)
ClearDeadlineOnly(S) ==
  /\ handle' = handle
  /\ timeoutTimer' = timeoutTimer \ S

ClearActiveAttempt(S) ==
  /\ handle' = [j \in Job |-> IF j \in S THEN 0 ELSE handle[j]]
  /\ timeoutTimer' = timeoutTimer \ S

(* finishJob; it does not drain.                                            *)
Finish(S, how) ==
  /\ ClearActiveAttempt(S)
  /\ state' = [j \in Job |-> IF j \in S THEN how ELSE state[j]]
  /\ retryTimer' = retryTimer \ S
  /\ due' = due \ S
  /\ UNCHANGED <<attempt, born, graphs, idempotencyIndex>>
  /\ Persist

(* Mutant: one attempt more than the policy grants.                         *)
RetryableOnceMore(j, n) == n <= MaxAttempts(j)

Retryable(j, n) == n < MaxAttempts(j)

(* handleAttemptFailure of a running job, up to its drain.                  *)
FailAttempt(j, how) ==
  IF Retryable(j, attempt[j])
  THEN /\ ClearActiveAttempt({j})
       /\ state' = [state EXCEPT ![j] = "retry_wait"]
       /\ retryTimer' = retryTimer \cup {j}
       /\ due' = due \ {j}
       /\ UNCHANGED <<attempt, born, graphs, idempotencyIndex>>
       /\ Persist
  ELSE Finish({j}, how)

(* Mutant: the handle is dropped and the process forgotten.                 *)
TerminateNothing(S) == UNCHANGED <<child, escalation, terminationTimer>>

(* Mutant: SIGTERM is sent and nothing follows it.                          *)
TerminateOnce(S) ==
  /\ child' = [j \in Job |-> IF j \in S /\ handle[j] # 0
                 THEN [child[j] EXCEPT ![handle[j]] = "term"] ELSE child[j]]
  /\ UNCHANGED <<escalation, terminationTimer>>

(* SIGTERM to the processes of S with an escalation to SIGKILL; a function  *)
(* only has its signal aborted.                                             *)
Terminate(S) ==
  LET held == {j \in S : handle[j] # 0}
      killed == {j \in held : Kind(j) = "command"}
  IN  /\ child' = [j \in Job |-> IF j \in held
                     THEN [child[j] EXCEPT ![handle[j]] =
                             IF @ = "run" THEN "term" ELSE @]
                     ELSE child[j]]
      /\ escalation' = escalation \cup {<<j, handle[j]>> : j \in killed}
      /\ terminationTimer' = [j \in Job |-> IF j \in killed THEN handle[j]
                                                           ELSE terminationTimer[j]]

-----------------------------------------------------------------------------
(* drainQueue                                                               *)

Scanned == {j \in In(Resumable) : born[j] > cursor}

(* j is the next job the loop over the Map visits.                          *)
Visit(j) ==
  /\ draining
  /\ j \in Scanned
  /\ \A i \in Scanned : born[j] <= born[i]
  /\ cursor' = born[j]
  /\ UNCHANGED <<draining, persistAfter>>

DependencyLost(j) == \E d \in DependsOn(j) : state[d] \in Unsuccessful \cup {"absent"}
DependenciesMet(j) == \A d \in DependsOn(j) : state[d] = "succeeded"

DrainRetry(j) ==
  /\ state[j] = "retry_wait"
  /\ Visit(j)
  /\ IF j \in due
     THEN /\ state' = [state EXCEPT ![j] = "queued"]
          /\ due' = due \ {j}
          /\ UNCHANGED retryTimer
     ELSE /\ retryTimer' = retryTimer \cup {j}
          /\ UNCHANGED <<state, due>>
  /\ UNCHANGED <<attempt, born, graphs, idempotencyIndex, timeoutTimer, procs,
                 stopping, journal, restarts>>

DrainDependencyFailed(j) ==
  /\ state[j] \in {"waiting", "queued"} /\ DependencyLost(j)
  /\ Visit(j)
  /\ Finish({j}, "dependency_failed")
  /\ UNCHANGED <<child, escalation, terminationTimer, stopping, restarts>>

DrainReadiness(j) ==
  /\ state[j] \in {"waiting", "queued"} /\ ~DependencyLost(j)
  /\ Visit(j)
  /\ state' = [state EXCEPT ![j] = IF DependenciesMet(j) THEN "queued" ELSE "waiting"]
  /\ UNCHANGED <<attempt, born, graphs, idempotencyIndex, timers, procs,
                 stopping, journal, restarts>>

(* Mutant: readers do not look at the queue.                                *)
NoEarlierWriter(j) == FALSE

EarlierQueuedWriter(j) ==
  \E i \in In({"queued"}) : Access(i) = "write" /\ Cwd(i) = Cwd(j) /\ born[i] < born[j]

Load(owner) == Cardinality({i \in Running : Owner(i) = owner})
LaneLoad(class) == Cardinality({i \in Running : Class(i) = class})

(* Mutant: an owner's share is full one job too late.                       *)
WithinBudgetPlusOne(j) ==
  /\ Cardinality(Running) < MaxConcurrent
  /\ Load(Owner(j)) <= MaxPerUser
  /\ LaneLoad(Class(j)) < ResourceLimit[Class(j)]

WithinBudget(j) ==
  /\ Cardinality(Running) < MaxConcurrent
  /\ Load(Owner(j)) < MaxPerUser
  /\ LaneLoad(Class(j)) < ResourceLimit[Class(j)]

(* Mutant: a reader only waits for writers in the queue, not for running ones.*)
LeaseFreeForReader(j) ==
  IF Access(j) = "read" THEN ~EarlierQueuedWriter(j)
  ELSE \A i \in Running : Cwd(i) # Cwd(j)

LeaseFree(j) ==
  IF Access(j) = "read"
  THEN /\ ~EarlierQueuedWriter(j)
       /\ \A i \in Running : Cwd(i) = Cwd(j) => Access(i) = "read"
  ELSE \A i \in Running : Cwd(i) # Cwd(j)

CanStart(j) == WithinBudget(j) /\ LeaseFree(j)

(* Owners with the lightest load first, then the oldest job.                *)
Preferred(j, i) ==
  \/ Load(Owner(j)) < Load(Owner(i))
  \/ Load(Owner(j)) = Load(Owner(i)) /\ born[j] <= born[i]

Candidate(j) ==
  /\ draining /\ Scanned = {}
  /\ state[j] = "queued" /\ CanStart(j)
  /\ \A i \in In({"queued"}) : CanStart(i) => Preferred(j, i)

(* runJob: a child is spawned, or a function is called later.               *)
Launch(j, n) ==
  /\ child' = [child EXCEPT ![j][n] = "run"]
  /\ handle' = [handle EXCEPT ![j] = n]
  /\ timeoutTimer' = timeoutTimer \cup {j}

DrainStart(j) ==
  LET n == attempt[j] + 1
  IN  /\ Candidate(j)
      /\ state' = [state EXCEPT ![j] = "running"]
      /\ attempt' = [attempt EXCEPT ![j] = n]
      /\ Launch(j, n)
      /\ cursor' = 0
      /\ UNCHANGED <<born, graphs, idempotencyIndex, due, retryTimer, escalation,
                     terminationTimer, draining, persistAfter, stopping, restarts>>
      /\ Persist

(* spawnPrepared throws, or the function is not registered: the attempt     *)
(* fails inside the drain, whose nested drainQueue() returns at once.       *)
DrainStartFails(j) ==
  LET n == attempt[j] + 1
      retry == Retryable(j, n)
      started == Snapshot([state EXCEPT ![j] = "running"], attempt', born, graphs)
  IN  /\ Candidate(j)
      /\ attempt' = [attempt EXCEPT ![j] = n]
      /\ state' = [state EXCEPT ![j] = IF retry THEN "retry_wait" ELSE "failed"]
      /\ retryTimer' = IF retry THEN retryTimer \cup {j} ELSE retryTimer \ {j}
      /\ cursor' = 0
      /\ journal' = Recorded(Recorded(journal, started),
                             Snapshot(state', attempt', born, graphs))
      /\ UNCHANGED <<born, graphs, idempotencyIndex, due, timeoutTimer, procs,
                     draining, persistAfter, stopping, restarts>>

DrainEnd ==
  /\ draining /\ Scanned = {}
  /\ ~\E j \in In({"queued"}) : CanStart(j)
  /\ draining' = FALSE /\ cursor' = 0 /\ persistAfter' = FALSE
  /\ UNCHANGED <<table, timers, procs, stopping, restarts>>
  /\ IF persistAfter THEN Persist ELSE UNCHANGED journal

DrainStep ==
  \/ \E j \in Job : \/ DrainRetry(j) \/ DrainDependencyFailed(j) \/ DrainReadiness(j)
                    \/ DrainStart(j) \/ DrainStartFails(j)
  \/ DrainEnd

-----------------------------------------------------------------------------
(* Process and promise events.  They name the job, not the attempt.         *)

(* child.once('error'): the child never ran; its 'close' still follows.     *)
ChildError(j, n) ==
  /\ AtRest
  /\ Kind(j) = "command" /\ child[j][n] = "run"
  /\ child' = [child EXCEPT ![j][n] = "dead"]
  /\ IF Settles(j)
     THEN FailAttempt(j, "failed") /\ Drain(FALSE)
     ELSE UNCHANGED <<table, timers, handle, journal, loop>>
  /\ UNCHANGED <<escalation, terminationTimer, stopping, restarts>>

(* child.once('close'); a child that never ran or was killed exits non-zero.*)
ProcessClose(j, n, zero) ==
  /\ AtRest
  /\ Kind(j) = "command"
  /\ child[j][n] # "none" /\ (zero => child[j][n] \in {"run", "term"})
  /\ child' = [child EXCEPT ![j][n] = "none"]
  /\ escalation' = escalation \ {<<j, terminationTimer[j]>>}
  /\ terminationTimer' = [terminationTimer EXCEPT ![j] = 0]
  /\ \/ /\ ~Settles(j)
        /\ handle' = [handle EXCEPT ![j] = 0]
        /\ UNCHANGED <<table, timers, journal, loop>>
     \/ Settles(j) /\ zero /\ Finish({j}, "succeeded") /\ Drain(FALSE)
     \/ Settles(j) /\ ~zero /\ FailAttempt(j, "failed") /\ Drain(FALSE)
  /\ UNCHANGED <<stopping, restarts>>

(* The function's promise resolves or rejects.                              *)
FunctionSettles(j, n, ok) ==
  /\ AtRest
  /\ Kind(j) = "function" /\ child[j][n] # "none"
  /\ child' = [child EXCEPT ![j][n] = "none"]
  /\ \/ ~Settles(j) /\ UNCHANGED <<table, timers, handle, journal, loop>>
     \/ Settles(j) /\ ok /\ Finish({j}, "succeeded") /\ Drain(FALSE)
     \/ Settles(j) /\ ~ok /\ FailAttempt(j, "failed") /\ Drain(FALSE)
  /\ UNCHANGED <<escalation, terminationTimer, stopping, restarts>>

AttemptTimeout(j) ==
  /\ AtRest
  /\ j \in timeoutTimer /\ state[j] = "running"
  /\ Terminate({j})
  /\ FailAttempt(j, "timed_out")
  /\ Drain(FALSE)
  /\ UNCHANGED <<stopping, restarts>>

(* The escalation timer fires.                                              *)
Escalate(j, n) ==
  /\ AtRest
  /\ <<j, n>> \in escalation
  /\ escalation' = escalation \ {<<j, n>>}
  /\ child' = [child EXCEPT ![j][n] = IF @ = "term" THEN "kill" ELSE @]
  /\ UNCHANGED <<table, timers, handle, terminationTimer, loop, stopping,
                 journal, restarts>>

BackoffElapses(j) ==
  /\ state[j] = "retry_wait" /\ j \notin due
  /\ due' = due \cup {j}
  /\ UNCHANGED <<table, retryTimer, timeoutTimer, procs, loop, stopping,
                 journal, restarts>>

(* Mutant: the timer does not look at the queue.                            *)
RetryWakeIdle(j) ==
  /\ AtRest
  /\ j \in retryTimer
  /\ retryTimer' = retryTimer \ {j}
  /\ UNCHANGED <<table, due, timeoutTimer, procs, loop, stopping, journal, restarts>>

(* scheduleRetryWake's timer; an old one may fire before the new deadline.  *)
RetryWake(j) ==
  /\ AtRest
  /\ j \in retryTimer
  /\ retryTimer' = retryTimer \ {j}
  /\ IF state[j] = "retry_wait" THEN Drain(TRUE) ELSE UNCHANGED loop
  /\ UNCHANGED <<table, due, timeoutTimer, procs, stopping, journal, restarts>>

-----------------------------------------------------------------------------
(* cancel, shutdown, retention and restart                                  *)

(* Mutant: cancelling gives the slot back without draining the queue.       *)
CancelQuietly(j) ==
  /\ AtRest
  /\ state[j] \in Unfinished
  /\ Terminate({j})
  /\ Finish({j}, "cancelled")
  /\ UNCHANGED <<loop, stopping, restarts>>

Cancel(j) ==
  /\ AtRest
  /\ state[j] \in Unfinished
  /\ Terminate({j})
  /\ Finish({j}, "cancelled")
  /\ Drain(FALSE)
  /\ UNCHANGED <<stopping, restarts>>

(* The snapshots between the first and the last interrupted job restore to  *)
(* the same table as the last one, which is the only one recorded.          *)
Shutdown ==
  /\ AtRest /\ ~stopping
  /\ stopping' = TRUE
  /\ Terminate(Running)
  /\ state' = [j \in Job |-> IF j \in Running THEN "interrupted" ELSE state[j]]
  /\ ClearActiveAttempt(Running)
  /\ retryTimer' = {}
  /\ UNCHANGED <<attempt, born, graphs, idempotencyIndex, due, loop, restarts>>
  /\ Persist

(* Mutant: retention only spares the unfinished jobs themselves.            *)
ProtectedAlone == In(Unfinished)

(* collectProtectedJobIds                                                   *)
Protected == In(Unfinished) \cup UNION {DependsOn(j) : j \in In(Unfinished)}

(* pruneRetainedJobs; which of the prunable jobs are too old or too many is *)
(* left open.                                                               *)
Prune(S) ==
  /\ AtRest /\ ~stopping
  /\ S # {} /\ S \subseteq In(Finished) \ Protected
  /\ state' = [j \in Job |-> IF j \in S THEN "absent" ELSE state[j]]
  /\ idempotencyIndex' = [k \in Keys |->
       IF \E j \in S : Key(j) # NoKey /\ OwnerKey(j) = k THEN NoJob
       ELSE idempotencyIndex[k]]
  /\ graphs' = {g \in graphs : \E j \in NodesOf(g) : state'[j] # "absent"}
  /\ UNCHANGED <<attempt, born, timers, procs, loop, stopping, restarts>>
  /\ Persist

(* Mutant: writes are not chained, the newest may land first.               *)
WriteUnordered ==
  /\ Len(journal) > 1
  /\ \/ journal' = Tail(journal)
     \/ journal' = <<journal[Len(journal)]>> \o SubSeq(journal, 2, Len(journal) - 1)
  /\ UNCHANGED <<table, timers, procs, loop, stopping, restarts>>

(* The oldest write queued reaches the disk, or fails and is dropped.       *)
WriteSnapshot ==
  /\ Len(journal) > 1
  /\ \/ journal' = Tail(journal)
     \/ journal' = <<Head(journal)>> \o Tail(Tail(journal))
  /\ UNCHANGED <<table, timers, procs, loop, stopping, restarts>>

(* Mutant: a job that was running is taken for one that still is.           *)
RestoredVerbatim(s) == s

(* restorePersistedIndex: what was running cannot be reattached.            *)
RestoredState(s) ==
  [j \in Job |-> IF s[j] = "running" THEN "interrupted" ELSE s[j]]

(* Mutant: the index starts empty.                                          *)
ForgottenIndex(s, b) == [k \in Keys |-> NoJob]

(* It rebuilds the idempotency index in table order.                        *)
RestoredIndex(s, b) ==
  [k \in Keys |->
     LET named == {j \in Job : s[j] # "absent" /\ Key(j) # NoKey /\ OwnerKey(j) = k}
     IN  IF named = {} THEN NoJob
         ELSE CHOOSE j \in named : \A i \in named : b[i] <= b[j]]

(* An index that is there but cannot be read: the table starts empty. Ids    *)
(* are not given twice, nor the attempts of a job.                           *)
Unread(disk) == Snapshot([j \in Job |-> "absent"], disk.attempt, disk.born, {})

(* initExtracted. What could not be read is not written over by starting.   *)
Boot(booted) ==
  LET restored == RestoredState(booted.state)
  IN  /\ state' = restored
      /\ attempt' = booted.attempt
      /\ born' = booted.born
      /\ graphs' = booted.graphs
      /\ idempotencyIndex' = RestoredIndex(restored, booted.born)
      /\ retryTimer' = {j \in Job : restored[j] = "retry_wait"}
      /\ draining' = TRUE /\ cursor' = 0
      /\ persistAfter' = (booted = Head(journal))

(* The backend stops, gracefully or not, and boots from the index on disk.  *)
(* The children it leaves behind are nobody's: they leave the model.        *)
Restart ==
  /\ restarts < MaxRestarts
  /\ restarts' = restarts + 1
  /\ \E booted \in {Head(journal), Unread(Head(journal))} : Boot(booted)
  /\ due' = {} /\ timeoutTimer' = {}
  /\ child' = [j \in Job |-> [n \in Attempts |-> "none"]]
  /\ handle' = [j \in Job |-> 0]
  /\ escalation' = {}
  /\ terminationTimer' = [j \in Job |-> 0]
  /\ stopping' = FALSE
  /\ journal' = <<Head(journal)>>

-----------------------------------------------------------------------------
Init ==
  /\ state = [j \in Job |-> "absent"]
  /\ attempt = [j \in Job |-> 0]
  /\ born = [j \in Job |-> 0]
  /\ graphs = {}
  /\ idempotencyIndex = [k \in Keys |-> NoJob]
  /\ due = {} /\ retryTimer = {} /\ timeoutTimer = {}
  /\ child = [j \in Job |-> [n \in Attempts |-> "none"]]
  /\ handle = [j \in Job |-> 0]
  /\ escalation = {}
  /\ terminationTimer = [j \in Job |-> 0]
  /\ draining = FALSE /\ cursor = 0 /\ persistAfter = FALSE
  /\ stopping = FALSE
  /\ journal = <<Snapshot(state, attempt, born, graphs)>>
  /\ restarts = 0

ProcessEvent ==
  \E j \in Job : \E n \in Attempts :
    \/ ChildError(j, n)
    \/ Escalate(j, n)
    \/ \E ok \in BOOLEAN : ProcessClose(j, n, ok) \/ FunctionSettles(j, n, ok)

Next ==
  \/ \E j \in Job : \/ Create(j) \/ Cancel(j)
                    \/ AttemptTimeout(j) \/ BackoffElapses(j) \/ RetryWake(j)
  \/ \E g \in Graph : CreateGraph(g)
  \/ DrainStep
  \/ ProcessEvent
  \/ \E S \in SUBSET Job : Prune(S)
  \/ Shutdown
  \/ WriteSnapshot
  \/ Restart

Spec == Init /\ [][Next]_vars

(* What the runtime itself keeps going: its loop, its timers, its writes.   *)
(* Nothing is assumed of a command or a function, not even that it ends;    *)
(* only a process that was sent SIGKILL is sure to be reported closed.      *)
Fairness ==
  /\ WF_vars(DrainStep)
  /\ WF_vars(WriteSnapshot)
  /\ \A j \in Job :
       /\ WF_vars(AttemptTimeout(j)) /\ WF_vars(BackoffElapses(j)) /\ WF_vars(RetryWake(j))
       /\ \A n \in Attempts :
            /\ WF_vars(Escalate(j, n))
            /\ WF_vars(child[j][n] = "kill" /\ ProcessClose(j, n, FALSE))

FairSpec == Spec /\ Fairness

-----------------------------------------------------------------------------
(* Properties                                                               *)

SnapshotType ==
  [state : [Job -> JobState], attempt : [Job -> Nat], born : [Job -> Nat],
   graphs : SUBSET Graph]

TableType ==
  /\ state \in [Job -> JobState]
  /\ attempt \in [Job -> Nat]
  /\ born \in [Job -> Nat]
  /\ graphs \in SUBSET Graph
  /\ idempotencyIndex \in [Keys -> Job \cup {NoJob}]

TimersType ==
  /\ due \in SUBSET Job
  /\ retryTimer \in SUBSET Job
  /\ timeoutTimer \in SUBSET Job

ProcsType ==
  /\ child \in [Job -> [Attempts -> ChildState]]
  /\ handle \in [Job -> Attempts \cup {0}]
  /\ escalation \in SUBSET (Job \X Attempts)
  /\ terminationTimer \in [Job -> Attempts \cup {0}]

LoopType ==
  /\ draining \in BOOLEAN /\ cursor \in Nat /\ persistAfter \in BOOLEAN
  /\ stopping \in BOOLEAN
  /\ restarts \in 0 .. MaxRestarts

JournalType == journal \in Seq(SnapshotType) /\ journal # <<>>

(* The tables, maps and timers of the runtime hold what they are declared to *)
(* hold, and an attempt number never exceeds the retry policy's.             *)
TypeOK ==
  /\ TableType /\ TimersType /\ ProcsType /\ LoopType /\ JournalType
  /\ \A j \in Job : attempt[j] <= MaxAttempts(j)

(* Whatever finishes, fails, retries or restarts, the running jobs never     *)
(* exceed the global, the per-owner and the per-lane budget (canStart).      *)
WithinLimits ==
  /\ Cardinality(Running) <= MaxConcurrent
  /\ \A j \in Job : Load(Owner(j)) <= MaxPerUser
  /\ \A c \in Classes : LaneLoad(c) <= ResourceLimit[c]

(* Two jobs that run in the same workspace both only read it (canStart).     *)
LeaseExclusive ==
  \A i, j \in Running : i # j /\ Cwd(i) = Cwd(j) => Access(i) = "read"

(* A job past `waiting' has every dependency still in the table, succeeded:  *)
(* neither retention, nor a retry, nor a restart takes one away from it.     *)
DependenciesHeld ==
  /\ \A j \in In({"queued", "running", "retry_wait"}) :
       \A d \in DependsOn(j) : state[d] = "succeeded"
  /\ \A j \in In(Unfinished) : DependsOn(j) \subseteq Present

(* No lost wake-up: when the event loop is idle nothing that could start is  *)
(* left queued, nothing whose dependencies succeeded is left waiting, and    *)
(* every job in retry_wait has a timer armed that will look at it again.     *)
NothingForgotten ==
  ~draining /\ ~stopping =>
    /\ \A j \in In({"queued"}) : ~CanStart(j)
    /\ \A j \in In({"waiting"}) : ~DependenciesMet(j)
    /\ In({"retry_wait"}) \subseteq retryTimer

(* One live job per owner and idempotency key, and the index names it, also  *)
(* after a prune gave the key back or a restart rebuilt the index.           *)
IdempotentAdmission ==
  \A j \in Present : Key(j) # NoKey =>
    /\ idempotencyIndex[OwnerKey(j)] = j
    /\ \A i \in Present : OwnerKey(i) = OwnerKey(j) => i = j

(* A running job can be cancelled and will time out: its process or abort    *)
(* handle is the one of its current attempt and its deadline is armed; no    *)
(* other job holds a handle.                                                 *)
RunningIsControlled ==
  \A j \in Job :
    /\ state[j] = "running" =>
         /\ handle[j] = attempt[j] /\ j \in timeoutTimer
         /\ child[j][attempt[j]] = "run"
    /\ state[j] # "running" => handle[j] = 0 /\ j \notin timeoutTimer

(* An outcome or an attempt that has reached the disk is never taken back by *)
(* a later write, a failed write or a restart: queued snapshots reach the    *)
(* disk in order (persist). A backend that cannot read the index starts with *)
(* no job at all, and leaves the disk as it is (initExtracted).              *)
DurableOutcome ==
  [][\A j \in Job :
       /\ Head(journal).state[j] \in Finished =>
            /\ Head(journal').state[j] \in {Head(journal).state[j], "absent"}
            /\ restarts' # restarts =>
                 state'[j] = Head(journal).state[j] \/ (Present' = {} /\ ~persistAfter')
       /\ Head(journal).attempt[j] <= Head(journal').attempt[j]]_vars

(* No event, timer or request revives or re-labels a finished job; only a    *)
(* restart, which goes back to the index on disk, may.                       *)
OutcomeStable ==
  [][restarts' = restarts =>
       \A j \in In(Finished) : state'[j] \in {state[j], "absent"}]_vars

(* A queued writer is never overtaken by a reader of its workspace that was  *)
(* created after it (hasEarlierQueuedWriter, doc/qaap-job-runtime.md:255).   *)
WriterNotOvertaken ==
  [][\A w, r \in Job :
       /\ state[w] = "queued" /\ state'[w] = "queued" /\ Access(w) = "write"
       /\ Access(r) = "read" /\ Cwd(r) = Cwd(w) /\ born[w] < born[r]
       /\ state[r] # "running"
       => state'[r] # "running"]_vars

(* The process of a job without retry policy is one the runtime still holds  *)
(* or has told to stop: nothing runs that nobody can reach. With a retry it  *)
(* does not hold: see OutcomeOfLastAttempt.                                  *)
NoUnreachableProcess ==
  \A j \in Job : MaxAttempts(j) = 1 => \A n \in Attempts : child[j][n] = "run" => handle[j] = n

(* Every job ends, unless the runtime is shut down first: each attempt is    *)
(* bounded by its deadline and each end drains the queue. One drain passes a *)
(* failure on in the order of insertion only, so a graph must list its nodes *)
(* after what they depend on.                                                *)
EveryJobFinishes ==
  \A j \in Job : state[j] \in Unfinished ~> (state[j] \notin Unfinished \/ stopping)

(* A process told to stop is gone in the end, if need be by SIGKILL. With a  *)
(* retry policy the close of a later attempt clears the only SIGKILL timer   *)
(* the runtime remembers (terminateProcessTree), so only jobs without one    *)
(* are sure of it.                                                           *)
TerminatedProcessEnds ==
  \A j \in Job : \A n \in Attempts :
    MaxAttempts(j) = 1 /\ Kind(j) = "command" /\ child[j][n] = "term" ~> child[j][n] = "none"

(* doc/qaap-job-runtime.md, src/common/qaap-job.ts: what the prose says and  *)
(* the code does not keep.                                                   *)

(* "The command exited with code zero." / "The command failed to start or    *)
(* exited non-zero." (qaap-job.ts:42-45): the attempt the outcome is booked  *)
(* on is not running any more.                                               *)
OutcomeOfLastAttempt ==
  \A j \in In({"succeeded", "failed"}) :
    attempt[j] > 0 => child[j][attempt[j]] # "run"

(* "becomes dependency_failed if any of them ends unsuccessfully"            *)
(* (doc/qaap-job-runtime.md:253-255).                                        *)
DependentsFail ==
  \A j \in Job : \A d \in DependsOn(j) :
    state[j] = "waiting" /\ state[d] \in Unsuccessful
      ~> (state[j] \notin Unfinished \/ stopping)

-----------------------------------------------------------------------------
(* The runtime keeps the promise of the ledger.                             *)

PhaseOf(s) ==
  CASE s = "absent"    -> "unknown"
    [] s \in Resumable -> "pending"
    [] s = "running"   -> "active"
    [] s = "succeeded" -> "done"
    [] OTHER           -> "dead"

LedgerPhase == [j \in Job |-> PhaseOf(state[j])]

Ledger == INSTANCE JobLedger WITH phase <- LedgerPhase

(* Every step of the runtime is a step of the ledger or leaves it alone.     *)
ImplementsLedger == Ledger!LedgerSpec
=============================================================================
