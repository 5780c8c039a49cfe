--------------------------- MODULE JobRuntimeProofs ---------------------------
(***************************************************************************)
(* What holds of the job runtime for every set of jobs, every dependency   *)
(* graph, every budget and every bound.                                    *)
(***************************************************************************)
EXTENDS JobRuntime, FiniteSetTheorems, SequenceTheorems, TLAPS

(* A table in which no job has used up its attempts before it ends, and a   *)
(* job never inserted has no history.                                       *)
Sound(s, a, b) ==
  \A j \in Job :
    /\ a[j] <= MaxAttempts(j)
    /\ s[j] \in Resumable => a[j] < MaxAttempts(j)
    /\ b[j] = 0 => s[j] = "absent" /\ a[j] = 0

SoundSnapshots ==
  {x \in SnapshotType : Sound(x.state, x.attempt, x.born)}

(* The inductive invariant: the table and every snapshot of it that may be  *)
(* restored are sound.                                                      *)
SoundNow == Sound(state, attempt, born)
JournalSound == JournalType /\ journal \in Seq(SoundSnapshots)

TableInv == TypeOK /\ SoundNow /\ JournalSound

-----------------------------------------------------------------------------
(* Constants                                                                *)

LEMMA AttemptsBounded ==
  /\ MaxRetryAttempts \in Nat /\ MaxRetryAttempts > 0
  /\ \A j \in Job : MaxAttempts(j) \in Attempts
  /\ \A n \in Attempts : n \in Nat /\ n > 0
BY JobAssumption, LimitAssumption DEF Attempts

(* Among finitely many jobs one was inserted last: the sets of younger jobs *)
(* are finite, and one of them is minimal.                                  *)
LEMMA YoungestExists ==
  ASSUME NEW S \in SUBSET Job, S # {}, NEW b \in [Job -> Nat]
  PROVE  \E j \in S : \A i \in S : b[i] <= b[j]
<1> DEFINE Younger(j) == {i \in S : b[j] < b[i]}
           T == {Younger(j) : j \in S}
<1>1. IsFiniteSet(S)
  BY JobAssumption, FS_Subset
<1>2. T \subseteq FiniteSubsetsOf(S) /\ T # {}
  <2>1. FiniteSubsetsOf(S) = SUBSET S
    BY <1>1, FS_FiniteSubsetsOfFinite
  <2>2. T \subseteq SUBSET S
    OBVIOUS
  <2>3. T # {}
    <3>1. PICK j \in S : TRUE
      OBVIOUS
    <3>2. Younger(j) \in T
      BY <3>1
    <3>3. QED
      BY <3>2
  <2>4. QED
    BY <2>1, <2>2, <2>3
<1>3. PICK x \in T : \A y \in T : <<y, x>> \notin StrictSubsetOrdering(S)
  <2> HIDE DEF T
  <2>1. IsWellFoundedOn(StrictSubsetOrdering(S), FiniteSubsetsOf(S))
    BY FS_StrictSubsetOrderingWellFounded
  <2>2. QED
    BY <1>2, <2>1, WFMin
<1>4. PICK j \in S : x = Younger(j)
  BY <1>3
<1>5. Younger(j) = {}
  <2> SUFFICES ASSUME NEW i \in Younger(j) PROVE FALSE
    OBVIOUS
  <2>1. i \in S /\ j \in S /\ b[j] < b[i] /\ \A m \in S : b[m] \in Nat
    OBVIOUS
  <2>2. Younger(i) \subseteq Younger(j)
    BY <2>1
  <2>3. Younger(i) # Younger(j)
    BY <2>1
  <2>4. Younger(i) \in SUBSET S /\ Younger(j) \in SUBSET S /\ Younger(i) \in T
    BY <2>1
  <2> HIDE DEF Younger
  <2>5. <<Younger(i), Younger(j)>> \in StrictSubsetOrdering(S)
    BY <2>2, <2>3, <2>4 DEF StrictSubsetOrdering
  <2>6. QED
    BY <2>4, <2>5, <1>3, <1>4
<1>6. QED
  BY <1>5

(* persist() keeps the journal a non-empty sequence of snapshots of a kind. *)
LEMMA RecordedType ==
  ASSUME NEW S, NEW log \in Seq(S), log # <<>>, NEW x \in S
  PROVE  Recorded(log, x) \in Seq(S) /\ Recorded(log, x) # <<>>
<1>1. Append(log, x) \in Seq(S) /\ Append(log, x) # <<>>
  BY AppendProperties
<1>2. QED
  BY <1>1 DEF Recorded

(* The job and its snapshot are sound together.                             *)
LEMMA SnapshotSound ==
  ASSUME NEW s \in [Job -> JobState], NEW at \in [Job -> Nat],
         NEW b \in [Job -> Nat], NEW g \in SUBSET Graph
  PROVE  /\ Snapshot(s, at, b, g) \in SnapshotType
         /\ Sound(s, at, b) => Snapshot(s, at, b, g) \in SoundSnapshots
BY DEF Snapshot, SnapshotType, SoundSnapshots

-----------------------------------------------------------------------------
LEMMA InitTable == Init => TableInv
<1> SUFFICES ASSUME Init PROVE TableInv
  OBVIOUS
<1>1. Sound(state, attempt, born)
  BY AttemptsBounded DEF Init, Sound, Resumable, Attempts
<1>2. TableType
  <2>1. /\ state \in [Job -> JobState] /\ attempt \in [Job -> Nat]
        /\ born \in [Job -> Nat] /\ graphs \in SUBSET Graph
    BY DEF Init, JobState
  <2>2. idempotencyIndex \in [Keys -> Job \cup {NoJob}]
    BY DEF Init
  <2>3. QED
    BY <2>1, <2>2 DEF TableType
<1>3. journal \in Seq(SoundSnapshots) /\ JournalType
  BY <1>1, <1>2, SnapshotSound DEF Init, JournalType, TableType
<1>4. TimersType /\ LoopType
  <2>1. TimersType
    BY DEF Init, TimersType
  <2>2. 0 \in 0 .. MaxRestarts /\ 0 \in Nat
    BY LimitAssumption
  <2>3. LoopType
    BY <2>2, Zenon DEF Init, LoopType
  <2>4. QED
    BY <2>1, <2>3
<1>5. ProcsType
  BY DEF Init, ProcsType, ChildState
<1>6. QED
  BY <1>1, <1>2, <1>3, <1>4, <1>5 DEF TableInv, TypeOK, Sound, SoundNow, JournalSound

-----------------------------------------------------------------------------
(* What the parts of the handlers do to the types and to soundness.         *)

LEMMA PersistEffect ==
  ASSUME TableInv, TableType', SoundNow', Persist
  PROVE  JournalSound'
<1> DEFINE x == Snapshot(state', attempt', born', graphs')
<1>1. x \in SnapshotType /\ x \in SoundSnapshots
  BY SnapshotSound DEF TableType, SoundNow
<1>2. journal \in Seq(SnapshotType) /\ journal \in Seq(SoundSnapshots) /\ journal # <<>>
  BY DEF TableInv, JournalSound, JournalType
<1> HIDE DEF x
<1>3. /\ Recorded(journal, x) \in Seq(SnapshotType)
      /\ Recorded(journal, x) \in Seq(SoundSnapshots)
      /\ Recorded(journal, x) # <<>>
  BY <1>1, <1>2, RecordedType
<1>4. QED
  BY <1>3 DEF Persist, JournalSound, JournalType, x

LEMMA DrainEffect ==
  ASSUME LoopType, NEW x \in BOOLEAN, Drain(x), UNCHANGED <<stopping, restarts>>
  PROVE  LoopType'
<1>1. draining' \in BOOLEAN /\ persistAfter' \in BOOLEAN
  BY DEF Drain
<1>2. cursor' \in Nat
  BY DEF Drain
<1>3. stopping' \in BOOLEAN /\ restarts' \in 0 .. MaxRestarts
  BY DEF LoopType
<1>4. QED
  BY <1>1, <1>2, <1>3 DEF LoopType

LEMMA FinishEffect ==
  ASSUME TableInv, NEW S \in SUBSET Job, NEW how \in Finished, Finish(S, how),
         \A j \in S : state[j] # "absent"
  PROVE  /\ TableType' /\ TimersType' /\ SoundNow' /\ JournalSound'
         /\ handle' \in [Job -> Attempts \cup {0}]
<1>1. TableType'
  BY DEF TableInv, TypeOK, TableType, Finish, JobState
<1>2. SoundNow'
  BY <1>1 DEF TableInv, TypeOK, TableType, Finish, SoundNow, Sound, Finished, Succeeded,
           Unsuccessful, Resumable
<1>3. JournalSound'
  BY <1>1, <1>2, PersistEffect DEF Finish
<1>4. TimersType'
  BY DEF TableInv, TypeOK, TimersType, Finish, ClearActiveAttempt
<1>5. handle' \in [Job -> Attempts \cup {0}]
  BY DEF TableInv, TypeOK, ProcsType, Finish, ClearActiveAttempt
<1>6. QED
  BY <1>1, <1>2, <1>3, <1>4, <1>5

LEMMA FailEffect ==
  ASSUME TableInv, NEW j \in Job, NEW how \in Finished, FailAttempt(j, how),
         state[j] = "running"
  PROVE  /\ TableType' /\ TimersType' /\ SoundNow' /\ JournalSound'
         /\ handle' \in [Job -> Attempts \cup {0}]
<1>1. CASE ~Retryable(j, attempt[j])
  BY <1>1, FinishEffect DEF FailAttempt
<1>2. CASE Retryable(j, attempt[j])
  <2>1. TableType'
    BY <1>2 DEF TableInv, TypeOK, TableType, FailAttempt, JobState, Unfinished, Resumable
  <2>2. SoundNow'
    BY <1>2, <2>1 DEF TableInv, TypeOK, TableType, FailAttempt, SoundNow, Sound,
                     Resumable, Retryable
  <2>3. JournalSound'
    BY <1>2, <2>1, <2>2, PersistEffect DEF FailAttempt
  <2>4. TimersType'
    BY <1>2 DEF TableInv, TypeOK, TimersType, FailAttempt, ClearActiveAttempt
  <2>5. handle' \in [Job -> Attempts \cup {0}]
    BY <1>2 DEF TableInv, TypeOK, ProcsType, FailAttempt, ClearActiveAttempt
  <2>6. QED
    BY <2>1, <2>2, <2>3, <2>4, <2>5
<1>3. QED
  BY <1>1, <1>2

LEMMA TerminateEffect ==
  ASSUME ProcsType, NEW S \in SUBSET Job, Terminate(S)
  PROVE  /\ child' \in [Job -> [Attempts -> ChildState]]
         /\ escalation' \in SUBSET (Job \X Attempts)
         /\ terminationTimer' \in [Job -> Attempts \cup {0}]
<1>1. child' \in [Job -> [Attempts -> ChildState]]
  BY DEF Terminate, ProcsType, ChildState
<1>2. escalation' \in SUBSET (Job \X Attempts)
  BY DEF Terminate, ProcsType
<1>3. terminationTimer' \in [Job -> Attempts \cup {0}]
  BY DEF Terminate, ProcsType
<1>4. QED
  BY <1>1, <1>2, <1>3

(* Groups of variables a step leaves alone keep their type.                 *)
LEMMA Unmoved ==
  ASSUME TableInv
  PROVE  /\ UNCHANGED table => TableType' /\ SoundNow'
         /\ UNCHANGED timers => TimersType'
         /\ UNCHANGED procs => ProcsType'
         /\ UNCHANGED <<loop, stopping, restarts>> => LoopType'
         /\ UNCHANGED journal => JournalSound'
<1>1. TableType /\ TimersType /\ ProcsType /\ LoopType /\ SoundNow /\ JournalSound
  BY DEF TableInv, TypeOK
<1>2. UNCHANGED table => TableType' /\ SoundNow'
  BY <1>1 DEF TableType, SoundNow, table
<1>3. UNCHANGED timers => TimersType'
  BY <1>1 DEF TimersType, timers
<1>4. UNCHANGED procs => ProcsType'
  BY <1>1 DEF ProcsType, procs
<1>5. UNCHANGED <<loop, stopping, restarts>> => LoopType'
  BY <1>1 DEF LoopType, loop
<1>6. UNCHANGED journal => JournalSound'
  BY <1>1 DEF JournalSound, JournalType
<1>7. QED
  BY <1>2, <1>3, <1>4, <1>5, <1>6

LEMMA Assemble ==
  ASSUME TableType', SoundNow', TimersType', ProcsType', LoopType', JournalSound'
  PROVE  TableInv'
BY DEF TableInv, TypeOK, SoundNow, Sound, JournalSound

LEMMA CreateStep ==
  ASSUME TableInv, NEW j \in Job, Create(j)
  PROVE  TableInv'
<1>1. TimersType' /\ ProcsType' /\ JournalSound'
  BY Unmoved DEF Create
<1>2. LoopType'
  BY DrainEffect DEF Create, TableInv, TypeOK
<1>3. NextBorn \in Nat /\ NextBorn # 0
  <2>1. IsFiniteSet({i \in Job : born[i] # 0})
    BY JobAssumption, FS_Subset
  <2>2. QED
    BY <2>1, FS_CardinalityType DEF NextBorn
<1>4. TableType'
  <2>1. state' \in [Job -> JobState]
    BY DEF TableInv, TypeOK, TableType, Create, JobState, InitialState,
           Unfinished, Resumable
  <2>2. born' \in [Job -> Nat]
    BY <1>3 DEF TableInv, TypeOK, TableType, Create
  <2>3. idempotencyIndex' \in [Keys -> Job \cup {NoJob}]
    BY DEF TableInv, TypeOK, TableType, Create
  <2>4. QED
    BY <2>1, <2>2, <2>3 DEF TableInv, TypeOK, TableType, Create
<1>5. SoundNow'
  BY <1>3, AttemptsBounded DEF TableInv, TypeOK, TableType, Create, SoundNow, Sound,
     InitialState, Resumable
<1>6. QED
  BY <1>1, <1>2, <1>4, <1>5, Assemble

LEMMA CreateGraphStep ==
  ASSUME TableInv, NEW g \in Graph, CreateGraph(g)
  PROVE  TableInv'
<1>1. TimersType' /\ ProcsType' /\ JournalSound'
  BY Unmoved DEF CreateGraph
<1>2. LoopType'
  BY DrainEffect DEF CreateGraph, TableInv, TypeOK
<1>3. NextBorn \in Nat /\ NextBorn # 0
  <2>1. IsFiniteSet({i \in Job : born[i] # 0})
    BY JobAssumption, FS_Subset
  <2>2. QED
    BY <2>1, FS_CardinalityType DEF NextBorn
<1>4. \A j \in NodesOf(g) : Position(g, j) \in Nat /\ Position(g, j) # 0
  <2> SUFFICES ASSUME NEW j \in NodesOf(g)
               PROVE  Position(g, j) \in Nat /\ Position(g, j) # 0
    OBVIOUS
  <2>1. GraphRequest[g].nodes \in Seq(Job)
    BY GraphAssumption
  <2>2. DOMAIN GraphRequest[g].nodes = 1 .. Len(GraphRequest[g].nodes)
    BY <2>1
  <2>3. \E i \in DOMAIN GraphRequest[g].nodes : GraphRequest[g].nodes[i] = j
    BY DEF NodesOf
  <2>4. Position(g, j) \in DOMAIN GraphRequest[g].nodes
    BY <2>3 DEF Position
  <2>5. QED
    BY <2>1, <2>2, <2>4
<1>5. TableType'
  <2>1. state' \in [Job -> JobState]
    BY DEF TableInv, TypeOK, TableType, CreateGraph, JobState, InitialState,
           Unfinished, Resumable
  <2>2. born' \in [Job -> Nat]
    <3>1. \A j \in NodesOf(g) : NextBorn + Position(g, j) - 1 \in Nat
      BY <1>3, <1>4
    <3>2. QED
      BY <3>1 DEF TableInv, TypeOK, TableType, CreateGraph
  <2>3. QED
    BY <2>1, <2>2 DEF TableInv, TypeOK, TableType, CreateGraph
<1>6. SoundNow'
  <2>1. \A j \in NodesOf(g) : NextBorn + Position(g, j) - 1 # 0
    BY <1>3, <1>4
  <2>2. \A j \in NodesOf(g) : attempt[j] = 0
    <3>1. NodesOf(g) \subseteq Job
      BY GraphAssumption DEF NodesOf
    <3>2. \A j \in NodesOf(g) : born[j] = 0
      BY DEF CreateGraph
    <3>3. QED
      BY <3>1, <3>2 DEF TableInv, SoundNow, Sound
  <2>3. QED
    BY <2>1, <2>2, <1>5, AttemptsBounded DEF TableInv, TypeOK, TableType, CreateGraph, SoundNow, Sound,
       InitialState, Resumable
<1>7. QED
  BY <1>1, <1>2, <1>5, <1>6, Assemble

LEMMA DrainRetryStep ==
  ASSUME TableInv, NEW j \in Job, DrainRetry(j)
  PROVE  TableInv'
<1>1. JournalSound' /\ ProcsType'
  BY Unmoved DEF DrainRetry
<1>2. LoopType'
  BY DEF DrainRetry, Visit, TableInv, TypeOK, LoopType, TableType
<1>3. TableType'
  BY DEF DrainRetry, TableInv, TypeOK, TableType, JobState, Unfinished, Resumable
<1>4. SoundNow'
  BY <1>3 DEF DrainRetry, TableInv, TypeOK, TableType, SoundNow, Sound, Resumable
<1>5. TimersType'
  BY DEF DrainRetry, TableInv, TypeOK, TimersType
<1>6. QED
  BY <1>1, <1>2, <1>3, <1>4, <1>5, Assemble

LEMMA DrainDependencyFailedStep ==
  ASSUME TableInv, NEW j \in Job, DrainDependencyFailed(j)
  PROVE  TableInv'
<1>1. /\ TableType' /\ TimersType' /\ SoundNow' /\ JournalSound'
      /\ handle' \in [Job -> Attempts \cup {0}]
  <2>1. Finish({j}, "dependency_failed") /\ state[j] # "absent"
    BY DEF DrainDependencyFailed
  <2>2. QED
    BY <2>1, FinishEffect DEF Finished, Unsuccessful
<1>2. LoopType'
  BY DEF DrainDependencyFailed, Visit, TableInv, TypeOK, LoopType, TableType
<1>3. ProcsType'
  BY <1>1 DEF DrainDependencyFailed, TableInv, TypeOK, ProcsType
<1>4. QED
  BY <1>1, <1>2, <1>3, Assemble

LEMMA DrainReadinessStep ==
  ASSUME TableInv, NEW j \in Job, DrainReadiness(j)
  PROVE  TableInv'
<1>1. JournalSound' /\ ProcsType' /\ TimersType'
  BY Unmoved DEF DrainReadiness
<1>2. LoopType'
  BY DEF DrainReadiness, Visit, TableInv, TypeOK, LoopType, TableType
<1>3. TableType'
  BY DEF DrainReadiness, TableInv, TypeOK, TableType, JobState, Unfinished, Resumable
<1>4. SoundNow'
  BY <1>3 DEF DrainReadiness, TableInv, TypeOK, TableType, SoundNow, Sound, Resumable
<1>5. QED
  BY <1>1, <1>2, <1>3, <1>4, Assemble

LEMMA DrainStartStep ==
  ASSUME TableInv, NEW j \in Job, DrainStart(j)
  PROVE  TableInv'
<1> DEFINE n == attempt[j] + 1
<1>1. /\ state[j] = "queued" /\ n \in Attempts /\ n <= MaxAttempts(j) /\ n \in Nat
      /\ state' = [state EXCEPT ![j] = "running"]
      /\ attempt' = [attempt EXCEPT ![j] = n]
      /\ Launch(j, n)
  BY AttemptsBounded DEF DrainStart, Candidate, TableInv, TypeOK, TableType, SoundNow, Sound,
     Resumable, Attempts
<1> HIDE DEF n
<1>2. TableType'
  BY <1>1 DEF DrainStart, TableInv, TypeOK, TableType, JobState, Unfinished
<1>3. SoundNow'
  BY <1>1, <1>2 DEF DrainStart, TableInv, TypeOK, TableType, SoundNow, Sound, Resumable
<1>4. JournalSound'
  BY <1>2, <1>3, PersistEffect DEF DrainStart
<1>5. TimersType'
  BY <1>1 DEF DrainStart, Launch, TableInv, TypeOK, TimersType
<1>6. ProcsType'
  BY <1>1 DEF DrainStart, Launch, TableInv, TypeOK, ProcsType, ChildState
<1>7. LoopType'
  BY DEF DrainStart, TableInv, TypeOK, LoopType
<1>8. QED
  BY <1>2, <1>3, <1>4, <1>5, <1>6, <1>7, Assemble

LEMMA DrainStartFailsStep ==
  ASSUME TableInv, NEW j \in Job, DrainStartFails(j)
  PROVE  TableInv'
<1> DEFINE n == attempt[j] + 1
           started == [state EXCEPT ![j] = "running"]
<1>1. /\ state[j] = "queued" /\ n \in Nat /\ n <= MaxAttempts(j)
      /\ attempt' = [attempt EXCEPT ![j] = n]
      /\ state' = [state EXCEPT ![j] = IF Retryable(j, n) THEN "retry_wait" ELSE "failed"]
      /\ journal' = Recorded(Recorded(journal, Snapshot(started, attempt', born, graphs)),
                             Snapshot(state', attempt', born, graphs))
  <2>1. Candidate(j) /\ attempt' = [attempt EXCEPT ![j] = n]
    BY DEF DrainStartFails
  <2>2. state[j] = "queued" /\ n \in Nat /\ n <= MaxAttempts(j)
    BY <2>1, AttemptsBounded DEF Candidate, TableInv, TypeOK, TableType, SoundNow, Sound,
       Resumable, Attempts
  <2>3. state' = [state EXCEPT ![j] = IF Retryable(j, n) THEN "retry_wait" ELSE "failed"]
    BY DEF DrainStartFails
  <2>4. journal' = Recorded(Recorded(journal, Snapshot(started, attempt', born, graphs)),
                            Snapshot(state', attempt', born, graphs))
    BY DEF DrainStartFails
  <2>5. QED
    BY <2>1, <2>2, <2>3, <2>4
<1> HIDE DEF n
<1>2. TableType'
  BY <1>1 DEF DrainStartFails, TableInv, TypeOK, TableType, JobState, Unfinished, Finished,
     Unsuccessful, Resumable
<1>3. SoundNow'
  BY <1>1, <1>2, AttemptsBounded DEF DrainStartFails, TableInv, TypeOK, TableType, SoundNow,
     Sound, Resumable, Retryable, Attempts
<1>4. JournalSound'
  <2>1. started \in [Job -> JobState] /\ Sound(started, attempt', born)
    BY <1>1, <1>2 DEF TableInv, TypeOK, TableType, JobState, Unfinished, SoundNow, Sound,
       Resumable
  <2> DEFINE x == Snapshot(started, attempt', born, graphs)
             y == Snapshot(state', attempt', born, graphs)
  <2>2. born' = born /\ graphs' = graphs
    BY DEF DrainStartFails
  <2>3. x \in SoundSnapshots /\ y \in SoundSnapshots /\ x \in SnapshotType /\ y \in SnapshotType
    BY <2>1, <2>2, <1>2, <1>3, SnapshotSound DEF TableType, SoundNow
  <2>4. journal \in Seq(SnapshotType) /\ journal \in Seq(SoundSnapshots) /\ journal # <<>>
    BY DEF TableInv, JournalSound, JournalType
  <2> HIDE DEF x, y
  <2>5. /\ Recorded(journal, x) \in Seq(SnapshotType)
        /\ Recorded(journal, x) \in Seq(SoundSnapshots)
        /\ Recorded(journal, x) # <<>>
    BY <2>3, <2>4, RecordedType
  <2>6. /\ Recorded(Recorded(journal, x), y) \in Seq(SnapshotType)
        /\ Recorded(Recorded(journal, x), y) \in Seq(SoundSnapshots)
        /\ Recorded(Recorded(journal, x), y) # <<>>
    BY <2>3, <2>5, RecordedType
  <2>7. QED
    BY <2>6, <1>1 DEF JournalSound, JournalType, x, y
<1>5. TimersType'
  BY DEF DrainStartFails, TableInv, TypeOK, TimersType
<1>6. ProcsType'
  BY Unmoved DEF DrainStartFails
<1>7. LoopType'
  BY DEF DrainStartFails, TableInv, TypeOK, LoopType
<1>8. QED
  BY <1>2, <1>3, <1>4, <1>5, <1>6, <1>7, Assemble

LEMMA DrainEndStep ==
  ASSUME TableInv, DrainEnd
  PROVE  TableInv'
<1>1. TableType' /\ SoundNow' /\ TimersType' /\ ProcsType'
  BY Unmoved DEF DrainEnd
<1>2. JournalSound'
  BY <1>1, PersistEffect, Unmoved DEF DrainEnd
<1>3. LoopType'
  <2>1. draining' = FALSE /\ cursor' = 0 /\ persistAfter' = FALSE
    BY DEF DrainEnd
  <2>2. stopping' \in BOOLEAN /\ restarts' \in 0 .. MaxRestarts
    BY DEF DrainEnd, TableInv, TypeOK, LoopType
  <2>3. QED
    BY <2>1, <2>2 DEF LoopType
<1>4. QED
  BY <1>1, <1>2, <1>3, Assemble

(* A handler that ends an attempt or a job: what its parts have in common.  *)
LEMMA FailAndDrain ==
  ASSUME TableInv, NEW j \in Job, state[j] = "running", NEW how \in Finished,
         \/ FailAttempt(j, how)
         \/ Finish({j}, how),
         Drain(FALSE), UNCHANGED <<stopping, restarts>>
  PROVE  /\ TableType' /\ TimersType' /\ SoundNow' /\ JournalSound' /\ LoopType'
         /\ handle' \in [Job -> Attempts \cup {0}]
<1>1. LoopType'
  BY DrainEffect DEF TableInv, TypeOK
<1>2. CASE FailAttempt(j, how)
  BY <1>1, <1>2, FailEffect
<1>3. CASE Finish({j}, how)
  BY <1>1, <1>3, FinishEffect
<1>4. QED
  BY <1>2, <1>3

LEMMA Outcomes ==
  /\ "failed" \in Finished /\ "timed_out" \in Finished /\ "succeeded" \in Finished
  /\ "cancelled" \in Finished /\ "interrupted" \in Finished
BY DEF Finished, Succeeded, Unsuccessful

LEMMA ChildErrorStep ==
  ASSUME TableInv, NEW j \in Job, NEW n \in Attempts, ChildError(j, n)
  PROVE  TableInv'
<1>1. /\ TableType' /\ TimersType' /\ SoundNow' /\ JournalSound' /\ LoopType'
      /\ handle' \in [Job -> Attempts \cup {0}]
  <2>1. CASE Settles(j)
    BY <2>1, FailAndDrain, Outcomes DEF ChildError, Settles
  <2>2. CASE ~Settles(j)
    BY <2>2, Unmoved DEF ChildError, TableInv, TypeOK, ProcsType
  <2>3. QED
    BY <2>1, <2>2
<1>2. ProcsType'
  BY <1>1 DEF ChildError, TableInv, TypeOK, ProcsType, ChildState
<1>3. QED
  BY <1>1, <1>2, Assemble

LEMMA ProcessCloseStep ==
  ASSUME TableInv, NEW j \in Job, NEW n \in Attempts, NEW zero \in BOOLEAN,
         ProcessClose(j, n, zero)
  PROVE  TableInv'
<1>1. /\ TableType' /\ TimersType' /\ SoundNow' /\ JournalSound' /\ LoopType'
      /\ handle' \in [Job -> Attempts \cup {0}]
  <2>1. CASE Settles(j)
    BY <2>1, FailAndDrain, Outcomes DEF ProcessClose, Settles
  <2>2. CASE ~Settles(j)
    BY <2>2, Unmoved DEF ProcessClose, TableInv, TypeOK, ProcsType
  <2>3. QED
    BY <2>1, <2>2
<1>2. ProcsType'
  BY <1>1 DEF ProcessClose, TableInv, TypeOK, ProcsType, ChildState
<1>3. QED
  BY <1>1, <1>2, Assemble

LEMMA FunctionSettlesStep ==
  ASSUME TableInv, NEW j \in Job, NEW n \in Attempts, NEW ok \in BOOLEAN,
         FunctionSettles(j, n, ok)
  PROVE  TableInv'
<1>1. /\ TableType' /\ TimersType' /\ SoundNow' /\ JournalSound' /\ LoopType'
      /\ handle' \in [Job -> Attempts \cup {0}]
  <2>1. CASE Settles(j)
    BY <2>1, FailAndDrain, Outcomes DEF FunctionSettles, Settles
  <2>2. CASE ~Settles(j)
    BY <2>2, Unmoved DEF FunctionSettles, TableInv, TypeOK, ProcsType
  <2>3. QED
    BY <2>1, <2>2
<1>2. ProcsType'
  BY <1>1 DEF FunctionSettles, TableInv, TypeOK, ProcsType, ChildState
<1>3. QED
  BY <1>1, <1>2, Assemble

LEMMA AttemptTimeoutStep ==
  ASSUME TableInv, NEW j \in Job, AttemptTimeout(j)
  PROVE  TableInv'
<1>1. /\ TableType' /\ TimersType' /\ SoundNow' /\ JournalSound' /\ LoopType'
      /\ handle' \in [Job -> Attempts \cup {0}]
  BY FailAndDrain, Outcomes DEF AttemptTimeout
<1>2. ProcsType'
  BY <1>1, TerminateEffect DEF AttemptTimeout, TableInv, TypeOK, ProcsType
<1>3. QED
  BY <1>1, <1>2, Assemble

LEMMA EscalateStep ==
  ASSUME TableInv, NEW j \in Job, NEW n \in Attempts, Escalate(j, n)
  PROVE  TableInv'
<1>1. TableType' /\ SoundNow' /\ TimersType' /\ LoopType' /\ JournalSound'
  BY Unmoved DEF Escalate
<1>2. ProcsType'
  BY DEF Escalate, TableInv, TypeOK, ProcsType, ChildState
<1>3. QED
  BY <1>1, <1>2, Assemble

LEMMA TimerSteps ==
  ASSUME TableInv, NEW j \in Job, BackoffElapses(j) \/ RetryWake(j)
  PROVE  TableInv'
<1>1. TableType' /\ SoundNow' /\ ProcsType' /\ JournalSound'
  BY Unmoved DEF BackoffElapses, RetryWake
<1>2. TimersType'
  BY DEF BackoffElapses, RetryWake, TableInv, TypeOK, TimersType
<1>3. LoopType'
  BY Unmoved, DrainEffect DEF BackoffElapses, RetryWake, TableInv, TypeOK
<1>4. QED
  BY <1>1, <1>2, <1>3, Assemble

LEMMA CancelStep ==
  ASSUME TableInv, NEW j \in Job, Cancel(j)
  PROVE  TableInv'
<1>1. /\ TableType' /\ TimersType' /\ SoundNow' /\ JournalSound'
      /\ handle' \in [Job -> Attempts \cup {0}]
  <2>1. state[j] # "absent" /\ Finish({j}, "cancelled")
    BY DEF Cancel, Unfinished, Resumable
  <2>2. QED
    BY <2>1, FinishEffect, Outcomes
<1>2. LoopType'
  BY DrainEffect DEF Cancel, TableInv, TypeOK
<1>3. ProcsType'
  BY <1>1, TerminateEffect DEF Cancel, TableInv, TypeOK, ProcsType
<1>4. QED
  BY <1>1, <1>2, <1>3, Assemble

LEMMA ShutdownStep ==
  ASSUME TableInv, Shutdown
  PROVE  TableInv'
<1>1. TableType'
  BY Outcomes DEF Shutdown, TableInv, TypeOK, TableType, JobState
<1>2. SoundNow'
  BY <1>1 DEF Shutdown, TableInv, TypeOK, TableType, SoundNow, Sound, Resumable,
     Running, In
<1>3. JournalSound'
  BY <1>1, <1>2, PersistEffect DEF Shutdown
<1>4. TimersType'
  BY DEF Shutdown, ClearActiveAttempt, TableInv, TypeOK, TimersType
<1>5. ProcsType'
  <2>1. Running \in SUBSET Job
    BY DEF Running, In
  <2>2. handle' \in [Job -> Attempts \cup {0}]
    BY DEF Shutdown, ClearActiveAttempt, TableInv, TypeOK, ProcsType
  <2>3. QED
    BY <2>1, <2>2, TerminateEffect DEF Shutdown, TableInv, TypeOK, ProcsType
<1>6. LoopType'
  <2>1. stopping' \in BOOLEAN
    BY DEF Shutdown
  <2>2. QED
    BY <2>1 DEF Shutdown, TableInv, TypeOK, LoopType, loop
<1>7. QED
  BY <1>1, <1>2, <1>3, <1>4, <1>5, <1>6, Assemble

LEMMA PruneStep ==
  ASSUME TableInv, NEW S \in SUBSET Job, Prune(S)
  PROVE  TableInv'
<1>1. TimersType' /\ ProcsType' /\ LoopType'
  BY Unmoved DEF Prune
<1>2. TableType'
  BY DEF Prune, TableInv, TypeOK, TableType, JobState
<1>3. SoundNow'
  BY <1>2 DEF Prune, TableInv, TypeOK, TableType, SoundNow, Sound, Resumable
<1>4. JournalSound'
  BY <1>2, <1>3, PersistEffect DEF Prune
<1>5. QED
  BY <1>1, <1>2, <1>3, <1>4, Assemble

(* Dropping a snapshot leaves a non-empty sequence of snapshots.            *)
LEMMA WriteKeeps ==
  ASSUME NEW S, NEW log \in Seq(S), Len(log) > 1
  PROVE  /\ Tail(log) \in Seq(S) /\ Tail(log) # <<>>
         /\ <<Head(log)>> \o Tail(Tail(log)) \in Seq(S)
         /\ <<Head(log)>> \o Tail(Tail(log)) # <<>>
<1>1. /\ log # <<>> /\ Head(log) \in S /\ Tail(log) \in Seq(S)
      /\ Len(Tail(log)) = Len(log) - 1
  BY HeadTailProperties
<1>2. Tail(log) # <<>>
  BY <1>1
<1>3. Tail(Tail(log)) \in Seq(S) /\ <<Head(log)>> \in Seq(S)
  BY <1>1, <1>2, HeadTailProperties
<1>4. /\ <<Head(log)>> \o Tail(Tail(log)) \in Seq(S)
      /\ Len(<<Head(log)>> \o Tail(Tail(log))) > 0
  BY <1>3, ConcatProperties
<1>5. QED
  BY <1>1, <1>2, <1>4

LEMMA WriteSnapshotStep ==
  ASSUME TableInv, WriteSnapshot
  PROVE  TableInv'
<1>1. TableType' /\ SoundNow' /\ TimersType' /\ ProcsType' /\ LoopType'
  BY Unmoved DEF WriteSnapshot
<1>2. JournalSound'
  BY WriteKeeps DEF WriteSnapshot, TableInv, JournalSound, JournalType
<1>3. QED
  BY <1>1, <1>2, Assemble

(* A backend boots from what is on the disk, or, if that cannot be read,    *)
(* from a table of the same ids without a job; the disk stays as it is.     *)
LEMMA BootsFromDisk ==
  ASSUME TableInv, Restart
  PROVE  /\ Head(journal) \in SoundSnapshots /\ journal' = <<Head(journal)>>
         /\ \E booted \in SoundSnapshots :
              /\ Boot(booted)
              /\ \/ booted.state = Head(journal).state
                 \/ booted.state = [j \in Job |-> "absent"]
              /\ booted.attempt = Head(journal).attempt
              /\ booted.born = Head(journal).born
<1> DEFINE disk == Head(journal)
           nothing == [j \in Job |-> "absent"]
<1>1. disk \in SoundSnapshots /\ journal' = <<disk>>
  BY HeadTailProperties DEF TableInv, JournalSound, JournalType, Restart
<1>2. PICK booted \in {disk, Unread(disk)} : Boot(booted)
  BY DEF Restart
<1> HIDE DEF disk
<1>3. /\ Unread(disk).state = nothing /\ Unread(disk).born = disk.born
      /\ Unread(disk).attempt = disk.attempt
  BY DEF Unread, Snapshot
<1>4. Unread(disk) \in SnapshotType
  <2>1. nothing \in [Job -> JobState]
    BY DEF JobState
  <2>2. disk.attempt \in [Job -> Nat] /\ disk.born \in [Job -> Nat]
    BY <1>1 DEF SoundSnapshots, SnapshotType
  <2>3. QED
    BY <2>1, <2>2 DEF Unread, Snapshot, SnapshotType
<1>5. Unread(disk) \in SoundSnapshots
  BY <1>1, <1>3, <1>4 DEF SoundSnapshots, Sound, Resumable
<1>6. QED
  BY <1>1, <1>2, <1>3, <1>5 DEF disk

LEMMA RestartStep ==
  ASSUME TableInv, Restart
  PROVE  TableInv'
<1>1. PICK booted \in SoundSnapshots : Boot(booted)
  BY BootsFromDisk
<1> DEFINE restored == RestoredState(booted.state)
<1>2. /\ booted.state \in [Job -> JobState] /\ booted.attempt \in [Job -> Nat]
      /\ booted.born \in [Job -> Nat] /\ booted.graphs \in SUBSET Graph
      /\ Sound(booted.state, booted.attempt, booted.born)
  BY DEF SnapshotType, SoundSnapshots
<1>3. /\ state' = restored /\ attempt' = booted.attempt /\ born' = booted.born
      /\ graphs' = booted.graphs
      /\ idempotencyIndex' = RestoredIndex(restored, booted.born)
  BY <1>1 DEF Boot
<1>4. TableType'
  <2>1. restored \in [Job -> JobState]
    BY <1>2, Outcomes DEF RestoredState, JobState
  <2>2. idempotencyIndex' \in [Keys -> Job \cup {NoJob}]
    <3> HIDE DEF restored
    <3> SUFFICES ASSUME NEW k \in Keys
                 PROVE  idempotencyIndex'[k] \in Job \cup {NoJob}
      BY <1>3 DEF RestoredIndex
    <3> DEFINE named == {j \in Job : restored[j] # "absent" /\ Key(j) # NoKey
                                     /\ OwnerKey(j) = k}
    <3>1. CASE named = {}
      BY <3>1, <1>3 DEF RestoredIndex
    <3>2. CASE named # {}
      <4>1. \E j \in named : \A i \in named : booted.born[i] <= booted.born[j]
        <5>1. named \in SUBSET Job
          OBVIOUS
        <5>2. QED
          BY <5>1, <3>2, <1>2, YoungestExists
      <4>2. QED
        BY <4>1, <3>2, <1>3 DEF RestoredIndex
    <3>3. QED
      BY <3>1, <3>2
  <2>3. QED
    BY <2>1, <2>2, <1>2, <1>3 DEF TableType
<1>5. SoundNow'
  BY <1>2, <1>3 DEF SoundNow, Sound, RestoredState, Resumable
<1>6. JournalSound'
  <2>1. Head(journal) \in SoundSnapshots /\ journal' = <<Head(journal)>>
    BY BootsFromDisk
  <2>2. Head(journal) \in SnapshotType
    BY <2>1 DEF SoundSnapshots
  <2>3. QED
    BY <2>1, <2>2 DEF JournalSound, JournalType
<1>7. TimersType'
  BY <1>1 DEF Restart, Boot, TimersType
<1>8. ProcsType'
  BY DEF Restart, ProcsType, ChildState
<1>9. LoopType'
  <2>1. restarts' \in 0 .. MaxRestarts
    BY LimitAssumption DEF Restart, TableInv, TypeOK, LoopType
  <2>2. draining' = TRUE /\ cursor' = 0 /\ persistAfter' \in BOOLEAN /\ stopping' = FALSE
    BY <1>1 DEF Restart, Boot
  <2>3. QED
    BY <2>1, <2>2 DEF LoopType
<1>10. QED
  BY <1>4, <1>5, <1>6, <1>7, <1>8, <1>9, Assemble

-----------------------------------------------------------------------------
(* Every step preserves the invariant: one case per action of Next.         *)
LEMMA NextTable == TableInv /\ [Next]_vars => TableInv'
<1> SUFFICES ASSUME TableInv, [Next]_vars PROVE TableInv'
  OBVIOUS
<1>1. ASSUME NEW j \in Job,
             Create(j) \/ Cancel(j) \/ AttemptTimeout(j) \/ BackoffElapses(j) \/ RetryWake(j)
      PROVE  TableInv'
  BY <1>1, CreateStep, CancelStep, AttemptTimeoutStep, TimerSteps
<1>2. ASSUME NEW g \in Graph, CreateGraph(g) PROVE TableInv'
  BY <1>2, CreateGraphStep
<1>3. ASSUME DrainStep PROVE TableInv'
  BY <1>3, DrainRetryStep, DrainDependencyFailedStep, DrainReadinessStep, DrainStartStep,
     DrainStartFailsStep, DrainEndStep DEF DrainStep
<1>4. ASSUME ProcessEvent PROVE TableInv'
  BY <1>4, ChildErrorStep, EscalateStep, ProcessCloseStep, FunctionSettlesStep
     DEF ProcessEvent
<1>5. ASSUME NEW S \in SUBSET Job, Prune(S) PROVE TableInv'
  BY <1>5, PruneStep
<1>6. CASE Shutdown
  BY <1>6, ShutdownStep
<1>7. CASE WriteSnapshot
  BY <1>7, WriteSnapshotStep
<1>8. CASE Restart
  BY <1>8, RestartStep
<1>9. CASE UNCHANGED vars
  <2>1. /\ UNCHANGED table /\ UNCHANGED timers /\ UNCHANGED procs /\ UNCHANGED journal
        /\ UNCHANGED <<loop, stopping, restarts>>
    BY <1>9 DEF vars
  <2>2. QED
    BY <2>1, Unmoved, Assemble
<1>10. QED
  BY <1>1, <1>2, <1>3, <1>4, <1>5, <1>6, <1>7, <1>8, <1>9 DEF Next

LEMMA TableInvariant == Spec => []TableInv
BY InitTable, NextTable, PTL DEF Spec

(* The job table, the timers, the process tables and the journal keep their *)
(* types, and no job uses more attempts than its retry policy grants.       *)
THEOREM TypeCorrect == Spec => []TypeOK
<1>1. TableInv => TypeOK
  BY DEF TableInv
<1>2. QED
  BY <1>1, TableInvariant, PTL
=============================================================================
