-------------------------- MODULE AgentTasksProofs --------------------------
(* The agent task runner, for any tasks, limits and sharing of a tree.       *)
EXTENDS AgentTasks, FiniteSetTheorems, TLAPS

(* Among finitely many tasks one has the last place: the sets of those       *)
(* behind each are finite, and one of them is minimal.                       *)
LEMMA LastExists ==
  ASSUME NEW S \in SUBSET Tasks, S # {}, NEW p \in [Tasks -> Nat]
  PROVE  \E t \in S : \A u \in S : p[u] <= p[t]
<1> DEFINE Behind(t) == {u \in S : p[t] < p[u]}
           T == {Behind(t) : t \in S}
<1>1. IsFiniteSet(S)
  BY TasksAssumption, FS_Subset
<1>2. T \subseteq FiniteSubsetsOf(S) /\ T # {}
  <2>1. FiniteSubsetsOf(S) = SUBSET S
    BY <1>1, FS_FiniteSubsetsOfFinite
  <2>2. T \subseteq SUBSET S
    OBVIOUS
  <2>3. PICK t \in S : TRUE
    OBVIOUS
  <2>4. Behind(t) \in T
    BY <2>3
  <2>5. QED
    BY <2>1, <2>2, <2>4
<1>3. PICK x \in T : \A y \in T : <<y, x>> \notin StrictSubsetOrdering(S)
  <2> HIDE DEF T
  <2>1. IsWellFoundedOn(StrictSubsetOrdering(S), FiniteSubsetsOf(S))
    BY FS_StrictSubsetOrderingWellFounded
  <2>2. QED
    BY <1>2, <2>1, WFMin
<1>4. PICK t \in S : x = Behind(t)
  BY <1>3
<1>5. Behind(t) = {}
  <2> SUFFICES ASSUME NEW u \in Behind(t) PROVE FALSE
    OBVIOUS
  <2>1. u \in S /\ t \in S /\ p[t] < p[u] /\ \A r \in S : p[r] \in Nat
    OBVIOUS
  <2>2. Behind(u) \subseteq Behind(t) /\ Behind(u) # Behind(t)
    BY <2>1
  <2>3. Behind(u) \in SUBSET S /\ Behind(t) \in SUBSET S /\ Behind(u) \in T
    BY <2>1
  <2> HIDE DEF Behind
  <2>4. <<Behind(u), Behind(t)>> \in StrictSubsetOrdering(S)
    BY <2>2, <2>3 DEF StrictSubsetOrdering
  <2>5. QED
    BY <2>3, <2>4, <1>3, <1>4
<1>6. QED
  BY <1>5

(* What is counted are finite sets of tasks.                                 *)
LEMMA Countable ==
  ASSUME NEW S \in SUBSET Tasks
  PROVE  /\ IsFiniteSet(S) /\ Cardinality(S) \in Nat
         /\ \A R \in SUBSET S : Cardinality(R) \in Nat /\ Cardinality(R) <= Cardinality(S)
<1>1. \A R \in SUBSET Tasks : IsFiniteSet(R) /\ Cardinality(R) \in Nat
  BY TasksAssumption, FS_Subset, FS_CardinalityType
<1>2. QED
  BY <1>1, FS_Subset

-----------------------------------------------------------------------------
(* The order of the queue.                                                   *)

(* No two waiting tasks have the same place.                                 *)
Placed(s, place) == \A t, u \in Queued(s) : t # u => place[t] # place[u]

(* Renumbering by the number of those that are not behind keeps the places   *)
(* apart.                                                                    *)
LEMMA RenumberedPlaces ==
  ASSUME NEW s \in [Tasks -> States], NEW place \in [Tasks -> Nat], Placed(s, place)
  PROVE  Renumbered(s, place) \in [Tasks -> Nat] /\ Placed(s, Renumbered(s, place))
<1> DEFINE Upto(t) == {u \in Queued(s) : place[u] <= place[t]}
<1>1. \A t : Upto(t) \in SUBSET Tasks
  BY DEF Queued
<1>2. \A t : IsFiniteSet(Upto(t)) /\ Cardinality(Upto(t)) \in Nat
  <2> HIDE DEF Upto
  <2>1. QED
    BY <1>1, Countable
<1>3. ASSUME NEW t \in Queued(s), NEW u \in Queued(s), place[t] < place[u]
      PROVE  Cardinality(Upto(t)) < Cardinality(Upto(u))
  <2>1. u \notin Upto(t) /\ Upto(t) \cup {u} \in SUBSET Upto(u)
    BY <1>3 DEF Queued
  <2> HIDE DEF Upto
  <2>2. Cardinality(Upto(t) \cup {u}) = Cardinality(Upto(t)) + 1
    BY <1>2, <2>1, FS_AddElement
  <2>3. Cardinality(Upto(t) \cup {u}) <= Cardinality(Upto(u))
    BY <1>1, <2>1, Countable
  <2>4. QED
    BY <1>2, <2>2, <2>3
<1>4. Renumbered(s, place) = [t \in Tasks |-> IF s[t] = "queued" THEN Cardinality(Upto(t)) ELSE 0]
  BY DEF Renumbered
<1>5. Renumbered(s, place) \in [Tasks -> Nat]
  <2> HIDE DEF Upto
  <2>1. QED
    BY <1>2, <1>4
<1>6. ASSUME NEW t \in Queued(s), NEW u \in Queued(s), t # u
      PROVE  Cardinality(Upto(t)) # Cardinality(Upto(u))
  <2>1. place[t] \in Nat /\ place[u] \in Nat /\ place[t] # place[u]
    BY <1>6 DEF Placed, Queued
  <2> HIDE DEF Upto
  <2>2. QED
    BY <1>2, <1>3, <2>1
<1>7. QED
  <2> HIDE DEF Upto
  <2>1. QED
    BY <1>4, <1>5, <1>6 DEF Placed, Queued

(* A new task is placed behind the others.                                   *)
LEMMA NextPlaceIsLast ==
  ASSUME TypeOK
  PROVE  NextPlace \in Nat /\ \A t \in Queued(state) : position[t] < NextPlace
<1> DEFINE P == {0} \cup {position[t] : t \in Queued(state)}
<1>1. Queued(state) \in SUBSET Tasks /\ position \in [Tasks -> Nat]
  BY DEF TypeOK, Queued
<1>2. P \subseteq Nat
  BY <1>1
<1>3. \E p \in P : \A q \in P : q <= p
  <2>1. CASE Queued(state) = {}
    BY <2>1
  <2>2. CASE Queued(state) # {}
    <3>1. PICK t \in Queued(state) : \A u \in Queued(state) : position[u] <= position[t]
      BY <1>1, <2>2, LastExists
    <3>2. position[t] \in P /\ \A q \in P : q <= position[t]
      BY <1>1, <3>1
    <3>3. QED
      BY <3>2
  <2>3. QED
    BY <2>1, <2>2
<1>4. Largest(P) \in P /\ \A q \in P : q <= Largest(P)
  <2> HIDE DEF P
  <2>1. QED
    BY <1>3 DEF Largest
<1>5. \A t \in Queued(state) : position[t] \in P
  OBVIOUS
<1>6. QED
  <2>1. NextPlace = 1 + Largest(P)
    BY DEF NextPlace
  <2> HIDE DEF P
  <2>2. Largest(P) \in Nat /\ \A t \in Queued(state) : position[t] \in Nat
    BY <1>2, <1>4, <1>5
  <2>3. \A t \in Queued(state) : position[t] <= Largest(P)
    BY <1>4, <1>5
  <2>4. QED
    BY <2>1, <2>2, <2>3

-----------------------------------------------------------------------------
(* The limits.                                                               *)

(* A limit on a group of tasks that each one that is let go found respected  *)
(* by those before it is respected by all of them together: the last of the  *)
(* group counted every other.                                                *)
LEMMA GroupLimit ==
  ASSUME position \in [Tasks -> Nat],
         NEW held \in SUBSET Tasks, NEW go \in SUBSET Tasks, NEW G \in SUBSET Tasks,
         NEW limit \in Nat,
         \A t, u \in go : t # u => position[t] # position[u],
         Cardinality(held \cap G) <= limit,
         \A t \in go \cap G :
           Cardinality((held \cup {u \in go : Before(u, t)}) \cap G) < limit
  PROVE  Cardinality((held \cup go) \cap G) <= limit
<1>1. CASE go \cap G = {}
  <2>1. (held \cup go) \cap G = held \cap G
    BY <1>1
  <2>2. QED
    BY <2>1
<1>2. CASE go \cap G # {}
  <2>1. PICK t \in go \cap G : \A u \in go \cap G : position[u] <= position[t]
    <3>1. go \cap G \in SUBSET Tasks
      OBVIOUS
    <3>2. QED
      BY <1>2, <3>1, LastExists
  <2> DEFINE Prior == (held \cup {u \in go : Before(u, t)}) \cap G
  <2>2. (held \cup go) \cap G \in SUBSET (Prior \cup {t})
    <3> SUFFICES ASSUME NEW u \in go \cap G, u # t PROVE position[u] < position[t]
      BY DEF Before
    <3>1. position[u] \in Nat /\ position[t] \in Nat /\ position[u] # position[t]
      OBVIOUS
    <3>2. QED
      BY <2>1, <3>1
  <2>3. Cardinality(Prior) < limit
    OBVIOUS
  <2>4. Prior \in SUBSET Tasks /\ Prior \cup {t} \in SUBSET Tasks
    OBVIOUS
  <2> HIDE DEF Prior
  <2>5. Cardinality(Prior \cup {t}) <= limit
    <3>1. IsFiniteSet(Prior) /\ Cardinality(Prior) \in Nat
      BY <2>4, Countable
    <3>2. Cardinality(Prior \cup {t}) <= Cardinality(Prior) + 1
      BY <3>1, FS_AddElement
    <3>3. QED
      BY <2>3, <2>4, <3>1, <3>2, Countable
  <2>6. Cardinality((held \cup go) \cap G) <= Cardinality(Prior \cup {t})
    BY <2>2, <2>4, Countable
  <2>7. Cardinality((held \cup go) \cap G) \in Nat /\ Cardinality(Prior \cup {t}) \in Nat
    <3>1. (held \cup go) \cap G \in SUBSET Tasks
      OBVIOUS
    <3>2. QED
      BY <2>4, <3>1, Countable
  <2>8. QED
    BY <2>5, <2>6, <2>7
<1>3. QED
  BY <1>1, <1>2

(* Being of one account, directory or tree are equivalences.                 *)
LEMMA Groupings ==
  /\ \A t : SameOwner(t) \in SUBSET Tasks /\ SameRepo(t) \in SUBSET Tasks
  /\ \A t : SameTree(t) \in SUBSET Tasks
  /\ \A t, u \in Tasks : u \in SameOwner(t) => SameOwner(u) = SameOwner(t) /\ OwnerOf[u] = OwnerOf[t]
  /\ \A t, u \in Tasks : u \in SameRepo(t) => SameRepo(u) = SameRepo(t)
  /\ \A t, u \in Tasks : u \in SameTree(t) =>
       u \in Sharing /\ SameOwner(u) = SameOwner(t) /\ SameRepo(u) = SameRepo(t)
                    /\ SameTree(u) = SameTree(t)
BY TasksAssumption DEF SameOwner, SameRepo, SameTree

(* Fewer tasks respect the limits that more respect, and leave more room.    *)
LEMMA FewerIn ==
  ASSUME NEW more \in SUBSET Tasks, NEW less \in SUBSET more, NEW limit \in Nat
  PROVE  /\ Cardinality(more) <= limit => Cardinality(less) <= limit
         /\ Cardinality(more) < limit => Cardinality(less) < limit
<1>1. Cardinality(less) <= Cardinality(more) /\ Cardinality(less) \in Nat /\ Cardinality(more) \in Nat
  BY Countable
<1>2. QED
  BY <1>1

LEMMA WithinFewer ==
  ASSUME NEW more \in SUBSET Tasks, NEW less \in SUBSET more, Within(more)
  PROVE  Within(less)
<1>1. \A G : more \cap G \in SUBSET Tasks /\ less \cap G \in SUBSET (more \cap G)
  OBVIOUS
<1>2. Cardinality(less) <= MaxAgents
  BY FewerIn, LimitsAssumption DEF Within
<1>3. \A t \in Tasks : OwnerOf[t] # NoOwner => Cardinality(less \cap SameOwner(t)) <= OwnerLimit
  BY <1>1, FewerIn, LimitsAssumption DEF Within
<1>4. \A t \in Tasks : RepoLimit # 0 => Cardinality(less \cap SameRepo(t)) <= RepoLimit
  BY <1>1, FewerIn, LimitsAssumption DEF Within
<1>5. QED
  BY <1>2, <1>3, <1>4 DEF Within

LEMMA FitsFewer ==
  ASSUME NEW more \in SUBSET Tasks, NEW less \in SUBSET more, NEW t, Fits(t, more)
  PROVE  Fits(t, less)
<1>1. \A G : more \cap G \in SUBSET Tasks /\ less \cap G \in SUBSET (more \cap G)
  OBVIOUS
<1>2. Cardinality(less) < MaxAgents
  BY FewerIn, LimitsAssumption DEF Fits
<1>3. OwnerFits(t, less)
  BY <1>1, FewerIn, LimitsAssumption DEF Fits, OwnerFits
<1>4. RepoFits(t, less)
  BY <1>1, FewerIn, LimitsAssumption DEF Fits, RepoFits
<1>5. TreeFits(t, less)
  BY DEF Fits, TreeFits
<1>6. QED
  BY <1>2, <1>3, <1>4, <1>5 DEF Fits

(* Starting whatever fits beside those before it keeps every limit.          *)
LEMMA LetGoWithin ==
  ASSUME position \in [Tasks -> Nat],
         NEW held \in SUBSET Tasks, NEW go \in SUBSET Tasks,
         \A t, u \in go : t # u => position[t] # position[u],
         Within(held),
         \A t \in go : Fits(t, held \cup {u \in go : Before(u, t)})
  PROVE  Within(held \cup go)
<1> DEFINE Prior(t) == held \cup {u \in go : Before(u, t)}
<1>1. Cardinality(held \cup go) <= MaxAgents
  <2>1. \A S \in SUBSET Tasks : S \cap Tasks = S
    OBVIOUS
  <2>2. Cardinality(held \cap Tasks) <= MaxAgents
    BY <2>1 DEF Within
  <2>3. \A t \in go \cap Tasks : Cardinality(Prior(t) \cap Tasks) < MaxAgents
    BY <2>1 DEF Fits
  <2>4. MaxAgents \in Nat /\ Tasks \in SUBSET Tasks
    BY LimitsAssumption
  <2>5. Cardinality((held \cup go) \cap Tasks) <= MaxAgents
    BY <2>2, <2>3, <2>4, GroupLimit
  <2>6. QED
    BY <2>1, <2>5
<1>2. ASSUME NEW x \in Tasks, OwnerOf[x] # NoOwner
      PROVE  Cardinality((held \cup go) \cap SameOwner(x)) <= OwnerLimit
  <2>1. SameOwner(x) \in SUBSET Tasks /\ OwnerLimit \in Nat
    BY LimitsAssumption, Groupings
  <2>2. Cardinality(held \cap SameOwner(x)) <= OwnerLimit
    BY <1>2 DEF Within
  <2>3. \A t \in go \cap SameOwner(x) : Cardinality(Prior(t) \cap SameOwner(x)) < OwnerLimit
    BY <1>2, Groupings DEF Fits, OwnerFits
  <2>4. QED
    BY <2>1, <2>2, <2>3, GroupLimit
<1>3. ASSUME NEW x \in Tasks, RepoLimit # 0
      PROVE  Cardinality((held \cup go) \cap SameRepo(x)) <= RepoLimit
  <2>1. SameRepo(x) \in SUBSET Tasks /\ RepoLimit \in Nat
    BY LimitsAssumption, Groupings
  <2>2. Cardinality(held \cap SameRepo(x)) <= RepoLimit
    BY <1>3 DEF Within
  <2>3. \A t \in go \cap SameRepo(x) : Cardinality(Prior(t) \cap SameRepo(x)) < RepoLimit
    BY <1>3, Groupings DEF Fits, RepoFits
  <2>4. QED
    BY <2>1, <2>2, <2>3, GroupLimit
<1>4. ASSUME NEW t \in held \cup go, NEW u \in held \cup go, t \in SameTree(u), u \in Sharing,
             t # u
      PROVE  FALSE
  <2>1. u \in SameTree(t) /\ t \in Sharing /\ t \in Tasks /\ u \in Tasks
    BY <1>4, TasksAssumption DEF SameTree, SameOwner, SameRepo
  <2>2. CASE t \in held /\ u \in held
    BY <1>4, <2>2 DEF Within
  <2>3. CASE u \in go /\ t \in held
    BY <1>4, <2>1, <2>3 DEF Fits, TreeFits
  <2>4. CASE t \in go /\ u \in held
    BY <1>4, <2>1, <2>4 DEF Fits, TreeFits
  <2>5. CASE t \in go /\ u \in go
    <3>1. Before(t, u) \/ Before(u, t)
      BY <1>4, <2>1, <2>5 DEF Before
    <3>2. CASE Before(t, u)
      BY <1>4, <2>1, <2>5, <3>2 DEF Fits, TreeFits
    <3>3. CASE Before(u, t)
      BY <1>4, <2>1, <2>5, <3>3 DEF Fits, TreeFits
    <3>4. QED
      BY <3>1, <3>2, <3>3
  <2>6. QED
    BY <2>2, <2>3, <2>4, <2>5
<1>5. QED
  BY <1>1, <1>2, <1>3, <1>4 DEF Within

-----------------------------------------------------------------------------
(* The inductive invariant.                                                  *)

Alive == Settled \cup {"running"}

(* A task that is being stopped is over, and only a task that left the queue *)
(* has a call that works on it.                                              *)
Over == \A t \in stopping : state[t] \in Settled
Busy(s, ph) == \A t \in Tasks : ph[t] # "none" => s[t] \in Alive

(* Every occupied slot of the lane is a call inside it, and every call that  *)
(* waits is listed once.                                                     *)
Lane(ph, occupied, list) ==
  /\ occupied = Cardinality(Inside(ph)) /\ occupied <= MaxPasses
  /\ Outside(ph) = {list[i] : i \in 1 .. Len(list)}
  /\ \A i, j \in 1 .. Len(list) : i # j => list[i] # list[j]
  /\ Outside(ph) # {} => occupied = MaxPasses

(* A live process group is that of a child the runner waits for, what a      *)
(* child left behind will be killed, and an agent that is up belongs to a    *)
(* task that runs or will be killed.                                         *)
Owned ==
  \A t \in Tasks :
    /\ group[t] = "live" => Child(t)
    /\ group[t] = "left" => t \in stopping \cup killing
    /\ phase[t] = "agent" /\ group[t] # "none" => Runs(t) \/ t \in stopping \cup killing

RunnerInv ==
  /\ TypeOK
  /\ Placed(state, position) /\ Placed(disk.state, disk.position)
  /\ Over /\ Busy(state, phase) /\ Lane(phase, passes, waiters) /\ Owned

(* What the end of an event-loop turn may have made of the records: tasks    *)
(* were settled, and nobody took a slot.                                     *)
Releases(s, ph, stop) ==
  /\ s \in [Tasks -> States] /\ ph \in [Tasks -> Phases] /\ stop \in SUBSET Tasks
  /\ \A t \in Tasks : s[t] = state[t] \/ (s[t] \in Settled /\ state[t] # "absent")
  /\ Counted(s, stop) \subseteq Held
  /\ \A t \in stop : s[t] \in Settled
  /\ Busy(s, ph)

LEMMA InitRunner == ASSUME Init PROVE RunnerInv
<1> USE DEF Init
<1>1. TypeOK
  <2>1. disk \in [state : [Tasks -> States], position : [Tasks -> Nat]]
    BY DEF Blank, States
  <2>2. waiters \in Seq(Tasks) /\ stopping \subseteq Tasks /\ killing \subseteq Tasks
    OBVIOUS
  <2>3. /\ state \in [Tasks -> States] /\ position \in [Tasks -> Nat]
        /\ phase \in [Tasks -> Phases] /\ group \in [Tasks -> Groups]
    BY DEF States, Phases, Groups
  <2>4. QED
    BY <2>1, <2>2, <2>3 DEF TypeOK
<1>2. Placed(state, position) /\ Placed(disk.state, disk.position)
  BY DEF Placed, Queued, Blank
<1>3. Over /\ Busy(state, phase) /\ Owned
  BY DEF Over, Busy, Owned
<1>4. Lane(phase, passes, waiters)
  <2>1. Inside(phase) = {} /\ Outside(phase) = {}
    BY DEF Inside, Outside
  <2>2. Cardinality({}) = 0
    BY FS_EmptySet
  <2>3. 1 .. Len(waiters) = {}
    OBVIOUS
  <2>4. passes = 0 /\ 0 <= MaxPasses
    BY LimitsAssumption
  <2> HIDE DEF Init
  <2>5. QED
    BY <2>1, <2>2, <2>3, <2>4 DEF Lane
<1>5. QED
  BY <1>1, <1>2, <1>3, <1>4 DEF RunnerInv

(* Which tasks a turn lets go, and what that leaves.                         *)
LEMMA TurnEffect ==
  ASSUME RunnerInv, NEW s, NEW ph, NEW stop, NEW drains, Releases(s, ph, stop),
         Turn(s, ph, stop, drains)
  PROVE  \E go \in SUBSET Queued(s) :
           /\ drains => LetGo(go, s, stop)
           /\ ~drains => go = {}
           /\ state' = [t \in Tasks |-> IF t \in go THEN "running" ELSE s[t]]
           /\ position' = [t \in Tasks |-> IF t \in Queued(s) \ go THEN position[t] ELSE 0]
           /\ phase' = [t \in Tasks |-> IF t \in go THEN "start" ELSE ph[t]]
           /\ stopping' = stop
           /\ Queued(s) \subseteq Queued(state) /\ Queued(state') = Queued(s) \ go
           /\ \A t, u \in go : t # u => position[t] # position[u]
           /\ Held' = Counted(s, stop) \cup go
           /\ \A t \in go : ph[t] = "none"
<1>1. PICK go \in SUBSET Queued(s) :
        /\ drains => LetGo(go, s, stop)
        /\ ~drains => go = {}
        /\ state' = [t \in Tasks |-> IF t \in go THEN "running" ELSE s[t]]
        /\ position' = [t \in Tasks |-> IF t \in Queued(s) \ go THEN position[t] ELSE 0]
        /\ phase' = [t \in Tasks |-> IF t \in go THEN "start" ELSE ph[t]]
        /\ stopping' = stop
  BY DEF Turn
<1>2. Queued(s) \subseteq Queued(state)
  BY DEF Releases, Queued, Settled
<1>3. Queued(state') = Queued(s) \ go
  BY <1>1 DEF Queued
<1>4. \A t, u \in go : t # u => position[t] # position[u]
  BY <1>2 DEF RunnerInv, Placed
<1>5. Held' = Counted(s, stop) \cup go
  BY <1>1 DEF Held, Counted, Releases, Settled, Queued
<1>6. \A t \in go : ph[t] = "none"
  BY DEF Releases, Busy, Queued, Alive, Settled
<1>7. QED
  BY <1>1, <1>2, <1>3, <1>4, <1>5, <1>6

LEMMA TurnKeeps ==
  ASSUME RunnerInv, NEW s, NEW ph, NEW stop, NEW drains, Releases(s, ph, stop),
         Turn(s, ph, stop, drains)
  PROVE  /\ state' \in [Tasks -> States] /\ position' \in [Tasks -> Nat]
         /\ phase' \in [Tasks -> Phases] /\ stopping' \subseteq Tasks
         /\ stopping' = stop
         /\ Placed(state', position') /\ Over' /\ Busy(state', phase')
         /\ Inside(phase') = Inside(ph) /\ Outside(phase') = Outside(ph)
         /\ \A t \in Tasks : /\ phase'[t] = ph[t] \/ (ph[t] = "none" /\ phase'[t] = "start")
                             /\ s[t] = "running" => state'[t] = "running"
<1>1. PICK go \in SUBSET Queued(s) :
           /\ state' = [t \in Tasks |-> IF t \in go THEN "running" ELSE s[t]]
           /\ position' = [t \in Tasks |-> IF t \in Queued(s) \ go THEN position[t] ELSE 0]
           /\ phase' = [t \in Tasks |-> IF t \in go THEN "start" ELSE ph[t]]
           /\ stopping' = stop
           /\ Queued(s) \subseteq Queued(state) /\ Queued(state') = Queued(s) \ go
           /\ \A t \in go : ph[t] = "none"
  BY TurnEffect
<1>2. state' \in [Tasks -> States] /\ stopping' \subseteq Tasks
  BY <1>1 DEF Releases, States
<1>3. position' \in [Tasks -> Nat]
  BY <1>1 DEF RunnerInv, TypeOK
<1>4. phase' \in [Tasks -> Phases]
  BY <1>1 DEF Releases, Phases
<1>5. Placed(state', position')
  <2> SUFFICES ASSUME NEW t \in Queued(state'), NEW u \in Queued(state'), t # u
               PROVE  position'[t] # position'[u]
    BY DEF Placed
  <2>1. position'[t] = position[t] /\ position'[u] = position[u] /\ {t, u} \subseteq Queued(state)
    BY <1>1 DEF Queued
  <2>2. QED
    BY <2>1 DEF RunnerInv, Placed
<1>6. Over'
  BY <1>1 DEF Over, Releases, Settled, Queued
<1>7. Busy(state', phase')
  BY <1>1 DEF Busy, Releases, Alive
<1>8. Inside(phase') = Inside(ph) /\ Outside(phase') = Outside(ph)
  BY <1>1 DEF Inside, Outside
<1>9. \A t \in Tasks : /\ phase'[t] = ph[t] \/ (ph[t] = "none" /\ phase'[t] = "start")
                       /\ s[t] = "running" => state'[t] = "running"
  BY <1>1
<1>10. QED
  BY <1>1, <1>2, <1>3, <1>4, <1>5, <1>6, <1>7, <1>8, <1>9

-----------------------------------------------------------------------------
(* The steps that end in a turn of the queue.                                *)

(* What else such a step owes the invariant: the stores, the groups and the  *)
(* lane it leaves behind.                                                    *)
Leaves(s, ph, stop) ==
  /\ group' \in [Tasks -> Groups] /\ killing' \subseteq Tasks
  /\ passes' \in Nat /\ waiters' \in Seq(Tasks) /\ Lane(ph, passes', waiters')
  /\ recovery' \in {"ready", "failed"} /\ booting' \in BOOLEAN /\ writeFailed' \in BOOLEAN
  /\ draining' \in BOOLEAN /\ restarts' \in Nat
  /\ disk' \in [state : [Tasks -> States], position : [Tasks -> Nat]]
  /\ Placed(disk'.state, disk'.position)
  /\ \A t \in Tasks :
       /\ group'[t] = "live" => ph[t] \in {"agent", "command"}
       /\ group'[t] = "left" => t \in stop \cup killing'
       /\ ph[t] = "agent" /\ group'[t] # "none" => s[t] = "running" \/ t \in stop \cup killing'

LEMMA TurnStep ==
  ASSUME RunnerInv, NEW s, NEW ph, NEW stop, NEW drains, Releases(s, ph, stop),
         Turn(s, ph, stop, drains), Leaves(s, ph, stop)
  PROVE  RunnerInv'
<1>1. /\ state' \in [Tasks -> States] /\ position' \in [Tasks -> Nat]
      /\ phase' \in [Tasks -> Phases] /\ stopping' \subseteq Tasks
      /\ stopping' = stop
      /\ Placed(state', position') /\ Over' /\ Busy(state', phase')
      /\ Inside(phase') = Inside(ph) /\ Outside(phase') = Outside(ph)
      /\ \A t \in Tasks : /\ phase'[t] = ph[t] \/ (ph[t] = "none" /\ phase'[t] = "start")
                          /\ s[t] = "running" => state'[t] = "running"
  BY TurnKeeps
<1>2. TypeOK'
  BY <1>1 DEF TypeOK, Leaves
<1>3. Lane(phase', passes', waiters')
  BY <1>1 DEF Lane, Leaves
<1>4. Owned'
  <2> SUFFICES ASSUME NEW t \in Tasks
               PROVE  /\ group'[t] = "live" => Child(t)'
                      /\ group'[t] = "left" => t \in stopping' \cup killing'
                      /\ phase'[t] = "agent" /\ group'[t] # "none"
                           => Runs(t)' \/ t \in stopping' \cup killing'
    BY DEF Owned
  <2>1. group'[t] = "live" => Child(t)'
    BY <1>1 DEF Child, Leaves
  <2>2. phase'[t] = "agent" => ph[t] = "agent"
    BY <1>1
  <2>3. s[t] = "running" => Runs(t)'
    BY <1>1 DEF Runs
  <2>4. QED
    BY <1>1, <2>1, <2>2, <2>3 DEF Leaves
<1>5. QED
  BY <1>1, <1>2, <1>3, <1>4 DEF RunnerInv, Leaves

(* Settling a task that runs releases whatever its call still does.          *)
LEMMA SettleReleases ==
  ASSUME RunnerInv, NEW t \in Tasks, state[t] # "absent", NEW outcome \in Settled,
         NEW ph \in [Tasks -> Phases], Busy(state, ph)
  PROVE  Releases(As(t, outcome), ph, stopping)
<1>1. /\ As(t, outcome) \in [Tasks -> States]
      /\ As(t, outcome)[t] = outcome /\ \A u \in Tasks : u # t => As(t, outcome)[u] = state[u]
  BY DEF As, RunnerInv, TypeOK, States
<1>2. stopping \in SUBSET Tasks /\ \A u \in stopping : state[u] \in Settled
  BY DEF RunnerInv, TypeOK, Over
<1>3. Counted(As(t, outcome), stopping) \subseteq Held
  <2> SUFFICES ASSUME NEW u \in Counted(As(t, outcome), stopping) PROVE u \in Held
    OBVIOUS
  <2>1. CASE u = t
    BY <1>1, <2>1 DEF Counted, Held, Settled
  <2>2. CASE u # t
    BY <1>1, <2>2 DEF Counted, Held
  <2>3. QED
    BY <2>1, <2>2
<1>4. Busy(As(t, outcome), ph)
  BY <1>1 DEF Busy, Alive
<1>5. QED
  BY <1>1, <1>2, <1>3, <1>4 DEF Releases

(* Leaving the records alone releases nothing.                               *)
LEMMA StandReleases ==
  ASSUME RunnerInv, NEW stop \in SUBSET stopping
  PROVE  Releases(state, phase, stop)
<1>1. \A t \in stop : state[t] \in Settled
  BY DEF RunnerInv, Over
<1>2. Counted(state, stop) \subseteq Held
  BY DEF Counted, Held
<1>3. QED
  BY <1>1, <1>2 DEF Releases, RunnerInv, TypeOK

-----------------------------------------------------------------------------
(* The lane.                                                                 *)

LEMMA ListFacts ==
  ASSUME NEW list \in Seq(Tasks)
  PROVE  /\ Len(list) \in Nat /\ \A i \in 1 .. Len(list) : list[i] \in Tasks
         /\ list # <<>> => /\ Tail(list) \in Seq(Tasks) /\ Head(list) = list[1] /\ Len(list) > 0
                           /\ Len(Tail(list)) = Len(list) - 1
                           /\ \A i \in 1 .. Len(list) - 1 : Tail(list)[i] = list[i + 1]
         /\ \A t \in Tasks : /\ Append(list, t) \in Seq(Tasks) /\ Len(Append(list, t)) = Len(list) + 1
                             /\ Append(list, t)[Len(list) + 1] = t
                             /\ \A i \in 1 .. Len(list) : Append(list, t)[i] = list[i]
OBVIOUS

LEMMA LaneSets ==
  ASSUME NEW ph
  PROVE  /\ IsFiniteSet(Inside(ph)) /\ Cardinality(Inside(ph)) \in Nat
         /\ Inside(ph) \subseteq Tasks /\ Outside(ph) \subseteq Tasks
<1>1. Inside(ph) \in SUBSET Tasks /\ Outside(ph) \in SUBSET Tasks
  BY DEF Inside, Outside
<1>2. QED
  BY <1>1, Countable

(* A call that is neither inside nor waiting may do what keeps it so.        *)
LEMMA LaneUntouched ==
  ASSUME NEW p, NEW q, NEW a, NEW list, Lane(p, a, list),
         Inside(q) = Inside(p), Outside(q) = Outside(p)
  PROVE  Lane(q, a, list)
BY DEF Lane

LEMMA EnterLane ==
  ASSUME RunnerInv, NEW t \in Tasks, phase[t] = "agent", passes < MaxPasses
  PROVE  Lane(Goes(t, "entered"), passes + 1, waiters)
<1>1. Inside(Goes(t, "entered")) = Inside(phase) \cup {t} /\ t \notin Inside(phase)
  BY DEF Inside, Goes, RunnerInv, TypeOK
<1>2. Outside(Goes(t, "entered")) = Outside(phase)
  BY DEF Outside, Goes, RunnerInv, TypeOK
<1>3. Cardinality(Inside(phase) \cup {t}) = Cardinality(Inside(phase)) + 1
  BY <1>1, LaneSets, FS_AddElement
<1>4. passes \in Nat /\ MaxPasses \in Nat
  BY LimitsAssumption DEF RunnerInv, TypeOK
<1>5. /\ passes = Cardinality(Inside(phase))
      /\ Outside(phase) # {} => passes = MaxPasses
      /\ Outside(phase) = {waiters[i] : i \in 1 .. Len(waiters)}
      /\ \A i, j \in 1 .. Len(waiters) : i # j => waiters[i] # waiters[j]
  BY DEF RunnerInv, Lane
<1>6. Outside(phase) = {} /\ passes + 1 <= MaxPasses
  BY <1>4, <1>5
<1>7. passes + 1 = Cardinality(Inside(Goes(t, "entered")))
  BY <1>1, <1>3, <1>5
<1>8. QED
  BY <1>2, <1>5, <1>6, <1>7 DEF Lane

LEMMA WaitForLane ==
  ASSUME RunnerInv, NEW t \in Tasks, phase[t] = "agent", ~(passes < MaxPasses)
  PROVE  Lane(Goes(t, "lane"), passes, Append(waiters, t))
<1> DEFINE list == Append(waiters, t)
<1>1. Inside(Goes(t, "lane")) = Inside(phase)
  BY DEF Inside, Goes, RunnerInv, TypeOK
<1>2. Outside(Goes(t, "lane")) = Outside(phase) \cup {t} /\ t \notin Outside(phase)
  BY DEF Outside, Goes, RunnerInv, TypeOK
<1>3. passes \in Nat /\ MaxPasses \in Nat /\ waiters \in Seq(Tasks)
  BY LimitsAssumption DEF RunnerInv, TypeOK
<1>4. Lane(phase, passes, waiters)
  BY DEF RunnerInv
<1>5. /\ Len(list) = Len(waiters) + 1 /\ list[Len(waiters) + 1] = t /\ Len(waiters) \in Nat
      /\ \A i \in 1 .. Len(waiters) : list[i] = waiters[i]
  BY <1>3, ListFacts
<1> HIDE DEF list
<1>6. \A i \in 1 .. Len(list) : i \in 1 .. Len(waiters) \/ i = Len(waiters) + 1
  BY <1>5
<1>7. Outside(phase) \cup {t} = {list[i] : i \in 1 .. Len(list)}
  <2>1. Outside(phase) = {waiters[i] : i \in 1 .. Len(waiters)}
    BY <1>4 DEF Lane
  <2>2. \A i \in 1 .. Len(waiters) : i \in 1 .. Len(list)
    BY <1>5
  <2>3. Len(waiters) + 1 \in 1 .. Len(list)
    BY <1>5
  <2>4. QED
    BY <1>5, <1>6, <2>1, <2>2, <2>3
<1>8. \A i, j \in 1 .. Len(list) : i # j => list[i] # list[j]
  <2>1. \A i \in 1 .. Len(waiters) : waiters[i] \in Outside(phase)
    BY <1>4 DEF Lane
  <2>2. \A i, j \in 1 .. Len(waiters) : i # j => waiters[i] # waiters[j]
    BY <1>4 DEF Lane
  <2>3. QED
    BY <1>2, <1>5, <1>6, <2>1, <2>2
<1>9. passes <= MaxPasses /\ passes = MaxPasses /\ passes = Cardinality(Inside(phase))
  BY <1>3, <1>4 DEF Lane
<1>10. QED
  BY <1>1, <1>2, <1>7, <1>8, <1>9 DEF Lane, list

LEMMA LeaveLane ==
  ASSUME RunnerInv, NEW t \in Inside(phase), Release
  PROVE  /\ Lane(Left(t), passes', waiters') /\ passes' \in Nat /\ waiters' \in Seq(Tasks)
         /\ Left(t) \in [Tasks -> Phases] /\ Busy(state, Left(t))
         /\ \A u \in Tasks : Child(u) /\ u # t => Left(t)[u] = phase[u]
         /\ \A u \in Tasks : Left(t)[u] \in {"agent", "command"} => Left(t)[u] = phase[u]
<1>1. /\ passes \in Nat /\ MaxPasses \in Nat /\ waiters \in Seq(Tasks) /\ phase \in [Tasks -> Phases]
      /\ t \in Tasks
  BY LimitsAssumption DEF RunnerInv, TypeOK, Inside
<1>2. /\ passes = Cardinality(Inside(phase)) /\ passes <= MaxPasses
      /\ Outside(phase) = {waiters[i] : i \in 1 .. Len(waiters)}
      /\ \A i, j \in 1 .. Len(waiters) : i # j => waiters[i] # waiters[j]
      /\ Outside(phase) # {} => passes = MaxPasses
  BY DEF RunnerInv, Lane
<1>3. IsFiniteSet(Inside(phase)) /\ Cardinality(Inside(phase) \ {t}) = passes - 1
  BY <1>2, LaneSets, FS_RemoveElement
<1>4. Cardinality(Inside(phase) \ {t}) \in Nat
  <2>1. Inside(phase) \ {t} \in SUBSET Tasks
    BY LaneSets
  <2>2. QED
    BY <2>1, Countable
<1>5. CASE waiters = <<>>
  <2>1. Left(t) = [phase EXCEPT ![t] = "none"] /\ passes' = passes - 1 /\ waiters' = waiters
    BY <1>5 DEF Left, Goes, Release
  <2>2. Inside(Left(t)) = Inside(phase) \ {t} /\ Outside(Left(t)) = Outside(phase)
    BY <1>1, <2>1 DEF Inside, Outside
  <2>3. Outside(phase) = {}
    <3>1. 1 .. Len(waiters) = {}
      BY <1>5
    <3>2. QED
      BY <1>2, <3>1
  <2>4. passes' \in Nat /\ passes' <= MaxPasses
    BY <1>1, <1>2, <1>3, <1>4, <2>1
  <2>5. Lane(Left(t), passes', waiters')
    BY <1>2, <1>3, <2>1, <2>2, <2>3, <2>4 DEF Lane
  <2>6. Left(t) \in [Tasks -> Phases]
    BY <1>1, <2>1 DEF Phases
  <2>7. Busy(state, Left(t))
    BY <1>1, <2>1 DEF Busy, RunnerInv
  <2>8. \A u \in Tasks : /\ Child(u) /\ u # t => Left(t)[u] = phase[u]
                         /\ Left(t)[u] \in {"agent", "command"} => Left(t)[u] = phase[u]
    BY <1>1, <2>1
  <2>9. QED
    BY <1>1, <2>1, <2>4, <2>5, <2>6, <2>7, <2>8
<1>6. CASE waiters # <<>>
  <2> DEFINE h == waiters[1]
  <2>1. /\ Left(t) = [phase EXCEPT ![t] = "none", ![h] = "entered"]
        /\ passes' = passes /\ waiters' = Tail(waiters)
    BY <1>1, <1>6, ListFacts DEF Left, Release
  <2>2. h \in Outside(phase) /\ phase[h] = "lane" /\ h \in Tasks /\ h # t /\ Outside(phase) # {}
    <3>1. 1 \in 1 .. Len(waiters)
      BY <1>1, <1>6, ListFacts
    <3>2. QED
      BY <1>2, <3>1 DEF Outside, Inside
  <2> HIDE DEF h
  <2>3. Inside(Left(t)) = (Inside(phase) \ {t}) \cup {h} /\ h \notin Inside(phase)
    BY <1>1, <2>1, <2>2 DEF Inside
  <2>4. Outside(Left(t)) = Outside(phase) \ {h}
    BY <1>1, <2>1, <2>2 DEF Outside, Inside
  <2>5. Cardinality(Inside(Left(t))) = passes
    <3>1. IsFiniteSet(Inside(phase) \ {t}) /\ h \notin Inside(phase) \ {t}
      BY <1>3, <2>3, FS_RemoveElement
    <3>2. Cardinality(Inside(Left(t))) = Cardinality(Inside(phase) \ {t}) + 1
      BY <2>3, <3>1, FS_AddElement
    <3>3. QED
      BY <1>1, <1>3, <3>2
  <2>6. /\ Tail(waiters) \in Seq(Tasks) /\ Len(waiters) \in Nat /\ Len(waiters) > 0
        /\ Len(Tail(waiters)) = Len(waiters) - 1
        /\ \A i \in 1 .. Len(waiters) - 1 : Tail(waiters)[i] = waiters[i + 1]
    BY <1>1, <1>6, ListFacts
  <2>7. \A i \in 1 .. Len(waiters) - 1 : i + 1 \in 1 .. Len(waiters)
    BY <2>6
  <2>8. \A i, j \in 1 .. Len(waiters) - 1 : i # j => Tail(waiters)[i] # Tail(waiters)[j]
    <3> SUFFICES ASSUME NEW i \in 1 .. Len(waiters) - 1, NEW j \in 1 .. Len(waiters) - 1, i # j
                 PROVE  Tail(waiters)[i] # Tail(waiters)[j]
      OBVIOUS
    <3>1. i + 1 # j + 1 /\ i + 1 \in 1 .. Len(waiters) /\ j + 1 \in 1 .. Len(waiters)
      BY <2>7
    <3>2. QED
      BY <1>2, <2>6, <3>1
  <2>9. Outside(phase) \ {h} = {Tail(waiters)[i] : i \in 1 .. Len(waiters) - 1}
    <3>1. ASSUME NEW i \in 1 .. Len(waiters) - 1 PROVE waiters[i + 1] \in Outside(phase) \ {h}
      <4>1. i + 1 # 1 /\ i + 1 \in 1 .. Len(waiters) /\ 1 \in 1 .. Len(waiters)
        BY <2>6, <2>7
      <4>2. QED
        BY <1>2, <4>1 DEF h
    <3>2. ASSUME NEW u \in Outside(phase) \ {h}
          PROVE  \E i \in 1 .. Len(waiters) - 1 : u = Tail(waiters)[i]
      <4>1. PICK j \in 1 .. Len(waiters) : u = waiters[j]
        BY <1>2
      <4>2. j # 1
        BY <4>1 DEF h
      <4>3. j - 1 \in 1 .. Len(waiters) - 1 /\ (j - 1) + 1 = j
        BY <2>6, <4>2
      <4>4. QED
        BY <2>6, <4>1, <4>3
    <3>3. QED
      BY <2>6, <3>1, <3>2
  <2>10. Lane(Left(t), passes', waiters')
    <3>1. passes' = Cardinality(Inside(Left(t))) /\ passes' <= MaxPasses /\ passes' = MaxPasses
      BY <1>2, <2>1, <2>2, <2>5
    <3>2. Outside(Left(t)) = {waiters'[i] : i \in 1 .. Len(waiters')}
      BY <2>1, <2>4, <2>6, <2>9
    <3>3. \A i, j \in 1 .. Len(waiters') : i # j => waiters'[i] # waiters'[j]
      BY <2>1, <2>6, <2>8
    <3>4. QED
      BY <3>1, <3>2, <3>3 DEF Lane
  <2>11. Left(t) \in [Tasks -> Phases]
    BY <1>1, <2>1 DEF Phases
  <2>12. Busy(state, Left(t))
    BY <1>1, <2>1, <2>2 DEF Busy, RunnerInv
  <2>13. \A u \in Tasks : /\ Child(u) /\ u # t => Left(t)[u] = phase[u]
                          /\ Left(t)[u] \in {"agent", "command"} => Left(t)[u] = phase[u]
    BY <1>1, <2>1, <2>2 DEF Child
  <2>14. QED
    BY <1>1, <2>1, <2>6, <2>10, <2>11, <2>12, <2>13
<1>7. QED
  BY <1>5, <1>6

-----------------------------------------------------------------------------
(* One lemma per action.                                                     *)

LEMMA StoresKept ==
  ASSUME RunnerInv, UNCHANGED storeVars
  PROVE  /\ recovery' \in {"ready", "failed"} /\ booting' \in BOOLEAN /\ writeFailed' \in BOOLEAN
         /\ draining' \in BOOLEAN /\ restarts' \in Nat
         /\ disk' \in [state : [Tasks -> States], position : [Tasks -> Nat]]
         /\ Placed(disk'.state, disk'.position)
BY DEF RunnerInv, TypeOK, storeVars

LEMMA LaneKept ==
  ASSUME RunnerInv, UNCHANGED laneVars
  PROVE  passes' \in Nat /\ waiters' \in Seq(Tasks) /\ Lane(phase, passes', waiters')
BY DEF RunnerInv, TypeOK, laneVars

(* A call that stays out of the lane leaves it as it is.                     *)
LEMMA GoesOutside ==
  ASSUME RunnerInv, NEW t \in Tasks, NEW p \in Phases \ {"lane"},
         phase[t] \notin {"lane", "entered", "gate", "check", "arming", "command"},
         p \notin {"entered", "gate", "check", "arming", "command"}
  PROVE  Inside(Goes(t, p)) = Inside(phase) /\ Outside(Goes(t, p)) = Outside(phase)
BY DEF Inside, Outside, Goes, RunnerInv, TypeOK
LEMMA GoesInside ==
  ASSUME RunnerInv, NEW t \in Inside(phase),
         NEW p \in {"entered", "gate", "check", "arming", "command"}
  PROVE  Inside(Goes(t, p)) = Inside(phase) /\ Outside(Goes(t, p)) = Outside(phase)
BY DEF Inside, Outside, Goes, RunnerInv, TypeOK

LEMMA GoesType ==
  ASSUME RunnerInv, NEW t \in Tasks, NEW p \in Phases, p = "none" \/ state[t] \in Alive
  PROVE  /\ Goes(t, p) \in [Tasks -> Phases] /\ Busy(state, Goes(t, p))
         /\ Goes(t, p)[t] = p /\ \A u \in Tasks : u # t => Goes(t, p)[u] = phase[u]
BY DEF Goes, RunnerInv, TypeOK, Busy

(* A task is settled and its call ends, or goes on in the same phase.        *)
LEMMA SettleStep ==
  ASSUME RunnerInv, NEW t \in Tasks, state[t] # "absent", NEW outcome \in Settled,
         NEW ph \in [Tasks -> Phases], Busy(state, ph), Finish(t, outcome, ph),
         group' \in [Tasks -> Groups], killing' \subseteq Tasks,
         passes' \in Nat, waiters' \in Seq(Tasks), Lane(ph, passes', waiters'),
         UNCHANGED storeVars,
         \A u \in Tasks :
           /\ group'[u] = "live" => ph[u] \in {"agent", "command"}
           /\ group'[u] = "left" => u \in stopping \cup killing'
           /\ ph[u] = "agent" /\ group'[u] # "none"
                => (u # t /\ state[u] = "running") \/ u \in stopping \cup killing'
  PROVE  RunnerInv'
<1>1. Releases(As(t, outcome), ph, stopping)
  BY SettleReleases
<1>2. Turn(As(t, outcome), ph, stopping, Moves)
  BY DEF Finish
<1>3. \A u \in Tasks : u # t /\ state[u] = "running" => As(t, outcome)[u] = "running"
  BY DEF As, RunnerInv, TypeOK
<1>4. \A u \in Tasks :
        /\ group'[u] = "live" => ph[u] \in {"agent", "command"}
        /\ group'[u] = "left" => u \in stopping \cup killing'
        /\ ph[u] = "agent" /\ group'[u] # "none"
             => As(t, outcome)[u] = "running" \/ u \in stopping \cup killing'
  BY <1>3
<1>5. /\ recovery' \in {"ready", "failed"} /\ booting' \in BOOLEAN /\ writeFailed' \in BOOLEAN
      /\ draining' \in BOOLEAN /\ restarts' \in Nat
      /\ disk' \in [state : [Tasks -> States], position : [Tasks -> Nat]]
      /\ Placed(disk'.state, disk'.position)
  BY StoresKept
<1>6. Leaves(As(t, outcome), ph, stopping)
  BY <1>4, <1>5 DEF Leaves
<1>7. ASSUME NEW s, s = As(t, outcome), NEW drains, drains = Moves PROVE RunnerInv'
  <2>1. Releases(s, ph, stopping) /\ Turn(s, ph, stopping, drains) /\ Leaves(s, ph, stopping)
    BY <1>1, <1>2, <1>6, <1>7
  <2>2. QED
    BY <2>1, TurnStep
<1>8. QED
  BY <1>7

(* The records and the slots stay; only the calls, the groups or the lane    *)
(* change.                                                                   *)
LEMMA CallStep ==
  ASSUME RunnerInv, UNCHANGED <<state, position, stopping, storeVars>>,
         phase' \in [Tasks -> Phases], Busy(state, phase'),
         group' \in [Tasks -> Groups], killing' \subseteq Tasks,
         passes' \in Nat, waiters' \in Seq(Tasks), Lane(phase', passes', waiters'),
         \A u \in Tasks :
           /\ group'[u] = "live" => phase'[u] \in {"agent", "command"}
           /\ group'[u] = "left" => u \in stopping \cup killing'
           /\ phase'[u] = "agent" /\ group'[u] # "none"
                => state[u] = "running" \/ u \in stopping \cup killing'
  PROVE  RunnerInv'
<1>1. TypeOK'
  BY DEF RunnerInv, TypeOK, storeVars
<1>2. Placed(state', position') /\ Placed(disk'.state, disk'.position) /\ Over' /\ Busy(state', phase')
  BY DEF RunnerInv, storeVars, Over
<1>3. Owned'
  BY DEF Owned, Child, Runs
<1>4. QED
  BY <1>1, <1>2, <1>3 DEF RunnerInv

LEMMA TypeFacts ==
  ASSUME RunnerInv
  PROVE  /\ state \in [Tasks -> States] /\ phase \in [Tasks -> Phases]
         /\ group \in [Tasks -> Groups] /\ stopping \subseteq Tasks /\ killing \subseteq Tasks
         /\ Busy(state, phase) /\ \A t \in stopping : state[t] \in Settled
         /\ \A t \in Tasks :
              /\ group[t] = "live" => phase[t] \in {"agent", "command"}
              /\ group[t] = "left" => t \in stopping \cup killing
              /\ phase[t] = "agent" /\ group[t] # "none"
                   => state[t] = "running" \/ t \in stopping \cup killing
BY DEF RunnerInv, TypeOK, Over, Owned, Child, Runs

LEMMA CreateStep ==
  ASSUME RunnerInv, NEW t \in Tasks, Create(t)
  PROVE  RunnerInv'
<1>1. /\ state[t] = "absent" /\ phase[t] = "none" /\ t \notin stopping
  BY TypeFacts DEF Create, Busy, Alive, Settled
<1>2. UNCHANGED <<group, stopping, killing, laneVars, storeVars>>
  BY DEF Create
<1>3. CASE draining \/ ~Fits(t, Held)
  <2>1. /\ state' = [state EXCEPT ![t] = "queued"] /\ phase' = phase
        /\ position' = [position EXCEPT ![t] = NextPlace]
    BY <1>3 DEF Create
  <2>2. NextPlace \in Nat /\ \A u \in Queued(state) : position[u] < NextPlace
    BY NextPlaceIsLast DEF RunnerInv
  <2>3. TypeOK'
    BY <1>2, <2>1, <2>2 DEF RunnerInv, TypeOK, States, laneVars, storeVars
  <2>4. Placed(state', position')
    <3> SUFFICES ASSUME NEW a \in Queued(state'), NEW b \in Queued(state'), a # b
                 PROVE  position'[a] # position'[b]
      BY DEF Placed
    <3>1. /\ a # t => a \in Queued(state) /\ position'[a] = position[a]
          /\ b # t => b \in Queued(state) /\ position'[b] = position[b]
          /\ position'[t] = NextPlace
      BY <2>1 DEF Queued, RunnerInv, TypeOK
    <3>2. \A u \in Queued(state) : position[u] \in Nat
      BY DEF Queued, RunnerInv, TypeOK
    <3>3. CASE a # t /\ b # t
      BY <3>1, <3>3 DEF RunnerInv, Placed
    <3>4. CASE a = t \/ b = t
      BY <2>2, <3>1, <3>2, <3>4
    <3>5. QED
      BY <3>3, <3>4
  <2>5. Over' /\ Busy(state', phase') /\ Owned'
    BY <1>1, <1>2, <2>1, TypeFacts DEF Over, Busy, Owned, Child, Runs
  <2>6. QED
    BY <1>2, <2>1, <2>3, <2>4, <2>5 DEF RunnerInv, laneVars, storeVars
<1>4. CASE ~(draining \/ ~Fits(t, Held))
  <2>1. /\ state' = [state EXCEPT ![t] = "running"] /\ phase' = Goes(t, "start")
        /\ position' = position
    BY <1>4 DEF Create, Goes
  <2>2. Inside(phase') = Inside(phase) /\ Outside(phase') = Outside(phase)
    BY <1>1, <2>1, GoesOutside DEF Phases
  <2>3. TypeOK'
    BY <1>2, <2>1, GoesType DEF RunnerInv, TypeOK, States, Phases, Goes, laneVars, storeVars
  <2>4. Queued(state') = Queued(state)
    BY <1>1, <2>1 DEF Queued, RunnerInv, TypeOK
  <2>5. Over' /\ Busy(state', phase') /\ Owned'
    BY <1>1, <1>2, <2>1, TypeFacts DEF Over, Busy, Owned, Child, Runs, Goes, Alive
  <2>6. Lane(phase', passes', waiters')
    BY <1>2, <2>2 DEF RunnerInv, Lane, laneVars
  <2>7. QED
    BY <1>2, <2>1, <2>3, <2>4, <2>5, <2>6 DEF RunnerInv, Placed, storeVars
<1>5. QED
  BY <1>3, <1>4

LEMMA ReorderStep ==
  ASSUME RunnerInv, NEW t \in Tasks, NEW u \in Tasks, Reorder(t, u)
  PROVE  RunnerInv'
<1> DEFINE place == [position EXCEPT ![t] = position[u], ![u] = position[t]]
<1>1. UNCHANGED <<state, procVars, laneVars, storeVars>>
  BY DEF Reorder
<1>2. position' = Renumbered(state, place)
  BY DEF Reorder
<1>3. place \in [Tasks -> Nat] /\ state \in [Tasks -> States]
  BY DEF RunnerInv, TypeOK
<1>4. Placed(state, place)
  BY DEF Reorder, RunnerInv, TypeOK, Placed, Queued
<1> HIDE DEF place
<1>5. position' \in [Tasks -> Nat] /\ Placed(state, position')
  BY <1>2, <1>3, <1>4, RenumberedPlaces
<1>6. TypeOK'
  BY <1>1, <1>5 DEF RunnerInv, TypeOK, procVars, laneVars, storeVars
<1>7. QED
  BY <1>1, <1>5, <1>6
     DEF RunnerInv, procVars, laneVars, storeVars, Over, Busy, Owned, Child, Runs

LEMMA CannotRunStep ==
  ASSUME RunnerInv, NEW t \in Tasks, CannotRun(t)
  PROVE  RunnerInv'
<1>1. /\ phase[t] = "start" /\ state[t] = "running" /\ Finish(t, "finished", Goes(t, "none"))
      /\ UNCHANGED <<group, killing, laneVars, storeVars>>
  BY DEF CannotRun, Runs
<1>2. /\ Goes(t, "none") \in [Tasks -> Phases] /\ Busy(state, Goes(t, "none"))
      /\ Goes(t, "none")[t] = "none" /\ \A u \in Tasks : u # t => Goes(t, "none")[u] = phase[u]
  BY GoesType DEF Phases
<1>3. Inside(Goes(t, "none")) = Inside(phase) /\ Outside(Goes(t, "none")) = Outside(phase)
  BY <1>1, GoesOutside DEF Phases
<1>4. Lane(Goes(t, "none"), passes', waiters') /\ passes' \in Nat /\ waiters' \in Seq(Tasks)
  BY <1>1, <1>3, LaneKept, LaneUntouched
<1>5. \A u \in Tasks :
        /\ group'[u] = "live" => Goes(t, "none")[u] \in {"agent", "command"}
        /\ group'[u] = "left" => u \in stopping \cup killing'
        /\ Goes(t, "none")[u] = "agent" /\ group'[u] # "none"
             => (u # t /\ state[u] = "running") \/ u \in stopping \cup killing'
  BY <1>1, <1>2, TypeFacts
<1>6. "finished" \in Settled /\ state[t] # "absent"
  BY <1>1 DEF Settled
<1>7. group' \in [Tasks -> Groups] /\ killing' \subseteq Tasks
  BY <1>1, TypeFacts
<1>8. QED
  BY <1>1, <1>2, <1>4, <1>5, <1>6, <1>7, SettleStep

(* One call goes on, outside the lane or inside it, with its own group.      *)
LEMMA CallGoes ==
  ASSUME RunnerInv, NEW t \in Tasks, NEW p \in Phases, NEW g \in Groups,
         UNCHANGED <<state, position, stopping, laneVars, storeVars>>,
         phase' = Goes(t, p), group' = [group EXCEPT ![t] = g],
         killing \ {t} \subseteq killing', killing' \subseteq Tasks,
         Inside(Goes(t, p)) = Inside(phase), Outside(Goes(t, p)) = Outside(phase),
         p = "none" \/ state[t] \in Alive,
         g = "live" => p \in {"agent", "command"},
         g = "left" => t \in stopping \cup killing',
         p = "agent" /\ g # "none" => state[t] = "running" \/ t \in stopping \cup killing'
  PROVE  RunnerInv'
<1>1. /\ phase' \in [Tasks -> Phases] /\ Busy(state, phase')
      /\ phase'[t] = p /\ \A u \in Tasks : u # t => phase'[u] = phase[u]
  BY GoesType
<1>2. passes' \in Nat /\ waiters' \in Seq(Tasks) /\ Lane(phase', passes', waiters')
  BY LaneKept, LaneUntouched
<1>3. /\ group' \in [Tasks -> Groups] /\ group'[t] = g
      /\ \A u \in Tasks : u # t => group'[u] = group[u]
  BY TypeFacts
<1>4. \A u \in Tasks :
        /\ group'[u] = "live" => phase'[u] \in {"agent", "command"}
        /\ group'[u] = "left" => u \in stopping \cup killing'
        /\ phase'[u] = "agent" /\ group'[u] # "none"
             => state[u] = "running" \/ u \in stopping \cup killing'
  BY <1>1, <1>3, TypeFacts
<1>5. QED
  BY <1>1, <1>2, <1>3, <1>4, CallStep

LEMMA SameGroup == ASSUME RunnerInv, NEW t \in Tasks PROVE group = [group EXCEPT ![t] = group[t]]
BY TypeFacts

LEMMA SpawnStep ==
  ASSUME RunnerInv, NEW t \in Tasks, Spawn(t)
  PROVE  RunnerInv'
<1>1. /\ phase[t] = "start" /\ killing' = killing
      /\ UNCHANGED <<state, position, stopping, laneVars, storeVars>>
  BY DEF Spawn
<1>2. \A p \in {"agent", "none"} :
        Inside(Goes(t, p)) = Inside(phase) /\ Outside(Goes(t, p)) = Outside(phase)
  BY <1>1, GoesOutside DEF Phases
<1>3. CASE state[t] = "running"
  <2>1. phase' = Goes(t, "agent") /\ group' = [group EXCEPT ![t] = "live"]
    BY <1>3 DEF Spawn, Runs
  <2>2. QED
    BY <1>1, <1>2, <1>3, <2>1, CallGoes, TypeFacts DEF Phases, Groups, Alive
<1>4. CASE state[t] # "running"
  <2>1. phase' = Goes(t, "none") /\ group' = group
    BY <1>4 DEF Spawn, Runs
  <2>2. group[t] \in Groups /\ group[t] # "live" /\ group[t] = "left" => t \in stopping \cup killing
    BY <1>1, TypeFacts
  <2>3. QED
    BY <1>1, <1>2, <2>1, <2>2, CallGoes, SameGroup, TypeFacts DEF Phases
<1>5. QED
  BY <1>3, <1>4

LEMMA AgentClosesStep ==
  ASSUME RunnerInv, NEW t \in Tasks, AgentCloses(t)
  PROVE  RunnerInv'
<1>1. /\ phase[t] = "agent" /\ state[t] \in Alive /\ UNCHANGED storeVars
  BY TypeFacts DEF AgentCloses, Busy
<1>2. PICK g \in {"none", "left"} :
        /\ g = "left" => group[t] = "live" /\ (state[t] = "cancelled" \/ t \in stopping)
        /\ group' = [group EXCEPT ![t] = g]
        /\ killing' = IF g = "none" THEN killing \ {t} ELSE killing
  BY DEF AgentCloses
<1>3. /\ killing' \subseteq Tasks /\ killing \ {t} \subseteq killing'
      /\ g = "left" => t \in stopping \cup killing'
      /\ state[t] = "running" => g = "none"
  <2>1. killing' \subseteq Tasks /\ killing \ {t} \subseteq killing'
    BY <1>2, TypeFacts
  <2>2. g = "left" => state[t] # "running" /\ t \in stopping \cup killing /\ killing' = killing
    BY <1>1, <1>2, TypeFacts DEF Settled
  <2>3. QED
    BY <2>1, <2>2, <1>2
<1>4. \A p \in {"none", "explain"} :
        Inside(Goes(t, p)) = Inside(phase) /\ Outside(Goes(t, p)) = Outside(phase)
  BY <1>1, GoesOutside DEF Phases
<1>5. \A p \in Phases \ {"agent"} : \A u \in Tasks :
        /\ group'[u] = "live" => Goes(t, p)[u] \in {"agent", "command"}
        /\ group'[u] = "left" => u \in stopping \cup killing'
        /\ Goes(t, p)[u] = "agent" /\ group'[u] # "none"
             => (u # t /\ state[u] = "running") \/ u \in stopping \cup killing'
  <2> SUFFICES ASSUME NEW p \in Phases \ {"agent"}, NEW u \in Tasks
               PROVE  /\ group'[u] = "live" => Goes(t, p)[u] \in {"agent", "command"}
                      /\ group'[u] = "left" => u \in stopping \cup killing'
                      /\ Goes(t, p)[u] = "agent" /\ group'[u] # "none"
                           => (u # t /\ state[u] = "running") \/ u \in stopping \cup killing'
    OBVIOUS
  <2>1. CASE u = t
    BY <1>2, <1>3, <2>1, TypeFacts DEF Goes
  <2>2. CASE u # t
    BY <1>2, <1>3, <2>2, TypeFacts DEF Goes
  <2>3. QED
    BY <2>1, <2>2
<1>6. group' \in [Tasks -> Groups]
  BY <1>2, TypeFacts DEF Groups
<1>7. ASSUME state[t] # "running", phase' = Goes(t, "none"), UNCHANGED <<state, position, stopping, laneVars>>
      PROVE  RunnerInv'
  BY <1>1, <1>2, <1>3, <1>4, <1>7, CallGoes DEF Phases, Groups
<1>8. ASSUME state[t] = "running", Finish(t, "finished", Goes(t, "none")), UNCHANGED laneVars
      PROVE  RunnerInv'
  <2>1. Goes(t, "none") \in [Tasks -> Phases] /\ Busy(state, Goes(t, "none"))
    BY GoesType DEF Phases
  <2>2. passes' \in Nat /\ waiters' \in Seq(Tasks) /\ Lane(Goes(t, "none"), passes', waiters')
    BY <1>4, <1>8, LaneKept, LaneUntouched
  <2>3. "finished" \in Settled /\ state[t] # "absent" /\ "none" \in Phases \ {"agent"}
    BY <1>8 DEF Settled, Phases
  <2>4. QED
    BY <1>1, <1>3, <1>5, <1>6, <1>8, <2>1, <2>2, <2>3, SettleStep
<1>9. ASSUME state[t] = "running", phase' = Goes(t, "explain"),
             UNCHANGED <<state, position, stopping, laneVars>>
      PROVE  RunnerInv'
  BY <1>1, <1>2, <1>3, <1>4, <1>9, CallGoes DEF Phases, Groups
<1>10. ASSUME state[t] = "running", passes < MaxPasses, passes' = passes + 1,
              phase' = Goes(t, "entered"), UNCHANGED <<waiters, state, position, stopping>>
       PROVE  RunnerInv'
  <2>1. phase' \in [Tasks -> Phases] /\ Busy(state, phase')
    BY <1>1, <1>10, GoesType DEF Phases
  <2>2. passes' \in Nat /\ waiters' \in Seq(Tasks) /\ Lane(phase', passes', waiters')
    BY <1>1, <1>10, EnterLane DEF RunnerInv, TypeOK
  <2>3. "entered" \in Phases \ {"agent"}
    BY DEF Phases
  <2>4. QED
    BY <1>1, <1>3, <1>5, <1>6, <1>10, <2>1, <2>2, <2>3, CallStep
<1>11. ASSUME state[t] = "running", ~(passes < MaxPasses), waiters' = Append(waiters, t),
              phase' = Goes(t, "lane"), UNCHANGED <<passes, state, position, stopping>>
       PROVE  RunnerInv'
  <2>1. phase' \in [Tasks -> Phases] /\ Busy(state, phase')
    BY <1>1, <1>11, GoesType DEF Phases
  <2>2. passes' \in Nat /\ waiters' \in Seq(Tasks) /\ Lane(phase', passes', waiters')
    BY <1>1, <1>11, WaitForLane, ListFacts DEF RunnerInv, TypeOK
  <2>3. "lane" \in Phases \ {"agent"}
    BY DEF Phases
  <2>4. QED
    BY <1>1, <1>3, <1>5, <1>6, <1>11, <2>1, <2>2, <2>3, CallStep
<1>12. QED
  BY <1>7, <1>8, <1>9, <1>10, <1>11 DEF AgentCloses, Runs

LEMMA ExplainedStep ==
  ASSUME RunnerInv, NEW t \in Tasks, Explained(t)
  PROVE  RunnerInv'
<1>1. phase[t] = "explain" /\ UNCHANGED <<group, killing, laneVars, storeVars>>
  BY DEF Explained
<1>2. /\ Goes(t, "none") \in [Tasks -> Phases] /\ Busy(state, Goes(t, "none"))
      /\ Goes(t, "none")[t] = "none" /\ \A u \in Tasks : u # t => Goes(t, "none")[u] = phase[u]
  BY GoesType DEF Phases
<1>3. Inside(Goes(t, "none")) = Inside(phase) /\ Outside(Goes(t, "none")) = Outside(phase)
  BY <1>1, GoesOutside DEF Phases
<1>4. Lane(Goes(t, "none"), passes', waiters') /\ passes' \in Nat /\ waiters' \in Seq(Tasks)
  BY <1>1, <1>3, LaneKept, LaneUntouched
<1>5. \A u \in Tasks :
        /\ group'[u] = "live" => Goes(t, "none")[u] \in {"agent", "command"}
        /\ group'[u] = "left" => u \in stopping \cup killing'
        /\ Goes(t, "none")[u] = "agent" /\ group'[u] # "none"
             => (u # t /\ state[u] = "running") \/ u \in stopping \cup killing'
  BY <1>1, <1>2, TypeFacts
<1>6. group' \in [Tasks -> Groups] /\ killing' \subseteq Tasks
  BY <1>1, TypeFacts
<1>7. CASE state[t] = "running"
  <2>1. Finish(t, "finished", Goes(t, "none")) /\ "finished" \in Settled /\ state[t] # "absent"
    BY <1>7 DEF Explained, Runs, Settled
  <2>2. QED
    BY <1>1, <1>2, <1>4, <1>5, <1>6, <2>1, SettleStep
<1>8. CASE state[t] # "running"
  <2>1. phase' = Goes(t, "none") /\ UNCHANGED <<state, position, stopping>>
    BY <1>8 DEF Explained, Runs
  <2>2. QED
    BY <1>1, <1>2, <1>4, <1>5, <1>6, <2>1, CallStep
<1>9. QED
  BY <1>7, <1>8

(* A call leaves the lane, with or without an outcome for its task.          *)
LEMMA LeaveFacts ==
  ASSUME RunnerInv, NEW t \in Tasks, phase[t] \in {"entered", "gate", "check"}, Release,
         UNCHANGED <<group, killing>>
  PROVE  /\ Left(t) \in [Tasks -> Phases] /\ Busy(state, Left(t))
         /\ Lane(Left(t), passes', waiters') /\ passes' \in Nat /\ waiters' \in Seq(Tasks)
         /\ group' \in [Tasks -> Groups] /\ killing' \subseteq Tasks
         /\ \A u \in Tasks :
              /\ group'[u] = "live" => Left(t)[u] \in {"agent", "command"}
              /\ group'[u] = "left" => u \in stopping \cup killing'
              /\ Left(t)[u] = "agent" /\ group'[u] # "none"
                   => (u # t /\ state[u] = "running") \/ u \in stopping \cup killing'
<1>1. t \in Inside(phase)
  BY DEF Inside
<1>2. /\ Lane(Left(t), passes', waiters') /\ passes' \in Nat /\ waiters' \in Seq(Tasks)
      /\ Left(t) \in [Tasks -> Phases] /\ Busy(state, Left(t))
      /\ \A u \in Tasks : Child(u) /\ u # t => Left(t)[u] = phase[u]
      /\ \A u \in Tasks : Left(t)[u] \in {"agent", "command"} => Left(t)[u] = phase[u]
  BY <1>1, LeaveLane
<1>3. \A u \in Tasks :
        /\ group'[u] = "live" => Left(t)[u] \in {"agent", "command"}
        /\ group'[u] = "left" => u \in stopping \cup killing'
        /\ Left(t)[u] = "agent" /\ group'[u] # "none"
             => (u # t /\ state[u] = "running") \/ u \in stopping \cup killing'
  BY <1>2, TypeFacts DEF Child
<1>4. QED
  BY <1>2, <1>3, TypeFacts

LEMMA LeaveStep ==
  ASSUME RunnerInv, NEW t \in Tasks, phase[t] \in {"entered", "gate", "check"},
         Leave(t), UNCHANGED <<group, killing, storeVars>>
  PROVE  RunnerInv'
<1>1. Release /\ phase' = Left(t) /\ UNCHANGED <<state, position, stopping>>
  BY DEF Leave
<1>2. QED
  BY <1>1, LeaveFacts, CallStep

LEMMA LeaveSettledStep ==
  ASSUME RunnerInv, NEW t \in Tasks, phase[t] \in {"entered", "gate", "check"},
         state[t] # "absent", Finish(t, "finished", Left(t)), Release,
         UNCHANGED <<group, killing, storeVars>>
  PROVE  RunnerInv'
<1>1. "finished" \in Settled
  BY DEF Settled
<1>2. QED
  BY <1>1, LeaveFacts, SettleStep

LEMMA LaneSteps ==
  ASSUME RunnerInv, NEW t \in Tasks,
         Enter(t) \/ FoundEmpty(t) \/ FoundWork(t) \/ Command(t) \/ RunCommand(t)
           \/ CommandCloses(t) \/ Judge(t)
  PROVE  RunnerInv'
<1>1. ASSUME phase[t] \in {"entered", "gate", "check", "arming", "command"}
      PROVE  /\ \A p \in {"entered", "gate", "check", "arming", "command"} :
                  Inside(Goes(t, p)) = Inside(phase) /\ Outside(Goes(t, p)) = Outside(phase)
             /\ state[t] \in Alive
             /\ group[t] \in Groups /\ group[t] = "left" => t \in stopping \cup killing
  <2>1. t \in Inside(phase)
    BY <1>1 DEF Inside
  <2>2. QED
    BY <1>1, <2>1, GoesInside, TypeFacts DEF Busy
<1>2. CASE Enter(t)
  <2>1. phase[t] = "entered" /\ UNCHANGED <<group, killing, storeVars>>
    BY <1>2 DEF Enter
  <2>2. CASE Runs(t)
    <3>1. phase' = Goes(t, "gate") /\ UNCHANGED <<state, position, stopping, laneVars>>
      BY <1>2, <2>2 DEF Enter
    <3>2. group[t] # "live"
      BY <2>1, TypeFacts
    <3>3. QED
      BY <1>1, <2>1, <3>1, <3>2, CallGoes, SameGroup, TypeFacts DEF Phases
  <2>3. CASE ~Runs(t)
    BY <1>2, <2>1, <2>3, LeaveStep DEF Enter
  <2>4. QED
    BY <2>2, <2>3
<1>3. CASE FoundEmpty(t)
  <2>1. phase[t] = "gate" /\ UNCHANGED <<group, killing, storeVars>>
    BY <1>3 DEF FoundEmpty
  <2>2. QED
    BY <1>3, <2>1, LeaveStep, LeaveSettledStep DEF FoundEmpty
<1>4. CASE FoundWork(t)
  <2>1. /\ phase[t] = "gate" /\ phase' = Goes(t, "check")
        /\ UNCHANGED <<state, position, stopping, group, killing, laneVars, storeVars>>
    BY <1>4 DEF FoundWork
  <2>2. group[t] # "live"
    BY <2>1, TypeFacts
  <2>3. QED
    BY <1>1, <2>1, <2>2, CallGoes, SameGroup, TypeFacts DEF Phases
<1>5. CASE Command(t)
  <2>1. /\ phase[t] = "check" /\ phase' = Goes(t, "arming")
        /\ UNCHANGED <<state, position, stopping, group, killing, laneVars, storeVars>>
    BY <1>5 DEF Command
  <2>2. group[t] # "live"
    BY <2>1, TypeFacts
  <2>3. QED
    BY <1>1, <2>1, <2>2, CallGoes, SameGroup, TypeFacts DEF Phases
<1>6. CASE RunCommand(t)
  <2>1. phase[t] = "arming" /\ UNCHANGED <<state, position, stopping, killing, laneVars, storeVars>>
    BY <1>6 DEF RunCommand
  <2>2. CASE phase' = Goes(t, "command") /\ group' = [group EXCEPT ![t] = "live"]
    BY <1>1, <2>1, <2>2, CallGoes, TypeFacts DEF Phases, Groups
  <2>3. CASE phase' = Goes(t, "check") /\ UNCHANGED group
    <3>1. group[t] # "live"
      BY <2>1, TypeFacts
    <3>2. QED
      BY <1>1, <2>1, <2>3, <3>1, CallGoes, SameGroup, TypeFacts DEF Phases
  <2>4. QED
    BY <1>6, <2>2, <2>3 DEF RunCommand
<1>7. CASE CommandCloses(t)
  <2>1. /\ phase[t] = "command" /\ phase' = Goes(t, "check") /\ group' = [group EXCEPT ![t] = "none"]
        /\ killing' = killing \ {t} /\ UNCHANGED <<state, position, stopping, laneVars, storeVars>>
    BY <1>7 DEF CommandCloses
  <2>2. killing' \subseteq Tasks /\ killing \ {t} \subseteq killing'
    BY <2>1, TypeFacts
  <2>3. QED
    BY <1>1, <2>1, <2>2, CallGoes DEF Phases, Groups
<1>8. CASE Judge(t)
  <2>1. phase[t] = "check" /\ UNCHANGED <<group, killing, storeVars>>
    BY <1>8 DEF Judge
  <2>2. Runs(t) => state[t] # "absent"
    BY DEF Runs
  <2>3. QED
    BY <1>8, <2>1, <2>2, LeaveStep, LeaveSettledStep DEF Judge
<1>9. QED
  BY <1>2, <1>3, <1>4, <1>5, <1>6, <1>7, <1>8

LEMMA StopStep ==
  ASSUME RunnerInv, NEW t \in Tasks, NEW outcome \in {"cancelled", "interrupted"}, Stop(t, outcome)
  PROVE  RunnerInv'
<1> DEFINE stop == IF Child(t) THEN stopping \cup {t} ELSE stopping
           s == As(t, outcome)
<1>1. /\ state[t] \in {"queued", "running"} /\ UNCHANGED <<group, killing, laneVars, storeVars>>
      /\ Turn(s, phase, stop, Moves /\ (outcome = "interrupted" \/ ~Child(t)))
  BY DEF Stop
<1>2. outcome \in Settled /\ state[t] # "absent"
  BY <1>1 DEF Settled
<1>3. Releases(s, phase, stopping)
  BY <1>2, SettleReleases, TypeFacts
<1>4. Child(t) => state[t] = "running"
  BY <1>1, TypeFacts DEF Child, Busy, Alive, Settled
<1>5. s[t] = outcome /\ \A u \in Tasks : u # t => s[u] = state[u]
  BY TypeFacts DEF As
<1>6. Counted(s, stop) \subseteq Held
  <2>1. Counted(s, stop) \subseteq Counted(s, stopping) \cup (IF Child(t) THEN {t} ELSE {})
    BY DEF Counted
  <2>2. Child(t) => t \in Held
    BY <1>4 DEF Held, Counted
  <2>3. QED
    BY <1>3, <2>1, <2>2 DEF Releases
<1>7. Releases(s, phase, stop)
  <2>1. stop \in SUBSET Tasks /\ \A u \in stop : s[u] \in Settled
    BY <1>2, <1>3, <1>5 DEF Releases
  <2>2. QED
    BY <1>3, <1>6, <2>1 DEF Releases
<1>8. /\ group' \in [Tasks -> Groups] /\ killing' \subseteq Tasks
      /\ passes' \in Nat /\ waiters' \in Seq(Tasks) /\ Lane(phase, passes', waiters')
  BY <1>1, LaneKept, TypeFacts
<1>9. \A u \in Tasks :
        /\ group'[u] = "live" => phase[u] \in {"agent", "command"}
        /\ group'[u] = "left" => u \in stop \cup killing'
        /\ phase[u] = "agent" /\ group'[u] # "none" => s[u] = "running" \/ u \in stop \cup killing'
  BY <1>1, <1>5, TypeFacts DEF Child
<1>10. /\ recovery' \in {"ready", "failed"} /\ booting' \in BOOLEAN /\ writeFailed' \in BOOLEAN
       /\ draining' \in BOOLEAN /\ restarts' \in Nat
       /\ disk' \in [state : [Tasks -> States], position : [Tasks -> Nat]]
       /\ Placed(disk'.state, disk'.position)
  BY <1>1, StoresKept
<1> HIDE DEF stop, s
<1>11. Leaves(s, phase, stop)
  BY <1>8, <1>9, <1>10 DEF Leaves
<1>12. ASSUME NEW ph, ph = phase, NEW drains,
              drains = (Moves /\ (outcome = "interrupted" \/ ~Child(t)))
       PROVE  RunnerInv'
  <2>1. Releases(s, ph, stop) /\ Turn(s, ph, stop, drains) /\ Leaves(s, ph, stop)
    BY <1>1, <1>7, <1>11, <1>12
  <2>2. QED
    BY <2>1, TurnStep
<1>13. QED
  BY <1>12

LEMMA QuitStep ==
  ASSUME RunnerInv, NEW t \in Tasks, NEW outcome \in {"interrupted", "finished"}, Quit(t, outcome)
  PROVE  RunnerInv'
<1>1. /\ phase[t] = "agent" /\ state[t] = "running" /\ Finish(t, outcome, phase)
      /\ killing' = killing \cup {t} /\ UNCHANGED <<group, laneVars, storeVars>>
  BY DEF Quit, Runs
<1>2. /\ group' \in [Tasks -> Groups] /\ killing' \subseteq Tasks
      /\ passes' \in Nat /\ waiters' \in Seq(Tasks) /\ Lane(phase, passes', waiters')
  BY <1>1, LaneKept, TypeFacts
<1>3. \A u \in Tasks :
        /\ group'[u] = "live" => phase[u] \in {"agent", "command"}
        /\ group'[u] = "left" => u \in stopping \cup killing'
        /\ phase[u] = "agent" /\ group'[u] # "none"
             => (u # t /\ state[u] = "running") \/ u \in stopping \cup killing'
  BY <1>1, TypeFacts
<1>4. outcome \in Settled /\ state[t] # "absent" /\ phase \in [Tasks -> Phases] /\ Busy(state, phase)
  BY <1>1, TypeFacts DEF Settled
<1>5. QED
  BY <1>1, <1>2, <1>3, <1>4, SettleStep

LEMMA KillSteps ==
  ASSUME RunnerInv, NEW t \in Tasks, StopAgain(t) \/ Killed(t)
  PROVE  RunnerInv'
<1>1. /\ UNCHANGED <<state, position, phase, stopping, laneVars, storeVars>>
      /\ phase' = Goes(t, phase[t]) /\ phase[t] \in Phases /\ group[t] \in Groups
      /\ (phase[t] = "none" \/ state[t] \in Alive)
  BY TypeFacts DEF StopAgain, Killed, Goes, Busy
<1>2. Inside(Goes(t, phase[t])) = Inside(phase) /\ Outside(Goes(t, phase[t])) = Outside(phase)
  BY TypeFacts DEF Inside, Outside, Goes
<1>3. CASE StopAgain(t)
  <2>1. killing' = killing \cup {t} /\ group' = group
    BY <1>3 DEF StopAgain
  <2>2. killing' \subseteq Tasks /\ killing \ {t} \subseteq killing'
    BY <2>1, TypeFacts
  <2>3. QED
    BY <1>1, <1>2, <2>1, <2>2, CallGoes, SameGroup, TypeFacts
<1>4. CASE Killed(t)
  <2>1. killing' = killing \ {t} /\ group' = [group EXCEPT ![t] = "none"]
    BY <1>4 DEF Killed
  <2>2. killing' \subseteq Tasks /\ killing \ {t} \subseteq killing'
    BY <2>1, TypeFacts
  <2>3. QED
    BY <1>1, <1>2, <2>1, <2>2, CallGoes DEF Groups
<1>5. QED
  BY <1>3, <1>4

(* The rest of a step that changes no record before its turn.                *)
LEMMA StandStep ==
  ASSUME RunnerInv, NEW stop \in SUBSET stopping, NEW drains, Turn(state, phase, stop, drains),
         group' \in [Tasks -> Groups], UNCHANGED <<killing, laneVars>>,
         \A u \in Tasks :
           (group'[u] = group[u] /\ (u \in stopping => u \in stop)) \/ group'[u] = "none",
         recovery' \in {"ready", "failed"}, booting' \in BOOLEAN, writeFailed' \in BOOLEAN,
         draining' \in BOOLEAN, restarts' \in Nat,
         disk' \in [state : [Tasks -> States], position : [Tasks -> Nat]],
         Placed(disk'.state, disk'.position)
  PROVE  RunnerInv'
<1>1. Releases(state, phase, stop)
  BY StandReleases
<1>2. /\ killing' \subseteq Tasks /\ killing' = killing
      /\ passes' \in Nat /\ waiters' \in Seq(Tasks) /\ Lane(phase, passes', waiters')
  BY LaneKept, TypeFacts
<1>3. \A u \in Tasks :
        /\ group'[u] = "live" => phase[u] \in {"agent", "command"}
        /\ group'[u] = "left" => u \in stop \cup killing'
        /\ phase[u] = "agent" /\ group'[u] # "none" => state[u] = "running" \/ u \in stop \cup killing'
  BY <1>2, TypeFacts
<1>4. Leaves(state, phase, stop)
  BY <1>2, <1>3 DEF Leaves
<1>5. ASSUME NEW s, NEW ph, s = state, ph = phase PROVE RunnerInv'
  <2>1. Releases(s, ph, stop) /\ Turn(s, ph, stop, drains) /\ Leaves(s, ph, stop)
    BY <1>1, <1>4, <1>5
  <2>2. QED
    BY <2>1, TurnStep
<1>6. QED
  BY <1>5

LEMMA DiskFacts ==
  ASSUME RunnerInv
  PROVE  /\ [state |-> state, position |-> position]
              \in [state : [Tasks -> States], position : [Tasks -> Nat]]
         /\ Blank \in [state : [Tasks -> States], position : [Tasks -> Nat]]
         /\ Placed(Blank.state, Blank.position)
         /\ Placed([state |-> state, position |-> position].state,
                   [state |-> state, position |-> position].position)
         /\ disk \in [state : [Tasks -> States], position : [Tasks -> Nat]]
         /\ Placed(disk.state, disk.position)
         /\ recovery \in {"ready", "failed"} /\ booting \in BOOLEAN /\ writeFailed \in BOOLEAN
         /\ draining \in BOOLEAN /\ restarts \in Nat
<1>1. Blank \in [state : [Tasks -> States], position : [Tasks -> Nat]]
  BY DEF Blank, States
<1>2. Placed(Blank.state, Blank.position)
  BY DEF Blank, Placed, Queued
<1>3. QED
  BY <1>1, <1>2 DEF RunnerInv, TypeOK

LEMMA StoreSteps ==
  ASSUME RunnerInv, WriteIndex \/ SetDraining \/ Boot \/ \E t \in Tasks : GraceEnds(t)
  PROVE  RunnerInv'
<1>1. stopping \in SUBSET stopping
  OBVIOUS
<1>2. CASE WriteIndex
  <2>1. /\ disk' = IF restarts = MaxRestarts THEN Blank ELSE [state |-> state, position |-> position]
        /\ writeFailed' = FALSE /\ Turn(state, phase, stopping, writeFailed /\ ~draining)
        /\ UNCHANGED <<group, killing, laneVars, recovery, booting, draining, restarts>>
    BY <1>2 DEF WriteIndex
  <2>2. /\ disk' \in [state : [Tasks -> States], position : [Tasks -> Nat]]
        /\ Placed(disk'.state, disk'.position)
    BY <2>1, DiskFacts
  <2>3. QED
    BY <1>1, <2>1, <2>2, DiskFacts, TypeFacts, StandStep
<1>3. CASE SetDraining
  <2>1. /\ draining' = ~draining /\ Turn(state, phase, stopping, draining /\ Open)
        /\ UNCHANGED <<group, killing, laneVars, recovery, booting, writeFailed, disk, restarts>>
    BY <1>3 DEF SetDraining
  <2>2. draining' \in BOOLEAN
    BY <2>1
  <2>3. QED
    BY <1>1, <2>1, <2>2, DiskFacts, TypeFacts, StandStep
<1>4. CASE Boot
  <2>1. /\ booting' = FALSE /\ Turn(state, phase, stopping, Moves)
        /\ UNCHANGED <<group, killing, laneVars, recovery, writeFailed, disk, draining, restarts>>
    BY <1>4 DEF Boot
  <2>2. QED
    BY <1>1, <2>1, DiskFacts, TypeFacts, StandStep
<1>5. ASSUME NEW t \in Tasks, GraceEnds(t) PROVE RunnerInv'
  <2>1. /\ group' = [group EXCEPT ![t] = "none"] /\ Turn(state, phase, stopping \ {t}, Moves)
        /\ UNCHANGED <<killing, laneVars, storeVars>>
    BY <1>5 DEF GraceEnds
  <2>2. /\ group' \in [Tasks -> Groups] /\ stopping \ {t} \in SUBSET stopping
        /\ \A u \in Tasks : (group'[u] = group[u] /\ (u \in stopping => u \in stopping \ {t}))
                              \/ group'[u] = "none"
    BY <2>1, TypeFacts DEF Groups
  <2>3. QED
    BY <2>1, <2>2, StoresKept, StandStep
<1>6. QED
  BY <1>2, <1>3, <1>4, <1>5

LEMMA WriteFailsStep == ASSUME RunnerInv, WriteFails PROVE RunnerInv'
BY DEF RunnerInv, TypeOK, WriteFails, procVars, laneVars, Over, Busy, Owned, Child, Runs

LEMMA RestartStep ==
  ASSUME RunnerInv, Restart
  PROVE  RunnerInv'
<1>1. /\ phase' = [t \in Tasks |-> "none"] /\ group' = [t \in Tasks |-> "none"]
      /\ stopping' = {} /\ killing' = {} /\ passes' = 0 /\ waiters' = <<>>
      /\ writeFailed' = FALSE /\ draining' = FALSE /\ restarts' = restarts + 1
      /\ disk' = IF restarts' = MaxRestarts THEN Blank ELSE disk
  BY DEF Restart
<1>2. /\ state' \in [Tasks -> States] /\ position' \in [Tasks -> Nat] /\ Placed(state', position')
      /\ recovery' \in {"ready", "failed"} /\ booting' \in BOOLEAN
  <2>1. CASE /\ recovery' = "ready" /\ booting' = TRUE
             /\ state' = [t \in Tasks |-> IF disk.state[t] = "running" THEN "interrupted"
                                          ELSE disk.state[t]]
             /\ position' = Renumbered(disk.state, disk.position)
    <3>1. /\ disk.state \in [Tasks -> States] /\ disk.position \in [Tasks -> Nat]
          /\ Placed(disk.state, disk.position)
      BY DiskFacts
    <3>2. /\ Renumbered(disk.state, disk.position) \in [Tasks -> Nat]
          /\ Placed(disk.state, Renumbered(disk.state, disk.position))
      BY <3>1, RenumberedPlaces
    <3>3. Queued(state') = Queued(disk.state)
      BY <2>1 DEF Queued
    <3>4. state' \in [Tasks -> States]
      BY <2>1, <3>1 DEF States, Settled
    <3>5. QED
      BY <2>1, <3>2, <3>3, <3>4 DEF Placed
  <2>2. CASE /\ recovery' = "failed" /\ booting' = FALSE
             /\ state' = [t \in Tasks |-> "absent"] /\ position' = [t \in Tasks |-> 0]
    BY <2>2 DEF Placed, Queued, States
  <2>3. QED
    BY <2>1, <2>2 DEF Restart
<1>3. /\ disk' \in [state : [Tasks -> States], position : [Tasks -> Nat]]
      /\ Placed(disk'.state, disk'.position)
  BY <1>1, DiskFacts
<1>4. TypeOK'
  <2>1. phase' \in [Tasks -> Phases] /\ group' \in [Tasks -> Groups]
    BY <1>1 DEF Phases, Groups
  <2>2. waiters' \in Seq(Tasks) /\ passes' \in Nat /\ restarts' \in Nat
    BY <1>1, DiskFacts
  <2>3. QED
    BY <1>1, <1>2, <1>3, <2>1, <2>2 DEF TypeOK
<1>5. Over' /\ Busy(state', phase') /\ Owned'
  BY <1>1 DEF Over, Busy, Owned
<1>6. Lane(phase', passes', waiters')
  <2>1. Inside(phase') = {} /\ Outside(phase') = {} /\ 1 .. Len(waiters') = {}
    BY <1>1 DEF Inside, Outside
  <2>2. Cardinality({}) = 0 /\ 0 <= MaxPasses
    BY FS_EmptySet, LimitsAssumption
  <2>3. QED
    BY <1>1, <2>1, <2>2 DEF Lane
<1>7. QED
  BY <1>2, <1>3, <1>4, <1>5, <1>6 DEF RunnerInv

LEMMA RunnerStep == ASSUME RunnerInv, [Next]_vars PROVE RunnerInv'
<1>1. CASE UNCHANGED vars
  BY <1>1 DEF RunnerInv, TypeOK, vars, procVars, laneVars, storeVars, Over, Busy, Owned, Child, Runs
<1>2. CASE Ask
  BY <1>2, CreateStep, ReorderStep, CannotRunStep, LaneSteps, KillSteps, StopStep, QuitStep DEF Ask
<1>3. ASSUME NEW t \in Tasks, Advance(t) \/ Judge(t) PROVE RunnerInv'
  BY <1>3, SpawnStep, AgentClosesStep, ExplainedStep, LaneSteps, StoreSteps, KillSteps
     DEF Advance, Verify
<1>4. CASE WriteIndex \/ SetDraining \/ Boot
  BY <1>4, StoreSteps
<1>5. CASE WriteFails \/ Restart
  BY <1>5, WriteFailsStep, RestartStep
<1>6. QED
  BY <1>1, <1>2, <1>3, <1>4, <1>5 DEF Next

LEMMA RunnerInvariant == Spec => []RunnerInv
<1>1. Init => RunnerInv
  BY InitRunner
<1>2. RunnerInv /\ [Next]_vars => RunnerInv'
  BY RunnerStep
<1>3. QED
  BY <1>1, <1>2, PTL DEF Spec

(* Every record, call, slot and the index on disk keep their type, for any   *)
(* number of tasks and any limits.                                           *)
THEOREM RunnerTypeCorrect == Spec => []TypeOK
<1>1. RunnerInv => TypeOK
  BY DEF RunnerInv
<1>2. QED
  BY <1>1, RunnerInvariant, PTL

-----------------------------------------------------------------------------
(* The processes and the lane.                                               *)

(* No agent is left behind that nobody ends: each belongs to a task that     *)
(* runs, that is being stopped, or that is about to be killed.               *)
THEOREM NoAgentAstray == Spec => []NoStrayAgent
<1>1. RunnerInv => NoStrayAgent
  <2> SUFFICES ASSUME RunnerInv, NEW t \in Tasks, group[t] # "none", phase[t] # "command"
               PROVE  Runs(t) \/ t \in stopping \cup killing
    BY DEF NoStrayAgent
  <2>1. group[t] = "live" \/ group[t] = "left"
    BY TypeFacts DEF Groups
  <2>2. QED
    BY <2>1, TypeFacts DEF Runs
<1>2. QED
  BY <1>1, RunnerInvariant, PTL

(* The slots of the verification lane are the calls inside it, and whoever   *)
(* waits finds it full, however many calls there are.                        *)
THEOREM LaneCorrect == Spec => []LaneIsAccounted
<1>1. RunnerInv => LaneIsAccounted
  <2> SUFFICES ASSUME RunnerInv PROVE LaneIsAccounted
    OBVIOUS
  <2>1. Lane(phase, passes, waiters) /\ waiters \in Seq(Tasks) /\ Len(waiters) \in Nat
    BY DEF RunnerInv, TypeOK
  <2> DEFINE f == [i \in 1 .. Len(waiters) |-> waiters[i]]
  <2>2. f \in Bijection(1 .. Len(waiters), Outside(phase))
    <3>1. \A i \in 1 .. Len(waiters) : f[i] \in Outside(phase)
      BY <2>1 DEF Lane
    <3>2. \A i, j \in 1 .. Len(waiters) : f[i] = f[j] => i = j
      BY <2>1 DEF Lane
    <3>3. \A t \in Outside(phase) : \E i \in 1 .. Len(waiters) : f[i] = t
      BY <2>1 DEF Lane
    <3> HIDE DEF f
    <3>4. f \in [1 .. Len(waiters) -> Outside(phase)]
      BY <3>1 DEF f
    <3>5. QED
      BY <3>2, <3>3, <3>4 DEF Bijection, Injection, Surjection, IsInjective
  <2>3. Cardinality(Outside(phase)) = Len(waiters)
    <3> HIDE DEF f
    <3>1. ExistsBijection(1 .. Len(waiters), Outside(phase))
      BY <2>2 DEF ExistsBijection
    <3>2. QED
      BY <2>1, <3>1, FS_CountingElements
  <2>4. QED
    BY <2>1, <2>3 DEF LaneIsAccounted, Lane
<1>2. QED
  BY <1>1, RunnerInvariant, PTL

-----------------------------------------------------------------------------
(* The queue.                                                                *)

(* What a step means to the queue: it leaves the records, the places and the *)
(* slots alone; or it settles tasks and drains the queue or not; or it is a  *)
(* creation, a reordering or a restart. A step that frees a slot and does    *)
(* not drain leaves a queue that may not move.                               *)
Standing == UNCHANGED <<state, position, stopping>> /\ (~(Moves /\ ~booting)' \/ (Moves /\ ~booting))
Released(s, ph, stop, drains) ==
  /\ Releases(s, ph, stop) /\ Turn(s, ph, stop, drains)
  /\ \/ drains = TRUE
     \/ ~(Moves /\ ~booting)'
     \/ Moves /\ ~booting /\ Counted(s, stop) = Held /\ Queued(s) \subseteq Queued(state)

LEMMA FinishReleases ==
  ASSUME RunnerInv, NEW t \in Tasks, state[t] # "absent", NEW outcome \in Settled,
         NEW ph \in [Tasks -> Phases], Busy(state, ph), Finish(t, outcome, ph), UNCHANGED storeVars
  PROVE  \E s, stop, drains : Released(s, ph, stop, drains)
<1>1. Releases(As(t, outcome), ph, stopping)
  BY SettleReleases
<1>2. Turn(As(t, outcome), ph, stopping, Moves)
  BY DEF Finish
<1>3. (Moves = TRUE) \/ ~(Moves /\ ~booting)'
  BY DEF Moves, Open, storeVars
<1>4. Released(As(t, outcome), ph, stopping, Moves)
  BY <1>1, <1>2, <1>3 DEF Released
<1>5. QED
  BY <1>4

LEMMA StandingSteps ==
  ASSUME UNCHANGED <<state, position, stopping>>, UNCHANGED storeVars
  PROVE  Standing
BY DEF Standing, Moves, Open, storeVars

LEMMA CallReleases ==
  ASSUME RunnerInv, NEW t \in Tasks,
         CannotRun(t) \/ AgentCloses(t) \/ Explained(t) \/ FoundEmpty(t) \/ Judge(t)
           \/ \E outcome \in {"interrupted", "finished"} : Quit(t, outcome)
  PROVE  Standing \/ \E s, ph, stop, drains : Released(s, ph, stop, drains)
<1>1. /\ "finished" \in Settled /\ "interrupted" \in Settled
      /\ \A ph : ph \in [Tasks -> Phases] /\ Busy(state, ph) /\ Runs(t) => state[t] # "absent"
  BY DEF Settled, Runs
<1>2. Goes(t, "none") \in [Tasks -> Phases] /\ Busy(state, Goes(t, "none"))
  BY GoesType DEF Phases
<1>3. phase \in [Tasks -> Phases] /\ Busy(state, phase)
  BY TypeFacts
<1>4. CASE CannotRun(t)
  <2>1. Runs(t) /\ Finish(t, "finished", Goes(t, "none")) /\ UNCHANGED storeVars
    BY <1>4 DEF CannotRun
  <2>2. QED
    BY <1>1, <1>2, <2>1, FinishReleases
<1>5. CASE AgentCloses(t)
  <2>1. CASE Runs(t) /\ Finish(t, "finished", Goes(t, "none")) /\ UNCHANGED laneVars
    BY <1>1, <1>2, <1>5, <2>1, FinishReleases DEF AgentCloses
  <2>2. CASE UNCHANGED <<state, position, stopping>>
    BY <1>5, <2>2, StandingSteps DEF AgentCloses
  <2>3. QED
    BY <1>5, <2>1, <2>2 DEF AgentCloses
<1>6. CASE Explained(t)
  <2>1. CASE Runs(t)
    BY <1>1, <1>2, <1>6, <2>1, FinishReleases DEF Explained
  <2>2. CASE ~Runs(t)
    BY <1>6, <2>2, StandingSteps DEF Explained
  <2>3. QED
    BY <2>1, <2>2
<1>7. CASE FoundEmpty(t) \/ Judge(t)
  <2>1. phase[t] \in {"entered", "gate", "check"} /\ UNCHANGED <<group, killing, storeVars>>
    BY <1>7 DEF FoundEmpty, Judge
  <2>2. CASE Leave(t)
    BY <2>1, <2>2, StandingSteps DEF Leave
  <2>3. CASE state[t] # "absent" /\ Finish(t, "finished", Left(t)) /\ Release
    <3>1. Left(t) \in [Tasks -> Phases] /\ Busy(state, Left(t))
      BY <2>1, <2>3, LeaveFacts
    <3>2. QED
      BY <1>1, <2>1, <2>3, <3>1, FinishReleases
  <2>4. QED
    BY <1>7, <2>2, <2>3 DEF FoundEmpty, Judge, Runs
<1>8. CASE \E outcome \in {"interrupted", "finished"} : Quit(t, outcome)
  <2>1. PICK outcome \in {"interrupted", "finished"} : Quit(t, outcome)
    BY <1>8
  <2>2. Runs(t) /\ Finish(t, outcome, phase) /\ UNCHANGED storeVars
    BY <2>1 DEF Quit
  <2>3. QED
    BY <1>1, <1>3, <2>2, FinishReleases
<1>9. QED
  BY <1>4, <1>5, <1>6, <1>7, <1>8

LEMMA StopReleases ==
  ASSUME RunnerInv, NEW t \in Tasks, NEW outcome \in {"cancelled", "interrupted"}, Stop(t, outcome)
  PROVE  \E s, ph, stop, drains : Released(s, ph, stop, drains)
<1> DEFINE stop == IF Child(t) THEN stopping \cup {t} ELSE stopping
           s == As(t, outcome)
           drains == Moves /\ (outcome = "interrupted" \/ ~Child(t))
<1>1. state[t] \in {"queued", "running"} /\ UNCHANGED storeVars /\ Turn(s, phase, stop, drains)
  BY DEF Stop
<1>2. outcome \in Settled /\ state[t] # "absent"
  BY <1>1 DEF Settled
<1>3. Releases(s, phase, stopping)
  BY <1>2, SettleReleases, TypeFacts
<1>4. Child(t) => state[t] = "running"
  BY <1>1, TypeFacts DEF Child, Busy, Alive, Settled
<1>5. s[t] = outcome /\ \A u \in Tasks : u # t => s[u] = state[u]
  BY TypeFacts DEF As
<1>6. Counted(s, stop) \subseteq Held
  <2>1. Counted(s, stop) \subseteq Counted(s, stopping) \cup (IF Child(t) THEN {t} ELSE {})
    BY DEF Counted
  <2>2. Child(t) => t \in Held
    BY <1>4 DEF Held, Counted
  <2>3. QED
    BY <1>3, <2>1, <2>2 DEF Releases
<1>7. Releases(s, phase, stop)
  <2>1. stop \in SUBSET Tasks /\ \A u \in stop : s[u] \in Settled
    BY <1>2, <1>3, <1>5 DEF Releases
  <2>2. QED
    BY <1>3, <1>6, <2>1 DEF Releases
<1>8. Child(t) => Counted(s, stop) = Held
  <2> SUFFICES ASSUME Child(t), NEW u \in Held PROVE u \in Counted(s, stop)
    BY <1>6
  <2>1. u \in Tasks
    BY DEF Held, Counted
  <2>2. QED
    BY <1>2, <1>5, <2>1 DEF Held, Counted, Settled
<1>9. Queued(s) \subseteq Queued(state)
  BY <1>2, <1>5 DEF Queued, Settled
<1>10. ~Child(t) /\ Moves => drains = TRUE
  OBVIOUS
<1>11. (Moves /\ ~booting)' = (Moves /\ ~booting)
  BY <1>1 DEF Moves, Open, storeVars
<1>12. Released(s, phase, stop, drains)
  <2> HIDE DEF s, stop, drains
  <2>1. CASE ~Child(t) /\ Moves
    BY <1>1, <1>7, <1>10, <2>1 DEF Released
  <2>2. CASE ~(Moves /\ ~booting)
    BY <1>1, <1>7, <1>11, <2>2 DEF Released
  <2>3. CASE Child(t) /\ Moves /\ ~booting
    BY <1>1, <1>7, <1>8, <1>9, <2>3 DEF Released
  <2>4. QED
    BY <2>1, <2>2, <2>3
<1>13. QED
  BY <1>12

LEMMA StandReleased ==
  ASSUME RunnerInv, WriteIndex \/ SetDraining \/ Boot \/ \E t \in Tasks : GraceEnds(t)
  PROVE  \E s, ph, stop, drains : Released(s, ph, stop, drains)
<1>1. \A stop \in SUBSET stopping : Releases(state, phase, stop)
  BY StandReleases
<1>2. Counted(state, stopping) = Held /\ Queued(state) \subseteq Queued(state)
  BY DEF Held
<1>3. CASE WriteIndex
  <2> DEFINE drains == writeFailed /\ ~draining
  <2>1. Turn(state, phase, stopping, drains)
    BY <1>3 DEF WriteIndex
  <2>2. drains = TRUE \/ ~(Moves /\ ~booting)' \/ (Moves /\ ~booting)
    BY <1>3 DEF WriteIndex, Moves, Open
  <2> HIDE DEF drains
  <2>3. Released(state, phase, stopping, drains)
    BY <1>1, <1>2, <2>1, <2>2 DEF Released
  <2>4. QED
    BY <2>3
<1>4. CASE SetDraining
  <2> DEFINE drains == draining /\ Open
  <2>1. Turn(state, phase, stopping, drains)
    BY <1>4 DEF SetDraining
  <2>2. drains = TRUE \/ ~(Moves /\ ~booting)'
    BY <1>4 DEF SetDraining, Moves, Open
  <2> HIDE DEF drains
  <2>3. Released(state, phase, stopping, drains)
    BY <1>1, <1>2, <2>1, <2>2 DEF Released
  <2>4. QED
    BY <2>3
<1>5. CASE Boot
  <2>1. Turn(state, phase, stopping, Moves)
    BY <1>5 DEF Boot
  <2>2. Moves = TRUE \/ ~(Moves /\ ~booting)'
    BY <1>5 DEF Boot, Moves, Open
  <2>3. Released(state, phase, stopping, Moves)
    BY <1>1, <1>2, <2>1, <2>2 DEF Released
  <2>4. QED
    BY <2>3
<1>6. ASSUME NEW t \in Tasks, GraceEnds(t)
      PROVE  \E s, ph, stop, drains : Released(s, ph, stop, drains)
  <2>1. Turn(state, phase, stopping \ {t}, Moves) /\ stopping \ {t} \in SUBSET stopping
    BY <1>6 DEF GraceEnds
  <2>2. Moves = TRUE \/ ~(Moves /\ ~booting)'
    BY <1>6 DEF GraceEnds, Moves, Open, storeVars
  <2>3. Released(state, phase, stopping \ {t}, Moves)
    BY <1>1, <2>1, <2>2 DEF Released
  <2>4. QED
    BY <2>3
<1>7. QED
  BY <1>3, <1>4, <1>5, <1>6

LEMMA QueueStep ==
  ASSUME RunnerInv, [Next]_vars
  PROVE  \/ Standing \/ Restart
         \/ \E s, ph, stop, drains : Released(s, ph, stop, drains)
         \/ \E t \in Tasks : Create(t) \/ \E u \in Tasks : Reorder(t, u)
<1>1. CASE UNCHANGED vars
  BY <1>1, StandingSteps DEF vars, procVars
<1>2. ASSUME NEW t \in Tasks,
             Spawn(t) \/ Enter(t) \/ FoundWork(t) \/ RunCommand(t) \/ CommandCloses(t) \/ Killed(t)
               \/ Command(t) \/ StopAgain(t)
      PROVE  Standing
  <2>1. UNCHANGED <<state, position, stopping>> /\ UNCHANGED storeVars
    BY <1>2 DEF Spawn, Enter, FoundWork, RunCommand, CommandCloses, Killed, Command, StopAgain, Leave
  <2>2. QED
    BY <2>1, StandingSteps
<1>3. CASE WriteFails
  BY <1>3 DEF WriteFails, Standing, Moves, Open, procVars
<1>4. CASE Ask
  BY <1>2, <1>4, CallReleases, StopReleases DEF Ask
<1>5. ASSUME NEW t \in Tasks, Advance(t) \/ Judge(t)
      PROVE  Standing \/ \E s, ph, stop, drains : Released(s, ph, stop, drains)
  BY <1>2, <1>5, CallReleases, StandReleased DEF Advance, Verify
<1>6. QED
  BY <1>1, <1>3, <1>4, <1>5, StandReleased DEF Next

LEMMA HeldFacts ==
  ASSUME RunnerInv
  PROVE  /\ Held \in SUBSET Tasks /\ Held = {t \in Tasks : Runs(t)} \cup stopping
         /\ Queued(state) \in SUBSET Tasks /\ position \in [Tasks -> Nat]
<1>1. stopping \subseteq Tasks /\ \A t \in stopping : state[t] \in Settled
  BY TypeFacts
<1>2. Held = {t \in Tasks : Runs(t)} \cup stopping
  BY <1>1 DEF Held, Counted, Runs, Settled
<1>3. QED
  BY <1>1, <1>2 DEF Queued, RunnerInv, TypeOK

(* The set a turn lets go, beside what is held when it is computed.          *)
Went(go, s, stop, drains) ==
  /\ go \subseteq Queued(s)
  /\ Counted(s, stop) \subseteq Held /\ Counted(s, stop) \in SUBSET Tasks
  /\ go \in SUBSET Tasks /\ Queued(s) \subseteq Queued(state)
  /\ Held' = Counted(s, stop) \cup go
  /\ Queued(state') = Queued(s) \ go
  /\ \A t \in Tasks \ go : state'[t] = s[t]
  /\ \A t, u \in go : t # u => position[t] # position[u]
  /\ drains = TRUE => LetGo(go, s, stop)
  /\ drains # TRUE => go = {}
LEMMA ReleasedEffect ==
  ASSUME RunnerInv, NEW s, NEW ph, NEW stop, NEW drains, Released(s, ph, stop, drains)
  PROVE  \E go : Went(go, s, stop, drains)
<1>1. Releases(s, ph, stop) /\ Turn(s, ph, stop, drains)
  BY DEF Released
<1>2. PICK go \in SUBSET Queued(s) :
           /\ drains => LetGo(go, s, stop)
           /\ ~drains => go = {}
           /\ state' = [t \in Tasks |-> IF t \in go THEN "running" ELSE s[t]]
           /\ Queued(s) \subseteq Queued(state) /\ Queued(state') = Queued(s) \ go
           /\ \A t, u \in go : t # u => position[t] # position[u]
           /\ Held' = Counted(s, stop) \cup go
  BY <1>1, TurnEffect
<1>3. Counted(s, stop) \in SUBSET Tasks /\ Counted(s, stop) \subseteq Held
  BY <1>1 DEF Counted, Releases
<1>4. go \in SUBSET Tasks
  BY <1>2 DEF Queued
<1>5. Went(go, s, stop, drains)
  BY <1>2, <1>3, <1>4 DEF Went
<1>6. QED
  BY <1>5

LEMMA LimitsStep == ASSUME RunnerInv, Within(Held), [Next]_vars PROVE Within(Held')
<1>1. CASE Standing
  BY <1>1 DEF Standing, Held
<1>2. CASE Restart
  <2>1. Held' = {}
    BY <1>2 DEF Restart, Held, Counted
  <2>2. {} \in SUBSET Held
    OBVIOUS
  <2>3. QED
    BY <2>1, <2>2, HeldFacts, WithinFewer
<1>3. ASSUME NEW s, NEW ph, NEW stop, NEW drains, Released(s, ph, stop, drains)
      PROVE  Within(Held')
  <2> DEFINE held == Counted(s, stop)
  <2>1. PICK go : Went(go, s, stop, drains)
    BY <1>3, ReleasedEffect
  <2>2. /\ held \subseteq Held /\ held \in SUBSET Tasks /\ go \in SUBSET Tasks
        /\ Held' = held \cup go
        /\ \A t, u \in go : t # u => position[t] # position[u]
    BY <2>1 DEF Went
  <2>3. Within(held)
    <3> HIDE DEF held
    <3>1. QED
      BY <2>2, HeldFacts, WithinFewer
  <2>4. \A t \in go : Fits(t, held \cup {u \in go : Before(u, t)})
    BY <2>1 DEF Went, LetGo
  <2> HIDE DEF held
  <2>5. QED
    BY <2>3, <2>4, <2>2, HeldFacts, LetGoWithin
<1>4. ASSUME NEW t \in Tasks, Create(t) PROVE Within(Held')
  <2>1. state \in [Tasks -> States] /\ state[t] = "absent" /\ stopping' = stopping /\ t \notin stopping
    BY <1>4, TypeFacts DEF Create, Settled
  <2>2. CASE draining \/ ~Fits(t, Held)
    <3>1. Held' = Held
      BY <1>4, <2>1, <2>2 DEF Create, Held, Counted
    <3>2. QED
      BY <3>1
  <2>3. CASE ~(draining \/ ~Fits(t, Held))
    <3> DEFINE go == {t}
    <3>1. Held' = Held \cup go
      BY <1>4, <2>1, <2>3 DEF Create, Held, Counted
    <3>2. {u \in go : Before(u, t)} = {}
      BY HeldFacts DEF Before
    <3>3. \A u \in go : Fits(u, Held \cup {x \in go : Before(x, u)})
      BY <2>3, <3>2
    <3>4. go \in SUBSET Tasks /\ \A x, y \in go : x # y => position[x] # position[y]
      OBVIOUS
    <3> HIDE DEF go
    <3>5. QED
      BY <3>1, <3>3, <3>4, HeldFacts, LetGoWithin
  <2>4. QED
    BY <2>2, <2>3
<1>5. ASSUME NEW t \in Tasks, NEW u \in Tasks, Reorder(t, u) PROVE Within(Held')
  BY <1>5 DEF Reorder, Held, procVars
<1>6. QED
  BY <1>1, <1>2, <1>3, <1>4, <1>5, QueueStep

(* The tasks that run or are being stopped respect every limit and share no  *)
(* account's working tree, however many tasks there are: the last one that a *)
(* drain starts has counted all the others.                                  *)
THEOREM LimitsCorrect == Spec => []LimitsRespected
<1>1. Init => Within(Held)
  <2> SUFFICES ASSUME Init PROVE Within(Held)
    OBVIOUS
  <2>1. Held = {}
    BY DEF Init, Held, Counted
  <2>2. \A G : {} \cap G = {}
    OBVIOUS
  <2>3. Cardinality({}) = 0
    BY FS_EmptySet
  <2>4. QED
    BY <2>1, <2>2, <2>3, LimitsAssumption DEF Within
<1>2. RunnerInv /\ Within(Held) /\ [Next]_vars => Within(Held)'
  BY LimitsStep
<1>3. RunnerInv /\ Within(Held) => LimitsRespected
  BY HeldFacts DEF LimitsRespected
<1>4. QED
  BY <1>1, <1>2, <1>3, RunnerInvariant, PTL DEF Spec

LEMMA EligibleStep ==
  ASSUME RunnerInv, NothingEligibleWaits, [Next]_vars
  PROVE  NothingEligibleWaits'
<1> SUFFICES ASSUME Moves', ~booting', NEW u \in Queued(state') PROVE ~Fits(u, Held')
  BY DEF NothingEligibleWaits
<1>1. CASE Standing
  BY <1>1 DEF Standing, Held, NothingEligibleWaits
<1>2. CASE Restart
  <2>1. recovery' = "ready" => booting'
    BY <1>2 DEF Restart
  <2>2. QED
    BY <2>1 DEF Moves, Open
<1>3. ASSUME NEW s, NEW ph, NEW stop, NEW drains, Released(s, ph, stop, drains)
      PROVE  ~Fits(u, Held')
  <2>1. PICK go : Went(go, s, stop, drains)
    BY <1>3, ReleasedEffect
  <2>2. CASE drains = TRUE
    <3> DEFINE less == Counted(s, stop) \cup {x \in go : Before(x, u)}
    <3>1. ~Fits(u, less)
      BY <2>1, <2>2 DEF Went, LetGo
    <3>2. Held' \in SUBSET Tasks /\ less \in SUBSET Held'
      BY <2>1 DEF Went
    <3> HIDE DEF less
    <3>3. QED
      BY <3>1, <3>2, FitsFewer
  <2>3. CASE drains # TRUE
    <3>1. Moves /\ ~booting /\ Counted(s, stop) = Held /\ Queued(s) \subseteq Queued(state)
      BY <1>3, <2>3 DEF Released
    <3>2. Held' = Held /\ u \in Queued(state)
      BY <2>1, <2>3, <3>1 DEF Went
    <3>3. QED
      BY <3>1, <3>2 DEF NothingEligibleWaits
  <2>4. QED
    BY <2>2, <2>3
<1>4. ASSUME NEW t \in Tasks, Create(t) PROVE ~Fits(u, Held')
  <2>1. /\ state \in [Tasks -> States] /\ state[t] = "absent" /\ stopping' = stopping /\ t \notin stopping
        /\ Moves /\ ~booting /\ ~draining
    BY <1>4, TypeFacts DEF Create, Settled, Moves, Open, storeVars
  <2>2. CASE ~Fits(t, Held)
    <3>1. Held' = Held /\ (u = t \/ u \in Queued(state))
      BY <1>4, <2>1, <2>2 DEF Create, Held, Counted, Queued
    <3>2. QED
      BY <2>1, <2>2, <3>1 DEF NothingEligibleWaits
  <2>3. CASE Fits(t, Held)
    <3>1. Held' = Held \cup {t} /\ u \in Queued(state)
      BY <1>4, <2>1, <2>3 DEF Create, Held, Counted, Queued
    <3>2. ~Fits(u, Held) /\ Held' \in SUBSET Tasks /\ Held \in SUBSET Held'
      BY <2>1, <3>1, HeldFacts DEF NothingEligibleWaits
    <3>3. QED
      BY <3>2, FitsFewer
  <2>4. QED
    BY <2>2, <2>3
<1>5. ASSUME NEW t \in Tasks, NEW x \in Tasks, Reorder(t, x) PROVE ~Fits(u, Held')
  BY <1>5 DEF Reorder, Held, procVars, storeVars, NothingEligibleWaits, Moves, Open
<1>6. QED
  BY <1>1, <1>2, <1>3, <1>4, <1>5, QueueStep

(* No task waits that could start: every step that gives room up drains the  *)
(* queue, and a drain leaves nothing behind that fits.                       *)
THEOREM NoEligibleTaskWaits == Spec => []NothingEligibleWaits
<1>1. Init => NothingEligibleWaits
  BY DEF Init, NothingEligibleWaits, Queued
<1>2. RunnerInv /\ NothingEligibleWaits /\ [Next]_vars => NothingEligibleWaits'
  BY EligibleStep
<1>3. QED
  BY <1>1, <1>2, RunnerInvariant, PTL DEF Spec

(* Tasks that share a tree are of one account and one directory, so each of  *)
(* them fits exactly where the other does.                                   *)
LEMMA FitAlike ==
  ASSUME NEW u \in Sharing, NEW t \in SameTree(u), NEW held, Fits(t, held)
  PROVE  Fits(u, held)
<1>1. u \in Tasks /\ t \in Tasks /\ t \in Sharing
  BY TasksAssumption, Groupings
<1>2. /\ SameOwner(t) = SameOwner(u) /\ SameRepo(t) = SameRepo(u) /\ SameTree(t) = SameTree(u)
      /\ OwnerOf[t] = OwnerOf[u]
  BY <1>1, Groupings DEF SameTree, SameOwner
<1>3. QED
  BY <1>1, <1>2 DEF Fits, OwnerFits, RepoFits, TreeFits

LEMMA OvertakingStep ==
  ASSUME RunnerInv, NothingEligibleWaits, [Next]_vars,
         NEW t \in Tasks, NEW u \in Tasks, t \in SameTree(u), u \in Sharing, ~booting,
         state[u] = "queued", state'[u] = "queued",
         state[t] = "absent" \/ (state[t] = "queued" /\ Before(u, t))
  PROVE  state'[t] # "running"
<1> SUFFICES ASSUME state'[t] = "running" PROVE FALSE
  OBVIOUS
<1>1. CASE Standing
  BY <1>1 DEF Standing
<1>2. CASE Restart
  BY <1>2 DEF Restart
<1>3. ASSUME NEW s, NEW ph, NEW stop, NEW drains, Released(s, ph, stop, drains) PROVE FALSE
  <2>1. PICK go : Went(go, s, stop, drains)
    BY <1>3, ReleasedEffect
  <2>2. s[t] # "running"
    BY <1>3 DEF Released, Releases, Settled
  <2>3. t \in go /\ drains = TRUE /\ u \in Queued(s) \ go
    BY <2>1, <2>2 DEF Went, Queued
  <2>4. state[t] = "queued" /\ Before(u, t)
    BY <2>1, <2>3 DEF Went, Queued
  <2> DEFINE more == Counted(s, stop) \cup {x \in go : Before(x, t)}
             less == Counted(s, stop) \cup {x \in go : Before(x, u)}
  <2>5. Fits(t, more) /\ ~Fits(u, less)
    BY <2>1, <2>3 DEF Went, LetGo
  <2>6. more \in SUBSET Tasks /\ less \in SUBSET more
    <3>1. \A x \in go : Before(x, u) => Before(x, t)
      <4>1. \A x \in Tasks : position[x] \in Nat
        BY HeldFacts
      <4>2. QED
        BY <2>1, <2>4, <4>1 DEF Went, Before
    <3>2. QED
      BY <2>1, <3>1 DEF Went
  <2> HIDE DEF more, less
  <2>7. Fits(t, less)
    BY <2>5, <2>6, FitsFewer
  <2>8. QED
    BY <2>5, <2>7, FitAlike
<1>4. ASSUME NEW x \in Tasks, Create(x) PROVE FALSE
  <2>1. x = t /\ Fits(t, Held) /\ ~draining /\ Open
    BY <1>4, TypeFacts DEF Create
  <2>2. ~Fits(u, Held)
    BY <2>1 DEF NothingEligibleWaits, Moves, Queued
  <2>3. QED
    BY <2>1, <2>2, FitAlike
<1>5. ASSUME NEW x \in Tasks, NEW y \in Tasks, Reorder(x, y) PROVE FALSE
  BY <1>5 DEF Reorder
<1>6. QED
  BY <1>1, <1>2, <1>3, <1>4, <1>5, QueueStep

(* Tasks that share a working tree start in the order of the queue, however  *)
(* the other limits free up: whatever lets the later one start would have    *)
(* let the earlier one start before it.                                      *)
THEOREM QueueOrderKept == Spec => NoOvertaking
<1>1. RunnerInv /\ NothingEligibleWaits /\ [Next]_vars
        => [\A t, u \in Tasks :
              /\ t \in SameTree(u) /\ u \in Sharing /\ ~booting
              /\ state[u] = "queued" /\ state'[u] = "queued"
              /\ state[t] = "absent" \/ (state[t] = "queued" /\ Before(u, t))
              => state'[t] # "running"]_vars
  BY OvertakingStep
<1>2. QED
  BY <1>1, RunnerInvariant, NoEligibleTaskWaits, PTL DEF Spec, NoOvertaking
=============================================================================
