------------------------------ MODULE AgentTasks ------------------------------
(* The agent task runner (node/qaap-agent-task-runner*.ts): the queue of     *)
(* agent turns and its limits, the life of one turn from its preparation to  *)
(* the end of its verification, stops, and the index on disk.                *)
(*                                                                           *)
(* A task is named by its client request: asking again for one that exists   *)
(* returns it, so only an absent task is created. The code between two       *)
(* awaits is one turn of the event loop, and so is one action.               *)
EXTENDS Integers, FiniteSets, Sequences

CONSTANTS
  Tasks,
  OwnerOf, RepoOf,            \* task -> the account it is run for, its working directory
  NoOwner,                    \* the account of a task that has none
  Sharing,                    \* the tasks that edit the repository's shared working tree
  MaxAgents, OwnerLimit,      \* tasks that may run at once: in all, for an account,
  RepoLimit,                  \* and in a directory (0: no limit)
  QueueLimit, OwnerQueueLimit,
  MaxPasses,                  \* verifications that may run at once
  MaxRestarts                 \* bound: restarts of the backend

ASSUME LimitsAssumption ==
  /\ MaxAgents \in Nat \ {0} /\ OwnerLimit \in Nat \ {0} /\ RepoLimit \in Nat
  /\ QueueLimit \in Nat \ {0} /\ OwnerQueueLimit \in Nat \ {0} /\ MaxPasses \in Nat \ {0}
  /\ MaxRestarts \in Nat
ASSUME TasksAssumption == IsFiniteSet(Tasks) /\ Sharing \subseteq Tasks

VARIABLES
  state,        \* task -> what its record says
  position,     \* task -> its place in the queue, or 0
  phase,        \* task -> what the asynchronous call that works on it waits for
  group,        \* task -> its process group: none, live, or left behind by its leader
  stopping,     \* stopped tasks that keep their slot until the grace period ends
  killing,      \* tasks whose group is killed when a timer fires, without a slot
  passes,       \* occupied verification slots
  waiters,      \* calls that wait for one, in order
  recovery,     \* ready, or failed: the index could not be read
  booting,      \* the restored queue has not been drained yet
  writeFailed,  \* the last write of the index failed
  disk,         \* the index
  draining,     \* a deployment lets nothing start
  restarts

procVars == <<phase, group, stopping, killing>>
laneVars == <<passes, waiters>>
storeVars == <<recovery, booting, writeFailed, disk, draining, restarts>>
vars == <<state, position, procVars, laneVars, storeVars>>

(* Completed, with or without warnings, and failed are one outcome here.     *)
Settled == {"finished", "cancelled", "interrupted"}
States == {"absent", "queued", "running"} \cup Settled
Phases == {"none", "start", "agent", "explain", "lane", "entered", "gate", "check",
           "arming", "command"}
Groups == {"none", "live", "left"}

TypeOK ==
  /\ state \in [Tasks -> States] /\ position \in [Tasks -> Nat]
  /\ phase \in [Tasks -> Phases] /\ group \in [Tasks -> Groups]
  /\ stopping \subseteq Tasks /\ killing \subseteq Tasks
  /\ passes \in Nat /\ waiters \in Seq(Tasks)
  /\ recovery \in {"ready", "failed"} /\ booting \in BOOLEAN /\ writeFailed \in BOOLEAN
  /\ draining \in BOOLEAN /\ restarts \in Nat
  /\ disk \in [state : [Tasks -> States], position : [Tasks -> Nat]]

-----------------------------------------------------------------------------
(* The limits. A task counts while it runs and while its processes are given *)
(* time to stop.                                                             *)

(* Mutant: a task that is being stopped gives its slot up at once.           *)
CountedRunning(s, stop) == {t \in Tasks : s[t] = "running"}
Counted(s, stop) == {t \in Tasks : s[t] = "running" \/ (t \in stop /\ s[t] # "absent")}
Held == Counted(state, stopping)
SameOwner(t) == {u \in Tasks : OwnerOf[u] = OwnerOf[t]}
SameRepo(t) == {u \in Tasks : RepoOf[u] = RepoOf[t]}
SameTree(t) == Sharing \cap SameOwner(t) \cap SameRepo(t)

OwnerFits(t, held) ==
  OwnerOf[t] = NoOwner \/ Cardinality(held \cap SameOwner(t)) < OwnerLimit
RepoFits(t, held) == RepoLimit = 0 \/ Cardinality(held \cap SameRepo(t)) < RepoLimit
TreeFits(t, held) == t \notin Sharing \/ held \cap SameTree(t) = {}
Fits(t, held) ==
  /\ Cardinality(held) < MaxAgents
  /\ OwnerFits(t, held) /\ RepoFits(t, held) /\ TreeFits(t, held)

Queued(s) == {t \in Tasks : s[t] = "queued"}
Before(t, u) == position[t] < position[u]
Largest(S) == CHOOSE p \in S : \A q \in S : q <= p
NextPlace == 1 + Largest({0} \cup {position[t] : t \in Queued(state)})
Renumbered(s, place) ==
  [t \in Tasks |-> IF s[t] = "queued"
                     THEN Cardinality({u \in Queued(s) : place[u] <= place[t]}) ELSE 0]

(* Mutant: the queue is not sorted, any task that fits may go first.         *)
LetGoUnsorted(go, s, stop) ==
  LET with(t) == Counted(s, stop) \cup (go \ {t})
  IN \A t \in Queued(s) : t \in go <=> Fits(t, with(t))

(* What a drain of the queue lets go: it starts the first task that fits,    *)
(* again and again. A task that starts never makes room for another, so this *)
(* is every task that fits beside the ones let go before it.                 *)
LetGo(go, s, stop) ==
  \A t \in Queued(s) :
    t \in go <=> Fits(t, Counted(s, stop) \cup {u \in go : Before(u, t)})

(* Nothing leaves the queue while a deployment drains or the index cannot    *)
(* be trusted.                                                               *)
Open == recovery = "ready" /\ ~writeFailed
Moves == Open /\ ~draining

(* The end of an event-loop turn that changed the records to s, the calls to *)
(* ph and the slots of stopped tasks to stop, and drained the queue or not.  *)
Turn(s, ph, stop, drains) ==
  \E go \in IF drains THEN SUBSET Queued(s) ELSE {{}} :
    /\ drains => LetGo(go, s, stop)
    /\ state' = [t \in Tasks |-> IF t \in go THEN "running" ELSE s[t]]
    /\ position' = [t \in Tasks |-> IF t \in Queued(s) \ go THEN position[t] ELSE 0]
    /\ phase' = [t \in Tasks |-> IF t \in go THEN "start" ELSE ph[t]]
    /\ stopping' = stop

-----------------------------------------------------------------------------
(* Creating, reordering.                                                     *)

HasQueueRoom(t) ==
  /\ Cardinality(Queued(state)) < QueueLimit
  /\ Cardinality(Queued(state) \cap SameOwner(t)) < OwnerQueueLimit

Create(t) ==
  /\ state[t] = "absent" /\ Open
  /\ IF draining \/ ~Fits(t, Held)
       THEN /\ HasQueueRoom(t)
            /\ state' = [state EXCEPT ![t] = "queued"]
            /\ position' = [position EXCEPT ![t] = NextPlace]
            /\ UNCHANGED phase
       ELSE /\ state' = [state EXCEPT ![t] = "running"]
            /\ phase' = [phase EXCEPT ![t] = "start"]
            /\ UNCHANGED position
  /\ UNCHANGED <<group, stopping, killing, laneVars, storeVars>>

(* A task changes places with its owner's next one; the queue is renumbered. *)
Reorder(t, u) ==
  /\ {t, u} \subseteq Queued(state) /\ OwnerOf[t] = OwnerOf[u] /\ Before(t, u)
  /\ ~\E x \in Queued(state) : OwnerOf[x] = OwnerOf[t] /\ Before(t, x) /\ Before(x, u)
  /\ position' = Renumbered(state, [position EXCEPT ![t] = position[u], ![u] = position[t]])
  /\ UNCHANGED <<state, procVars, laneVars, storeVars>>

-----------------------------------------------------------------------------
(* The call that runs a task. It rechecks the record after what it awaited,  *)
(* and leaves a task that was stopped meanwhile alone.                       *)

Runs(t) == state[t] = "running"
As(t, s) == [state EXCEPT ![t] = s]
Goes(t, ph) == [phase EXCEPT ![t] = ph]
Child(t) == phase[t] \in {"agent", "command"}

(* The record takes its outcome, whatever it was, and the queue moves.       *)
Finish(t, outcome, ph) == Turn(As(t, outcome), ph, stopping, Moves)

(* Refused by billing or a hook, or the process cannot be started.           *)
CannotRun(t) ==
  /\ phase[t] = "start" /\ Runs(t)
  /\ Finish(t, "finished", Goes(t, "none"))
  /\ UNCHANGED <<group, killing, laneVars, storeVars>>

(* Mutant: the process starts although the task was stopped meanwhile.       *)
SpawnUnchecked(t) ==
  /\ phase[t] = "start"
  /\ phase' = Goes(t, "agent") /\ group' = [group EXCEPT ![t] = "live"]
  /\ UNCHANGED <<state, position, stopping, killing, laneVars, storeVars>>

(* Preferences, billing, hooks, the ownership of the directory, the sandbox  *)
(* and the tool gate are awaited, with the same check after each that does   *)
(* not fail; then the process starts in the turn of the last one. Only when  *)
(* the hooks before a turn are rejected is the check left out, and their     *)
(* service turns what fails into an outcome.                                 *)
Spawn(t) ==
  /\ phase[t] = "start"
  /\ IF Runs(t)
       THEN phase' = Goes(t, "agent") /\ group' = [group EXCEPT ![t] = "live"]
       ELSE phase' = Goes(t, "none") /\ UNCHANGED group
  /\ UNCHANGED <<state, position, stopping, killing, laneVars, storeVars>>

(* The leader exits and its pipes close. What it leaves behind is killed at  *)
(* once, but the stop of a cancelled task gives it the rest of its grace. A  *)
(* task that still runs is settled, explained by its provider, or verified.  *)
AgentCloses(t) ==
  /\ phase[t] = "agent"
  /\ \E left \in {"none", "left"} :
       /\ left = "left" => group[t] = "live" /\ (state[t] = "cancelled" \/ t \in stopping)
       /\ group' = [group EXCEPT ![t] = left]
       /\ killing' = IF left = "none" THEN killing \ {t} ELSE killing
  /\ \/ /\ ~Runs(t)
        /\ phase' = Goes(t, "none")
        /\ UNCHANGED <<state, position, stopping, laneVars>>
     \/ /\ Runs(t)
        /\ Finish(t, "finished", Goes(t, "none"))
        /\ UNCHANGED laneVars
     \/ /\ Runs(t)
        /\ phase' = Goes(t, "explain")
        /\ UNCHANGED <<state, position, stopping, laneVars>>
     \/ /\ Runs(t)
        /\ IF passes < MaxPasses
             THEN passes' = passes + 1 /\ phase' = Goes(t, "entered") /\ UNCHANGED waiters
             ELSE waiters' = Append(waiters, t) /\ phase' = Goes(t, "lane") /\ UNCHANGED passes
        /\ UNCHANGED <<state, position, stopping>>
  /\ UNCHANGED storeVars

Explained(t) ==
  /\ phase[t] = "explain"
  /\ IF Runs(t)
       THEN Finish(t, "finished", Goes(t, "none"))
       ELSE phase' = Goes(t, "none") /\ UNCHANGED <<state, position, stopping>>
  /\ UNCHANGED <<group, killing, laneVars, storeVars>>

-----------------------------------------------------------------------------
(* The verification lane.                                                    *)

(* The calls when t leaves: its slot passes to the first that waits.         *)
Left(t) == IF waiters = <<>> THEN Goes(t, "none")
           ELSE [phase EXCEPT ![t] = "none", ![Head(waiters)] = "entered"]
(* Mutant: the slot is given back although it passes to a waiter.            *)
ReleaseTwice ==
  /\ waiters' = IF waiters = <<>> THEN waiters ELSE Tail(waiters)
  /\ passes' = passes - 1
Release ==
  IF waiters = <<>> THEN passes' = passes - 1 /\ UNCHANGED waiters
  ELSE waiters' = Tail(waiters) /\ UNCHANGED passes

Leave(t) ==
  /\ Release
  /\ phase' = Left(t) /\ UNCHANGED <<state, position, stopping>>

Enter(t) ==
  /\ phase[t] = "entered"
  /\ IF Runs(t)
       THEN phase' = Goes(t, "gate") /\ UNCHANGED <<state, position, stopping, laneVars>>
       ELSE Leave(t)
  /\ UNCHANGED <<group, killing, storeVars>>

(* The gate for empty turns reads the log and the working tree; a turn found *)
(* empty is settled without another look at the record. The git status it    *)
(* runs when the tree could not be read before the turn only reads, for ten  *)
(* seconds at most, and has no group here.                                   *)
FoundEmpty(t) ==
  /\ phase[t] = "gate"
  /\ IF state[t] # "absent" THEN Finish(t, "finished", Left(t)) /\ Release ELSE Leave(t)
  /\ UNCHANGED <<group, killing, storeVars>>
FoundWork(t) ==
  /\ phase[t] = "gate" /\ phase' = Goes(t, "check")
  /\ UNCHANGED <<state, position, stopping, group, killing, laneVars, storeVars>>

(* A script, a fix turn or a review: the record is checked, the ownership of *)
(* the directory awaited, and the process started, or not.                   *)
Command(t) ==
  /\ phase[t] = "check" /\ Runs(t) /\ phase' = Goes(t, "arming")
  /\ UNCHANGED <<state, position, stopping, group, killing, laneVars, storeVars>>
RunCommand(t) ==
  /\ phase[t] = "arming"
  /\ \/ phase' = Goes(t, "command") /\ group' = [group EXCEPT ![t] = "live"]
     \/ phase' = Goes(t, "check") /\ UNCHANGED group
  /\ UNCHANGED <<state, position, stopping, killing, laneVars, storeVars>>
CommandCloses(t) ==
  /\ phase[t] = "command" /\ phase' = Goes(t, "check")
  /\ group' = [group EXCEPT ![t] = "none"] /\ killing' = killing \ {t}
  /\ UNCHANGED <<state, position, stopping, laneVars, storeVars>>

Judge(t) ==
  /\ phase[t] = "check"
  /\ IF Runs(t) THEN Finish(t, "finished", Left(t)) /\ Release ELSE Leave(t)
  /\ UNCHANGED <<group, killing, storeVars>>

-----------------------------------------------------------------------------
(* Stops.                                                                    *)

(* A person cancels a task, or the watchdog of its turn interrupts it. With  *)
(* a process it keeps its slot; without one the queue moves.                 *)
Stop(t, outcome) ==
  /\ state[t] \in {"queued", "running"}
  /\ LET stop == IF Child(t) THEN stopping \cup {t} ELSE stopping
     IN Turn(As(t, outcome), phase, stop, Moves /\ (outcome = "interrupted" \/ ~Child(t)))
  /\ UNCHANGED <<group, killing, laneVars, storeVars>>

(* A task that is over and has a process all the same.                       *)
StopAgain(t) ==
  /\ state[t] \in Settled /\ Child(t) /\ t \notin stopping \cup killing
  /\ killing' = killing \cup {t}
  /\ UNCHANGED <<state, position, phase, group, stopping, laneVars, storeVars>>

(* No output for too long, or the tool gate of the agent never reported in.  *)
Quit(t, outcome) ==
  /\ phase[t] = "agent" /\ Runs(t)
  /\ Finish(t, outcome, phase)
  /\ killing' = killing \cup {t}
  /\ UNCHANGED <<group, laneVars, storeVars>>

(* Mutant: the slot is given back and the queue does not move.               *)
GraceEndsQuietly(t) ==
  /\ t \in stopping
  /\ group' = [group EXCEPT ![t] = "none"]
  /\ Turn(state, phase, stopping \ {t}, FALSE)
  /\ UNCHANGED <<killing, laneVars, storeVars>>
(* The kill of a process group after its grace; a stop gives its slot back.  *)
GraceEnds(t) ==
  /\ t \in stopping
  /\ group' = [group EXCEPT ![t] = "none"]
  /\ Turn(state, phase, stopping \ {t}, Moves)
  /\ UNCHANGED <<killing, laneVars, storeVars>>
Killed(t) ==
  /\ t \in killing
  /\ group' = [group EXCEPT ![t] = "none"] /\ killing' = killing \ {t}
  /\ UNCHANGED <<state, position, phase, stopping, laneVars, storeVars>>

-----------------------------------------------------------------------------
(* The index. Every change asks for a write; writes follow one another, each *)
(* of a whole copy, and one that is under way might as well not have begun.  *)

(* The last restart the model has leaves nobody to read the index.           *)
Blank == [state |-> [t \in Tasks |-> "absent"], position |-> [t \in Tasks |-> 0]]
WriteIndex ==
  /\ recovery = "ready"
  /\ disk' = IF restarts = MaxRestarts THEN Blank ELSE [state |-> state, position |-> position]
  /\ writeFailed' = FALSE
  /\ Turn(state, phase, stopping, writeFailed /\ ~draining)
  /\ UNCHANGED <<group, killing, laneVars, recovery, booting, draining, restarts>>
WriteFails ==
  /\ recovery = "ready" /\ ~writeFailed
  /\ writeFailed' = TRUE
  /\ UNCHANGED <<state, position, procVars, laneVars, recovery, booting, disk, draining, restarts>>

SetDraining ==
  /\ draining' = ~draining
  /\ Turn(state, phase, stopping, draining /\ Open)
  /\ UNCHANGED <<group, killing, laneVars, recovery, booting, writeFailed, disk, restarts>>

(* The backend ends, its processes with it, and starts again: what ran is    *)
(* interrupted, what waited still waits. An index that cannot be read is     *)
(* kept, and nothing is started.                                             *)
Restart ==
  /\ restarts < MaxRestarts /\ restarts' = restarts + 1
  /\ \/ /\ recovery' = "ready" /\ booting' = TRUE
        /\ state' = [t \in Tasks |-> IF disk.state[t] = "running" THEN "interrupted"
                                     ELSE disk.state[t]]
        /\ position' = Renumbered(disk.state, disk.position)
     \/ /\ recovery' = "failed" /\ booting' = FALSE
        /\ state' = [t \in Tasks |-> "absent"] /\ position' = [t \in Tasks |-> 0]
  /\ phase' = [t \in Tasks |-> "none"] /\ group' = [t \in Tasks |-> "none"]
  /\ stopping' = {} /\ killing' = {} /\ passes' = 0 /\ waiters' = <<>>
  /\ writeFailed' = FALSE /\ draining' = FALSE
  /\ disk' = IF restarts' = MaxRestarts THEN Blank ELSE disk

(* The restored queue moves once its index was written, or could not be.     *)
Boot ==
  /\ booting /\ booting' = FALSE
  /\ Turn(state, phase, stopping, Moves)
  /\ UNCHANGED <<group, killing, laneVars, recovery, writeFailed, disk, draining, restarts>>

-----------------------------------------------------------------------------
Init ==
  /\ state = [t \in Tasks |-> "absent"] /\ position = [t \in Tasks |-> 0]
  /\ phase = [t \in Tasks |-> "none"] /\ group = [t \in Tasks |-> "none"]
  /\ stopping = {} /\ killing = {} /\ passes = 0 /\ waiters = <<>>
  /\ recovery = "ready" /\ booting = FALSE /\ writeFailed = FALSE
  /\ disk = Blank
  /\ draining = FALSE /\ restarts = 0

Verify(t) == Enter(t) \/ FoundEmpty(t) \/ FoundWork(t) \/ RunCommand(t) \/ CommandCloses(t)
Advance(t) ==
  \/ Spawn(t) \/ AgentCloses(t) \/ Explained(t)
  \/ Verify(t) \/ GraceEnds(t) \/ Killed(t)
Ask ==
  \E t \in Tasks :
    \/ Create(t) \/ CannotRun(t) \/ Command(t) \/ StopAgain(t)
    \/ \E u \in Tasks : Reorder(t, u)
    \/ \E outcome \in {"cancelled", "interrupted"} : Stop(t, outcome)
    \/ \E outcome \in {"interrupted", "finished"} : Quit(t, outcome)

Next ==
  \/ Ask \/ \E t \in Tasks : Advance(t) \/ Judge(t)
  \/ WriteIndex \/ WriteFails \/ SetDraining \/ Restart \/ Boot

Spec == Init /\ [][Next]_vars

(* What is awaited ends: processes are timed out or stopped by the watchdog  *)
(* of their turn, grace periods and kills are timers, and verification has a *)
(* wall clock.                                                               *)
Fairness == WF_vars(Boot) /\ \A t \in Tasks : WF_vars(Advance(t)) /\ SF_vars(Judge(t))
FairSpec == Spec /\ Fairness

-----------------------------------------------------------------------------
(* Properties.                                                               *)

Within(held) ==
  /\ Cardinality(held) <= MaxAgents
  /\ \A t \in Tasks : OwnerOf[t] # NoOwner => Cardinality(held \cap SameOwner(t)) <= OwnerLimit
  /\ \A t \in Tasks : RepoLimit # 0 => Cardinality(held \cap SameRepo(t)) <= RepoLimit
  /\ \A t, u \in held : t \in SameTree(u) /\ u \in Sharing => t = u
(* However creations, stops, grace periods and drains interleave, the tasks  *)
(* that run or are being stopped respect the limits, and only one of them    *)
(* has an account's shared working tree.                                     *)
LimitsRespected == Within({t \in Tasks : Runs(t)} \cup stopping)

(* An agent's processes belong to a task that runs, to one that is being     *)
(* stopped and keeps its slot, or are about to be killed: no stop, whenever  *)
(* it lands, leaves an agent behind that nobody ends.                        *)
NoStrayAgent ==
  \A t \in Tasks :
    group[t] # "none" /\ phase[t] # "command" => Runs(t) \/ t \in stopping \cup killing

(* No task waits that could start, whoever gave the room up: every way a     *)
(* slot becomes free moves the queue. While the queue may not move, and      *)
(* until a restored one has moved first, tasks do wait.                      *)
NothingEligibleWaits ==
  Moves /\ ~booting => \A t \in Queued(state) : ~Fits(t, Held)

(* Two tasks that compete for the same working tree start in the order of    *)
(* the queue, also against one that is only being created: it does not slip  *)
(* into the slot a waiting one is due.                                       *)
NoOvertaking ==
  [][\A t, u \in Tasks :
       /\ t \in SameTree(u) /\ u \in Sharing /\ ~booting
       /\ state[u] = "queued" /\ state'[u] = "queued"
       /\ state[t] = "absent" \/ (state[t] = "queued" /\ Before(u, t))
       => state'[t] # "running"]_vars

Inside(ph) == {t \in Tasks : ph[t] \in {"entered", "gate", "check", "arming", "command"}}
Outside(ph) == {t \in Tasks : ph[t] = "lane"}
(* The slots of the verification lane are the calls that are inside it, and  *)
(* who waits does so because it is full, whoever was stopped meanwhile.      *)
LaneIsAccounted ==
  /\ passes = Cardinality(Inside(phase)) /\ passes <= MaxPasses
  /\ Outside(phase) = {waiters[i] : i \in 1 .. Len(waiters)}
  /\ Cardinality(Outside(phase)) = Len(waiters)
  /\ Outside(phase) # {} => passes = MaxPasses

(* Once failed writes and deployments are over, no queued task waits forever *)
(* behind slots, stops, verifications and restarts.                          *)
QueueMoves == <>[]Moves => \A t \in Tasks : state[t] = "queued" ~> state[t] # "queued"
=============================================================================
