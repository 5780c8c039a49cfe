-------------------------- MODULE WorkflowDispatch --------------------------
(* The dispatcher (node/qaap-workflow-dispatcher.ts) between a run and the   *)
(* two runtimes that do its work: agent turns, which are claimed before they *)
(* are created, and jobs, which are created under a key of their visit. The  *)
(* run itself is WorkflowRun's, every step of it an action of that module.   *)
(*                                                                           *)
(* A piece of work is <<node, visit, life>>: in a life of the backend a      *)
(* visit is started once. Its runtime keeps it apart from the run's store,   *)
(* and neither knows what the other has on disk. The code between two awaits *)
(* of I/O is one turn of the event loop: only a crash comes between its      *)
(* steps. A thread is one asynchronous call: todo is the stack of what it    *)
(* still has to do, each level a set whose order does not matter, and wait   *)
(* what it is waiting for: nothing, the state of a piece of work, or the     *)
(* other runs it handles first.                                              *)
EXTENDS WorkflowRun

CONSTANTS MaxRestarts, MaxSweeps   \* bounds: crashes, deadline sweeps that find a node

VARIABLES
  work,         \* piece of work -> its state and the last life that made it or had it on record
  dispatched,   \* node -> the work recorded for it, or None
  claims,       \* node -> the visit claimed for it, or 0
  threads,
  life,         \* which life of the backend this is
  sweeps        \* how often the deadline sweep found a node

dispatchVars == <<work, dispatched, claims, threads, life, sweeps>>
allVars == <<vars, dispatchVars>>

None == <<>>
Others == <<"other-runs">>
Works == DOMAIN work
Running(w) == w \in Works /\ work[w].state = "live"
Dispatchable(n) == Kind(n) \in {"agent-turn", "deterministic"}

-----------------------------------------------------------------------------
(* Threads.                                                                  *)

Level(items) == IF items = {} THEN <<>> ELSE <<items>>
Thread(todo, wait) == [todo |-> todo, wait |-> wait]
Alive(t) == t.todo # <<>> \/ t.wait # None
Ready(t) == t \in threads /\ t.wait = None /\ swept # "found"
Idle == \A t \in threads : t.wait # None

Has(t, item) == Ready(t) /\ item \in Head(t.todo)
After(t, item) == Level(Head(t.todo) \ {item}) \o Tail(t.todo)
Goes(t, todo, wait) ==
  threads' = (threads \ {t}) \cup {u \in {Thread(todo, wait)} : Alive(u)}

(* What a report released: the loop starts the work, then settles the joins. *)
Released ==
  LET new == IF active' = {} THEN {} ELSE {n \in Ids(Def) : visits'[n] > visits[n]}
  IN Level({<<"start", n, visits'[n]>> : n \in {n \in new : Dispatchable(n)}})
       \o Level({<<"settle", n>> : n \in new \cap Joins})

(* The store books a report and forgets who worked on the node.              *)
Book(n, outcome) ==
  /\ IF Kind(n) = "join" THEN SettleJoin(n) ELSE Report(n, outcome)
  /\ dispatched' = [dispatched EXCEPT ![n] = None]
  /\ claims' = [claims EXCEPT ![n] = 0]

(* A report of a node that is not active is ignored.                         *)
Told(t, n, outcome, rest) ==
  IF n \in active
    THEN Book(n, outcome) /\ Goes(t, Released \o rest, None)
    ELSE UNCHANGED <<vars, dispatched, claims>> /\ Goes(t, rest, None)

-----------------------------------------------------------------------------
(* Starting work.                                                            *)

Made(n, v) == <<n, v, life>>
Create(w) ==
  work' = [x \in Works \cup {w} |-> IF x = w THEN [state |-> "live", life |-> life] ELSE work[x]]
Stop(w) == work' = IF Running(w) THEN [work EXCEPT ![w].state = "blocked"] ELSE work

(* An agent turn is claimed for its visit. A visit that is no longer the     *)
(* node's is a failure to start; one with work already gets that work.       *)
Claim(t, n, v) ==
  /\ Has(t, <<"start", n, v>>) /\ Kind(n) = "agent-turn"
  /\ LET rest == After(t, <<"start", n, v>>) IN
     \/ /\ n \notin active \/ visits[n] # v
        /\ Told(t, n, "fail", rest)
     \/ /\ n \in active /\ visits[n] = v /\ dispatched[n] # None
        /\ Goes(t, rest, dispatched[n])
        /\ UNCHANGED <<vars, dispatched, claims>>
     \/ /\ n \in active /\ visits[n] = v /\ dispatched[n] = None /\ claims[n] = 0
        /\ claims' = [claims EXCEPT ![n] = v]
        /\ Goes(t, <<{<<"create", n, v>>}>> \o rest, None)
        /\ UNCHANGED <<vars, dispatched>>
  /\ UNCHANGED <<work, life, sweeps>>

CreateTurn(t, n, v) ==
  /\ Has(t, <<"create", n, v>>)
  /\ Create(Made(n, v))
  /\ Goes(t, <<{<<"complete", n, Made(n, v)>>}>> \o After(t, <<"create", n, v>>), None)
  /\ UNCHANGED <<vars, dispatched, claims, life, sweeps>>

(* The claim becomes the record of the work, which the dispatcher then       *)
(* records once more, to no effect. If the claim is no longer valid the turn *)
(* is cancelled and the node fails.                                          *)
Complete(t, n, w) ==
  /\ Has(t, <<"complete", n, w>>)
  /\ IF n \in active /\ visits[n] = w[2] /\ claims[n] = w[2]
       THEN /\ dispatched' = [dispatched EXCEPT ![n] = w]
            /\ claims' = [claims EXCEPT ![n] = 0]
            /\ Goes(t, After(t, <<"complete", n, w>>), w)
            /\ UNCHANGED <<vars, work>>
       ELSE Stop(w) /\ Told(t, n, "fail", After(t, <<"complete", n, w>>))
  /\ UNCHANGED <<life, sweeps>>

(* Mutant: the key of a job names the node but not the visit.                *)
JobOfNode(n, v) ==
  IF \E w \in Works : w[1] = n THEN CHOOSE w \in Works : w[1] = n ELSE Made(n, v)
(* A job is created under the key of its visit, which finds it again.        *)
JobOf(n, v) ==
  IF \E w \in Works : w[1] = n /\ w[2] = v
    THEN CHOOSE w \in Works : w[1] = n /\ w[2] = v
    ELSE Made(n, v)

CreateJob(t, n, v) ==
  /\ Has(t, <<"start", n, v>>) /\ Kind(n) = "deterministic"
  /\ IF JobOf(n, v) \in Works THEN UNCHANGED work ELSE Create(JobOf(n, v))
  /\ Goes(t, <<{<<"attach", n, JobOf(n, v)>>}>> \o After(t, <<"start", n, v>>), None)
  /\ UNCHANGED <<vars, dispatched, claims, life, sweeps>>

(* A job is recorded and looked at once: it may have ended by now. A record  *)
(* of other work refuses it, and it is cancelled.                            *)
(* Mutant: it is not looked at.                                              *)
AttachAndTrust(t, n, w) ==
  /\ Has(t, <<"attach", n, w>>)
  /\ dispatched' = [dispatched EXCEPT ![n] = w]
  /\ Goes(t, After(t, <<"attach", n, w>>), None)
  /\ UNCHANGED <<vars, work, claims, life, sweeps>>
Attach(t, n, w) ==
  /\ Has(t, <<"attach", n, w>>)
  /\ LET rest == After(t, <<"attach", n, w>>) IN
     IF dispatched[n] \notin {None, w} THEN Stop(w) /\ Told(t, n, "fail", rest)
     ELSE /\ UNCHANGED work
          /\ IF Running(w) \/ n \notin active
               THEN /\ dispatched' = [dispatched EXCEPT ![n] = w]
                    /\ Goes(t, rest, None)
                    /\ UNCHANGED <<vars, claims>>
               ELSE Told(t, n, work[w].state, rest)
  /\ UNCHANGED <<life, sweeps>>

(* Neither runtime took the work: no agent, no room, no such function.       *)
StartFails(t, n, v) ==
  /\ \/ Has(t, <<"create", n, v>>) /\ Told(t, n, "fail", After(t, <<"create", n, v>>))
     \/ /\ Has(t, <<"start", n, v>>) /\ Kind(n) = "deterministic"
        /\ Told(t, n, "fail", After(t, <<"start", n, v>>))
  /\ UNCHANGED <<work, life, sweeps>>

SettleNode(t, n) ==
  /\ Has(t, <<"settle", n>>)
  /\ Told(t, n, "success", After(t, <<"settle", n>>))
  /\ UNCHANGED <<work, life, sweeps>>

-----------------------------------------------------------------------------
(* Work ends.                                                                *)

(* The runtime announces the end of work. The end of a job is booked at      *)
(* once; the log of a turn is read first. Work nobody recorded is not known  *)
(* to any run. Work can end in the very turn that creates it.                *)
WorkEnds(w, outcome) ==
  LET n == w[1] IN
  /\ Running(w) /\ outcome \in Outcomes(Def.node[n]) /\ swept # "found"
  /\ Idle \/ \E t \in threads : Has(t, <<"complete", n, w>>) \/ Has(t, <<"attach", n, w>>)
  /\ work' = [work EXCEPT ![w].state = outcome]
  /\ IF dispatched[n] = w /\ n \in active
       THEN IF Kind(n) = "agent-turn"
              THEN /\ threads' = threads \cup {Thread(<<>>, w)}
                   /\ UNCHANGED <<vars, dispatched, claims>>
              ELSE /\ Book(n, outcome)
                   /\ threads' = threads \cup {u \in {Thread(Released, None)} : Alive(u)}
       ELSE UNCHANGED <<vars, dispatched, claims, threads>>
  /\ UNCHANGED <<life, sweeps>>

(* A thread gets the answer it waited for. What ended is booked for the node *)
(* that has it on record; what still runs will announce its end; what the    *)
(* runtime lost in a restart has failed.                                     *)
Resume(t) ==
  /\ t \in threads /\ t.wait # None /\ Idle /\ swept # "found"
  /\ IF t.wait = Others \/ Running(t.wait)
       THEN Goes(t, t.todo, None) /\ UNCHANGED <<vars, dispatched, claims>>
       ELSE LET n == t.wait[1] IN
            IF t.wait \notin Works THEN Told(t, n, "fail", t.todo)
            ELSE IF dispatched[n] = t.wait THEN Told(t, n, work[t.wait].state, t.todo)
            ELSE Goes(t, t.todo, None) /\ UNCHANGED <<vars, dispatched, claims>>
  /\ UNCHANGED <<work, life, sweeps>>

ContinueGate(n) ==
  /\ Idle /\ Continue(n)
  /\ dispatched' = [dispatched EXCEPT ![n] = None]
  /\ claims' = [claims EXCEPT ![n] = 0]
  /\ threads' = threads \cup {u \in {Thread(Released, None)} : Alive(u)}
  /\ UNCHANGED <<work, life, sweeps>>

-----------------------------------------------------------------------------
(* Deadlines.                                                                *)

(* The sweep copies the unfinished runs and then handles one after another:  *)
(* what it found of this run may be some time ago when its turn comes.       *)
SweepNodes(late) ==
  /\ Idle /\ status = "running" /\ swept = "no" /\ sweeps < MaxSweeps
  /\ late # {} /\ late \subseteq {n \in active : dispatched[n] # None}
  /\ sweeps' = sweeps + 1
  /\ threads' = threads \cup {Thread(<<{<<"give-up", n, dispatched[n]>> : n \in late}>>, Others)}
  /\ UNCHANGED <<vars, work, dispatched, claims, life>>

(* The node fails first, what that releases is started, and then the work is *)
(* cancelled: its own announcement finds nobody waiting.                     *)
GiveUp(t, n, w) ==
  /\ Has(t, <<"give-up", n, w>>)
  /\ Told(t, n, "fail", <<{<<"cancel", n, w>>}>> \o After(t, <<"give-up", n, w>>))
  /\ UNCHANGED <<work, life, sweeps>>
Cancel(t, n, w) ==
  /\ Has(t, <<"cancel", n, w>>)
  /\ Stop(w)
  /\ Goes(t, After(t, <<"cancel", n, w>>), None)
  /\ UNCHANGED <<vars, dispatched, claims, life, sweeps>>

(* The run itself is too old: its work is cancelled and it ends. A job       *)
(* announces its end before that, a turn only after.                         *)
AttachedWork(kind) == {n \in active : Kind(n) = kind /\ Running(dispatched[n])}
SweepRun ==
  /\ Idle /\ SweepFinds(AttachedWork("deterministic"))
  /\ work' = [w \in Works |-> IF \E n \in active : dispatched[n] = w /\ Running(w)
                                THEN [work[w] EXCEPT !.state = "blocked"] ELSE work[w]]
  /\ threads' = threads \cup {Thread(<<>>, dispatched[n]) : n \in AttachedWork("agent-turn")}
  /\ UNCHANGED <<dispatched, claims, life, sweeps>>
JobCancelled(n) ==
  /\ swept = "found" /\ n \in doomed /\ n \in active
  /\ Book(n, "blocked")
  /\ threads' = threads \cup {u \in {Thread(Released, None)} : Alive(u)}
  /\ UNCHANGED <<work, life, sweeps>>
RunExpires ==
  /\ Expire
  /\ dispatched' = [n \in Ids(Def) |-> None]
  /\ claims' = [n \in Ids(Def) |-> 0]
  /\ UNCHANGED <<work, threads, life, sweeps>>

-----------------------------------------------------------------------------
(* Restarts.                                                                 *)

(* What a boot does about the unfinished run it restored, in one thread that *)
(* may handle other runs first: joins are settled, a claimed start is made   *)
(* again, a start without claim or record failed, and recorded work is       *)
(* looked up. A gate waits for its person.                                   *)
BootWork ==
  LET open == {n \in active : dispatched[n] = None}
  IN Level({<<"settle", n>> : n \in open \cap Joins}
             \cup {<<"replay", n>> : n \in {n \in open : Dispatchable(n) /\ claims[n] # 0}}
             \cup {<<"interrupt", n>> : n \in {n \in open : Dispatchable(n) /\ claims[n] = 0}})
       \o Level({<<"look-up", n, dispatched[n]>> : n \in {n \in Ids(Def) : dispatched[n] # None}})

(* The backend dies between any two steps. The store is on disk; a runtime   *)
(* keeps what was queued, interrupts what was running, and may have written  *)
(* neither the work nor its end.                                             *)
Restart(lost, interrupted) ==
  /\ life < MaxRestarts /\ swept # "found" /\ status # "none"
  /\ LET shaky == {w \in Works : Running(w) \/ w \in {dispatched[n] : n \in Ids(Def)}}
     IN lost \cup interrupted \subseteq shaky /\ lost \cap interrupted = {}
  /\ life' = life + 1
  /\ work' = [w \in Works \ lost |->
                [state |-> IF w \in interrupted THEN "fail" ELSE work[w].state,
                 life  |-> IF \E n \in Ids(Def) : dispatched[n] = w THEN life + 1 ELSE work[w].life]]
  /\ threads' = IF status \in Live /\ BootWork # <<>> THEN {Thread(BootWork, Others)} ELSE {}
  /\ UNCHANGED <<vars, dispatched, claims, sweeps>>

Replay(t, n) ==
  /\ Has(t, <<"replay", n>>)
  /\ claims' = [claims EXCEPT ![n] = 0]
  /\ Goes(t, <<{<<"start", n, visits[n]>>}>> \o After(t, <<"replay", n>>), None)
  /\ UNCHANGED <<vars, work, dispatched, life, sweeps>>
Interrupt(t, n) ==
  /\ Has(t, <<"interrupt", n>>)
  /\ Told(t, n, "fail", After(t, <<"interrupt", n>>))
  /\ UNCHANGED <<work, life, sweeps>>
(* Mutant: work that is still queued counts as lost.                         *)
LookUpImpatient(t, n, w) ==
  /\ Has(t, <<"look-up", n, w>>)
  /\ IF Running(w) THEN Told(t, n, "fail", After(t, <<"look-up", n, w>>))
       ELSE Goes(t, After(t, <<"look-up", n, w>>), w) /\ UNCHANGED <<vars, dispatched, claims>>
  /\ UNCHANGED <<work, life, sweeps>>
LookUp(t, n, w) ==
  /\ Has(t, <<"look-up", n, w>>)
  /\ Goes(t, After(t, <<"look-up", n, w>>), w)
  /\ UNCHANGED <<vars, work, dispatched, claims, life, sweeps>>

-----------------------------------------------------------------------------
DispatchInit ==
  /\ Init
  /\ work = <<>> /\ threads = {} /\ life = 0 /\ sweeps = 0
  /\ dispatched = [n \in Ids(Def) |-> None]
  /\ claims = [n \in Ids(Def) |-> 0]

Launch ==
  /\ Start
  /\ threads' = {u \in {Thread(Released, None)} : Alive(u)}
  /\ UNCHANGED <<work, dispatched, claims, life, sweeps>>

(* One step of a thread that runs.                                           *)
ThreadStep(t) ==
  /\ Ready(t)
  /\ \E item \in Head(t.todo) :
       LET n == item[2] IN
       \/ SettleNode(t, n) \/ Replay(t, n) \/ Interrupt(t, n)
       \/ /\ Len(item) = 3
          /\ \/ Claim(t, n, item[3]) \/ CreateTurn(t, n, item[3]) \/ Complete(t, n, item[3])
             \/ CreateJob(t, n, item[3]) \/ Attach(t, n, item[3]) \/ StartFails(t, n, item[3])
             \/ GiveUp(t, n, item[3]) \/ Cancel(t, n, item[3]) \/ LookUp(t, n, item[3])

(* What goes on by itself: threads, the runtimes, and a sweep once begun.    *)
Progress ==
  \/ \E t \in threads : ThreadStep(t) \/ Resume(t)
  \/ \E w \in Works : \E o \in Outcomes(Def.node[w[1]]) : WorkEnds(w, o)
  \/ \E n \in doomed : JobCancelled(n)
  \/ RunExpires

DispatchNext ==
  \/ Launch
  \/ Progress
  \/ \E n \in Ids(Def) : ContinueGate(n)
  \/ \E late \in SUBSET active : SweepNodes(late)
  \/ SweepRun
  \/ Tick /\ UNCHANGED dispatchVars
  \/ \E lost, interrupted \in SUBSET Works : Restart(lost, interrupted)

DispatchSpec == DispatchInit /\ [][DispatchNext]_allVars
FairDispatchSpec == DispatchSpec /\ WF_allVars(Progress)

-----------------------------------------------------------------------------
(* Nothing of an earlier round answers for a later one: the work on record   *)
(* for an active node was made for the visit the node is on, over loops,     *)
(* restarts and deadlines (qaap-workflow-dispatcher.ts:28-31,                *)
(* qaap-workflow-runtime-ports.ts:450-454). A graph with a fan-out in a loop *)
(* may break it after the deadline sweep failed a node whose start was still *)
(* to be made.                                                               *)
RecordIsOfThisVisit ==
  \A n \in active : dispatched[n] # None => dispatched[n][1] = n /\ dispatched[n][2] = visits[n]

(* No work of this life runs behind the back of the graph: it is on record   *)
(* for an active node or in the turn that puts it there, also after a branch *)
(* or the run has ended. What a limit ends is left out: the deadline sweep   *)
(* may act on an earlier visit and an expired run may still start a job      *)
(* (qaap-workflow-dispatcher.ts:155-160, 338-340), and nobody cancels what   *)
(* runs beside a node the budget refuses (qaap-workflow-run.ts:271-278).     *)
NothingStrays ==
  sweeps = 0 /\ swept = "no" /\ ~Exhausted =>
    \A w \in Works : Running(w) /\ work[w].life = life =>
      \/ dispatched[w[1]] = w /\ w[1] \in active
      \/ \E t \in threads : t.todo # <<>> /\
           Head(t.todo) \cap {<<"complete", w[1], w>>, <<"attach", w[1], w>>} # {}

(* Every run ends or waits for a person, whenever the backend dies and       *)
(* whatever it forgot: each piece of work is answered for                    *)
(* (qaap-workflow-dispatcher.ts:256-260).                                    *)
DispatchConcludes == status = "running" ~> status \in Ended \cup {"awaiting-human"}
=============================================================================
