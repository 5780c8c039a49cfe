# Formal models of the QAAP backend

QAAP is an agentic cloud IDE: a Theia product in which users hand tasks to
coding agents, shell commands and workflows of both, which a Node backend runs
while the browser is closed. The product's own code lives in
`packages/qaap-*`; everything else in the repository is the upstream IDE. This
directory holds TLA+ specifications of the backend's schedulers, the TLC
configurations that check them and proofs for TLAPS.

Paths below are relative to `src/packages/qaap-cloud-workspace/src/` unless
they say otherwise.

## 1. Inventory

The backend is one JavaScript process per tenant: handlers run to completion,
and what interleaves is handlers, timers, promises, child processes and disk
writes. It may be killed at any time and boots from what it wrote.

| Component | State | Operations | Hard behaviours | What makes it correct |
|---|---|---|---|---|
| Job runtime (`node/qaap-job-runtime*.ts`, `common/qaap-job.ts`) | job and graph tables, idempotency index, retry/timeout/termination timers, process and abort handles, JSON index on disk | create, createGraph, cancel, drain, retry, prune, shutdown, restore | events that outlive the attempt they belong to, timers against events, crash with writes still queued | budgets and leases hold, nothing queued is forgotten, a finished job stays finished, a restart loses no dependency |
| Job functions, endpoint, loop templates (`node/qaap-job-function-registry.ts`, `qaap-job-endpoint.ts`) | registry | register, HTTP routes | abort against settle | a function's result is booked at most once |
| Workflow reducer (`common/qaap-workflow-ir.ts`, `-run.ts`, `-outcome.ts`) | active nodes, visits, join arrivals, bindings, budgets | start, advance, timeouts, expiry | loops through joins, late arrivals, dead ends | every run ends, budgets hold, a join fires for the right arrivals |
| Workflow store and dispatcher (`node/qaap-workflow-run-store.ts`, `-dispatcher.ts`, `-service.ts`, `-runtime-ports.ts`) | runs with external ids and claims, SQLite rows | start, adopt, report, attach, claim, reconcile, sweep | an agent finishing before its id is attached, a crash between creating work and recording it, claim stealing | one external work per node visit, no active node without work |
| Agent task runner (`node/qaap-agent-task-runner*.ts`, `-queue-policy.ts`, `-spawn-gate.ts`) | tasks, queue, processes, stopping slots, verification lane, JSON index | create, reorder, drain, spawn, stop, verify, persist, restore | stops that land during any await, slots given back after a grace period, failed index writes | limits hold, nothing that fits waits, no agent is left without an owner |
| Conversation store (`node/qaap-agent-conversation-store*.ts`, `qaap-conversation-event-log.ts`) | conversations, event log, worktrees | turn, append, rewind, compact | append against compaction, crash | replay gives the state that was shown |
| Task to PR (`node/qaap-task-pull-request-service.ts`, `-consent-store.ts`) | the pull request's record, timers, one sync chain per conversation; branch and pull request at GitHub | schedule, sync, push, publish, consent | restores and rewinds during a sync, foreign pushes, failed or lost calls, restarts | the branch holds what the conversation kept, and the record says the truth about it |
| Plan fan-out (`node/qaap-task-plan-fanout-service.ts`) | plans | approve, launch | retries after partial success | nothing is launched twice |
| Goal loop, research (`node/qaap-agent-goal-loop-runner.ts`, `qaap-research-*.ts`) | loops, ledgers | iterate, verify, stop | stop against verification | iterations stay within the budget |
| External tasks (`node/qaap-external-task-*.ts`) | intake records | receive, launch, notify | duplicate deliveries | one task per item |
| Routines (`node/qaap-work-hub-routine-*.ts`) | routines, last run | schedule, run | restart around a slot | a slot fires at most once |
| Push (`node/qaap-push-*.ts`) | outbox, subscriptions | enqueue, drain, expire | crash between send and delete | every notice is sent or expires |
| Tool gate and approvals (`node/qaap-tool-gate-*.ts`, `qaap-agent-approval-store.ts`) | pending asks, tokens | ask, answer, time out | answer against timeout | one answer per ask |
| Billing (`node/qaap-billing-*.ts`) | quotas | reserve, settle | concurrent turns | no turn beyond the quota |
| Tenants and containers (`node/qaap-tenant-*.ts`, `qaap-docker-*.ts`) | containers, activity | wake, proxy, reap | request against reap | a busy tenant is not reaped |
| Worktrees, previews (`node/qaap-worktree-*.ts`, `qaap-preview-*.ts`) | ordinals, ports, processes | allocate, collect, supervise | restart | no ordinal is shared |
| Persistence (`packages/qaap-persistence`) | SQLite rows | put, get, transact | none of its own | a write is atomic |
| UI packages, shared DTOs and decoders | browser state | rendering | - | not modelled |
| Theia platform | - | - | - | not modelled |

Interactions: a workflow starts agent tasks and jobs and hears of their end
through events; the dispatcher creates deterministic work in the job runtime
with an idempotency key per node visit; conversations, goal loops, fan-outs,
external tasks and routines create agent tasks; all of them persist through
JSON files or SQLite and are rebuilt at boot.

## 2. Modules and plan

| Module | What it is | Uses |
|---|---|---|
| `JobRuntime` | the scheduler of `node/qaap-job-runtime*.ts`, one action per handler | |
| `JobLedger` | what the runtime promises its clients, as an abstract specification | instantiated by `JobRuntime` |
| `MCJobRuntime` | the requests, graphs and limits of the job runs | `JobRuntime` |
| `JobRuntimeProofs` | type correctness and the inductive invariant of the job table | `JobRuntime` |
| `JobSafetyProofs` | leases, budgets, dependencies and outcomes, for every instance | `JobRuntimeProofs` |
| `JobControlProofs` | handles and processes, order of writers, the idempotency index, wake-ups; the runtime implements the ledger, and outcomes on disk stay | `JobSafetyProofs`, `JobLedger` |
| `WorkflowIR` | nodes, edges, outcomes and the validation of a definition | |
| `WorkflowShapes` | shapes of a definition from which the promises of its runs follow | `WorkflowIR` |
| `WorkflowRun` | one run: the reducer as the store applies it to reports | `WorkflowShapes` |
| `WorkflowTemplates` | every definition the template registry and the chat turn build | `WorkflowIR` |
| `TemplateShapes` | every definition of the product has those shapes, as assumptions TLC evaluates | `WorkflowShapes`, `WorkflowTemplates` |
| `WorkflowAudit` | a run with its history, and what it may conclude from it | `WorkflowRun` |
| `MCWorkflow` | the product's definitions with their budgets | `WorkflowAudit`, `WorkflowTemplates` |
| `MCWorkflowGraphs` | graphs no template has | `WorkflowAudit` |
| `WorkflowRunProofs` | types, progress, budgets and strands of a run | `WorkflowRun` |
| `WorkflowAuditProofs` | what a run may conclude, from the shape of its definition | `WorkflowAudit`, `WorkflowRunProofs` |
| `WorkflowDispatch` | claims, records of work, threads of the dispatcher, both runtimes, crashes and boots | `WorkflowRun` |
| `MCWorkflowDispatch` | a repair loop, and a turn beside a job before a join behind a gate | `WorkflowDispatch`, `TemplateShapes` |
| `WorkflowDispatchProofs` | the dispatcher implements the run, its records are of the visit, no work strays | `WorkflowDispatch`, `WorkflowRunProofs` |
| `AgentTasks` | the queue of agent turns, its slots, a turn with all its awaits, the index | |
| `MCAgentTasks` | two turns in one shared working tree | `AgentTasks` |
| `AgentTasksProofs` | types, limits, lane, processes and queue order, for every instance | `AgentTasks` |
| `TaskPullRequest` | the pull request of one conversation, with its own bounds | |
| `TaskPullRequestProofs` | the record and the branch agree, for any number of turns, restores and faults | `TaskPullRequest` |

The order followed what the rest of the backend stands on: the job runtime,
then the reducer that decides what starts next and the definitions it is fed,
then the dispatcher that composes the run with the two runtimes, the runner of
agent turns, and the service that turns finished turns into a pull request.

Four abstract specifications relate the modules: `JobLedger` is what
`JobRuntime` implements (`job_restart`, and a theorem); `WorkflowRun` is what
`WorkflowDispatch` implements (a theorem); `WorkflowAudit` watches `WorkflowRun`
without guarding it; and the dispatcher uses of `JobRuntime` only the idempotent
admission its ledger states and of `AgentTasks` only that a turn it created ends
once, so neither is composed with it.

A later extension would take, in this order: the records of the dispatcher
after a deadline sweep, once the sweep looks at the run again before it acts
(section 8); the chat turns a conversation adopts, against the ceilings it
counts itself.

The modules are built to be proved about: constants carry named assumptions, an
operation is one action, a helper that several handlers share (`Finish`,
`FailAttempt`, `Terminate`, `Dispatch`, `Settle`, `Turn`) is one operator with
one lemma, and no module declares a recursive operator (`Reachable` and `Within`
use recursive functions).

## 3. The job runtime

### Correspondence

| Model | Code |
|---|---|
| `state`, `attempt`, `born` | the `jobs` Map: `state`, `attempt`, and the insertion position, which `drainQueue` iterates and compares by |
| `graphs`, `idempotencyIndex` | the graph records and the index of owner and key |
| `due`, `retryTimer`, `timeoutTimer` | `nextAttemptAt` in the past, `retryTimers`, `timeoutTimers` |
| `child`, `handle` | what each attempt's process group or promise really does; `processes`/`abortControllers`, which remember one per job |
| `escalation`, `terminationTimer` | the SIGKILL timers pending, and the one per job that `terminationTimers` remembers |
| `draining`, `cursor`, `persistAfter` | where `drainQueue` is in its loop, and whether its caller persists afterwards |
| `journal` | the index on disk followed by the queued writes of `persist()` |
| `Create`, `CreateGraph`, `Cancel`, `Shutdown`, `Prune`, `Restart` | the operations of the same name (`init` and `restorePersistedIndex` for `Restart`; `Boot` from the index, or from one that cannot be read, `Unread`) |
| `DrainRetry`, `DrainDependencyFailed`, `DrainReadiness`, `DrainStart`, `DrainStartFails`, `DrainEnd` | one visit of the first loop of `drainQueue`, one start of the second, its end |
| `ChildError`, `ProcessClose`, `FunctionSettles` | the `error` and `close` events and the promise of an attempt, which name the job and not the attempt |
| `AttemptTimeout`, `Escalate`, `BackoffElapses`, `RetryWake` | the timers, and time itself |
| `WriteSnapshot` | the head of the write queue reaches the disk or fails |

Handlers run to completion, so while `draining` holds only drain steps, the
clock and the disk move. A drain step by step rather than in one action keeps
the order in which the Map is visited, on which the propagation of a failed
dependency depends.

Requests are constants: the runtime never changes a job's owner, workspace,
access, lane, kind, dependencies or retry policy. A job id is used once, as a
random UUID is. Logs, results, validation of paths and environments and the
DTOs are left out; none of them is read by the scheduler. `Prune` may drop any
set of prunable jobs, so every retention setting is covered. Children that a
dead backend leaves behind leave the model with it. An index that cannot be
read leaves the table empty and is not written over by starting, but by the next
operation that persists: the jobs on it are lost, and `DurableOutcome` says that
this is the one way to lose an outcome at a restart.

### Runs

| Run | Instance | Question |
|---|---|---|
| `job_safety` | a writer with two attempts, a reader of its workspace by another owner, a function of the first owner; one slot per owner; 314,108 states | do types, budgets, leases, wake-ups, handles, outcomes and the writers' turn survive every interleaving of events, timers, cancels, retention and shutdown |
| `job_restart` | a keyed writer with two attempts, a dependent, a second request under the same key; one restart, from the index or from one that cannot be read, two writes in flight; 495,574 states | do dependencies, keys and written outcomes survive a crash at any moment, does a node start only after all it depends on, and does the runtime implement the ledger |
| `job_graph` | a diamond whose root may be tried twice, under `FairSpec` | does every job end, is a terminated process gone in the end |
| `job_stranded`, `job_stale_attempt` | the smallest instance of each | what a document says and the code does not keep (section 8) |

Bounds. `MaxRetryAttempts = 2` is the first value with a retry; a third attempt
adds no new pair of attempts to confuse. One restart is the first with a lost
suffix of the journal; a second starts from a state of the same kind. `MaxLag`
limits the writes in flight when a handler starts, not those a handler adds.
Three jobs are the least with a budget, a lease and a bystander in conflict at
once. Jobs are not symmetric (their requests differ), so no symmetry is used.
`job_safety` does not restart and `job_restart` runs few jobs because their
product is too large; the theorems of section 7 cover both at once.

Fairness (`Fairness`): the drain loop, the disk and the runtime's own timers go
on, and a process that got SIGKILL is reported closed. Nothing is assumed of a
command or a function, not even that it ends: the attempt timeout, which the
runtime arms for every attempt, bounds it.

`ImplementsLedger` maps the job states to the five phases of `JobLedger`; a
restart is the ledger's `Recover`.

## 4. Workflows

### Correspondence

| Model | Code |
|---|---|
| a definition `[entry, node, edges]` | `QaapWorkflowDef`; ids are the domain of `node` |
| `ValidDef`, `FanOuts`, `ConcurrentWriters` | `validateQaapWorkflowDef`, `findConcurrentCwdWriterIssues` |
| `Matched` | the edges `stepQaapWorkflow` takes, with the base outcome a rich outcome falls back to |
| `Outcomes` | what `qaap-workflow-outcome.ts` and the chat turn resolver can report for a node |
| `plan` | the definition and the budget a run embeds, from `start` or `adoptRun` |
| `status` ... `reason` | the fields of `QaapWorkflowRun`; `age` is `now - createdAt` |
| `Start`, `Adopt`, `Report`, `Expire` | the mutations of the run store |
| `Dispatch`, `Settle`, `Advance`, `Arrived`, `Late`, `Fires` | `dispatchNodes`, the three endings of `advanceQaapWorkflowRun`, `recordJoinArrival` |
| `SettleJoin`, `SweepFinds`/`Expire`, `Continue` | the dispatcher's own outcome for joins, its deadline sweep, the continue endpoint |
| `swept`, `doomed` | the sweep between finding an expired run and ending it, and the jobs it cancelled, whose `blocked` is queued first |

A run is a plain value that one synchronous mutation replaces, so each report
is one step. The order of reports is free. `Dispatch` stops at the first node
the budget refuses and keeps what it counted before, as the loop does. Prompts,
agents, tiers, artifacts and the trace do not decide what runs next and are left
out. External ids and claims are the dispatcher's (below): here every active
node may report, which is what those mechanisms are for.

`WorkflowAudit` adds what a trace would show: which verdicts, checks and
approvals were given since an author last changed the tree, and who led to a
join since it last fired. The history guards nothing.

### Runs

| Run | Instance | Question |
|---|---|---|
| `wf_templates` | all 57 definitions: each combination of template, review mode, verify and review fix, the evidence audit and the chat turn, with the default budget of 8 visits and 64 node runs; 37,964 states | does what a run concludes follow from what was judged, checked and approved in it; is there one writer at a time; does every run end or wait for a person |
| `wf_graphs` | 384 graphs with fan-outs at the entry or behind a node, joins for all or any, loops through the join, writers anywhere; a gate beside a turn; a join for two of three fed again by a loop; eight node runs and a clock | does the reducer keep its promises for definitions it was not written for, and does the validation refuse concurrent writers |
| `wf_goal` | one template | what a comment says and the code does not keep (section 8) |

The conclusions checked: a pass is a verdict on the tree the run leaves behind
(`PassJudgesTheLastChange`), a rejected change never ends as a skipped review
(`RejectionIsNotSkipped`), nothing is written before the plan was approved
(`NothingWrittenUnapproved`), a run that verifies succeeds only after a check of
its last change when the review fix loop is off (`GoalMetWithoutReviewFix`), no
branch of a template is stranded at a join and a negative conclusion excludes
success (`EndsWithOneConclusion`). The same run checks that no node is dispatched
again while its work is unreported (`NoDoubleDispatch`), `wf_graphs` that a fan-in
starts what follows only after as many predecessors as it waits for came in since
it last did (`FanInIsComplete`).

Bounds. The templates run with the budget the product uses, so every loop is
explored to its end. The graphs have four nodes behind a source, at most two
visits (three for the two named ones) and a clock of one unit: enough for a
second round through a join, for a budget that ends in the middle of a fan-out,
and for an expiry at every point of a run. `AcceptedWritersAlternate` is stated
for graphs without loops whose joins wait for all; section 8 says why.

Fairness: `Reports`. A runtime reports the end of its work; if it does not, the
dispatcher's sweep reports `fail` for a node past its deadline, and joins are
settled by the dispatcher at once. People and the clock owe nothing, so
`RunConcludes` allows a run to wait for a person. A chat turn, which the
dispatcher does not govern, is reported by its conversation, whose own sweep
settles turns without a live task.

### The dispatcher

`WorkflowDispatch` replaces "every active node may report" by what makes it so.
Each of its steps that moves the run is an action of `WorkflowRun`; what it adds:

| Model | Code |
|---|---|
| `work` | the tasks and jobs the runtimes know, named by node, visit and serial; `life` tells those of this backend from older ones |
| `dispatched`, `claims` | `record.dispatched` and `record.dispatchClaims`, which the store writes to disk |
| `threads` | one element per asynchronous call of the dispatcher: what it still does, and what it awaits |
| `Claim`, `CreateTurn`, `Complete` | `startAgentTurn`: the claim of a visit, `runner.create`, the claim turned into a record |
| `CreateJob`, `Attach` | `startDeterministic` under the key of the visit, `attachDispatch` and the look that follows it |
| `StartFails`, `SettleNode` | the catch of `dispatch`, its own outcome for joins |
| `WorkEnds`, `Resume` | the events of the runtimes; an awaited log or look-up that returns |
| `SweepNodes`, `GiveUp`, `Cancel` | a deadline sweep over nodes: its copy, the report first, the cancellation after |
| `SweepRun`, `JobCancelled`, `RunExpires` | the sweep of an expired run, with the reports its cancellations queue |
| `Restart`, `Replay`, `Interrupt`, `LookUp` | the backend dies between any two steps; `reconcileOnBoot` for joins, claims, unrecorded starts and recorded work |

What the code does without awaiting I/O is one turn of the event loop. The
store's mutations are promises that nothing but the microtask queue separates,
so between the steps of one turn only a crash comes; other threads go on where
the code waits for a log, a task's detail or another run (`wait`). At a restart
each runtime may have lost the work or have it as interrupted, finished or still
queued, whatever was on its disk.

| Run | Instance | Question |
|---|---|---|
| `wf_dispatch` | `implement` checked by `verify` in a loop; a turn and a job behind a gate before a join; two visits and four node runs, a clock of one, one restart, one sweep that finds a node; 135,548 states | does the record of an active node name work of its visit, is no work left running that the graph does not know, does every run still end |

One restart is the least that separates the lives of work; a second starts from
a store and runtimes of the same kind. Two visits are the least for work of an
earlier visit to be mistaken for that of a later one. `NothingStrays` is stated
until a deadline or a budget strikes, because the sweep acts on an older copy and
nobody cancels what runs beside the node a budget refuses (section 8). The same
run evaluates the assumptions of `TemplateShapes`: every definition of the product
has the shapes on which the theorems of section 7 rest.

Fairness: `WF(Progress)`. Threads go on, a runtime ends its work (a turn is
stopped by its own watchdogs, a job by its attempt timeout), and a sweep that
began goes on. Neither sweeps nor restarts nor people are assumed.

## 5. Agent tasks

### Correspondence

| Model | Code |
|---|---|
| `state`, `position` | the record of a task and its `queuePosition`; completed, failed and the outcomes with warnings are one, `finished` |
| `phase` | where the asynchronous call that runs the task waits: `start` (billing, hooks, ownership, sandbox, tool gate), `agent` (the process), `explain` (a failure's log), then the lane: `lane`, `entered`, `gate`, `check`, `arming`, `command` |
| `group` | the process group: `live` with its leader, or `left` behind when the leader exited |
| `stopping`, `killing` | `stoppingTaskIds`, which keep their slot until the grace timer; kill timers without a slot |
| `passes`, `waiters` | `activeVerificationPasses`, `verificationPassWaiters` |
| `recovery`, `writeFailed`, `disk`, `booting` | `recoveryState`, `storageWriteFailed`, the index, the drain that `restoreFromDisk` still owes |
| `draining` | `drainingForDeploy` |
| `Turn` | the end of an event-loop turn; if the handler calls `drainQueuedTasks`, whom that lets go (`LetGo`) |
| `Create`, `Reorder`, `Stop`, `StopAgain`, `GraceEnds`, `Killed` | `create`, `reorderQueuedTask`, `cancel` with a task that is live or over, the timers of `killAgentProcessTree` |
| `Spawn`, `CannotRun`, `AgentCloses`, `Explained`, `Quit` | `spawnProcessWhenReady` and the handlers of the child; idle expiry and a gate that never armed |
| `Enter` ... `Judge` | `finishSuccessfulTaskAfterVerification`: the empty-turn gate, scripts and fix turns, the verdict |
| `WriteIndex`, `WriteFails`, `SetDraining`, `Restart`, `Boot` | `persist`, a deployment's drain, `restoreFromDisk` |

Whatever `Spawn` awaits is followed by a look at the record, except hooks that
are rejected (`node/qaap-agent-task-runner-hooks.ts:42-47`): the prompt is then
used as it was, and the record of before the await could be written back over a
stop. `runPreTurn` awaits only `run`, which turns every failure of a hook into an
outcome and never rejects, so the branch is not modelled.

The drain picks the first queued task that fits, again and again.
`LetGo` states the result: a queued task leaves exactly if it fits beside those
that hold a slot and those before it that leave too. A task id stands for a
client request, which the runner answers with the task it already has.

### Run

`agent_tasks`: two turns of one account in its shared working tree, two slots,
a lane of one, one restart; 128,740 states. Two tasks that exclude each other
are the least for a slot to be kept, given up or taken in the wrong turn. Larger
instances (three tasks, a repository limit, several accounts) are left to the
proofs, which hold for every number of tasks and every limit. An index whose
write was asked for and has not happened may be any earlier one: `WriteIndex`
is free to come late.

Fairness: what is awaited ends - processes are timed out or stopped by the
watchdog of their turn, grace periods are timers, verification has a wall
clock. `Judge` is strongly fair because scripts and fix turns may alternate with
it; the code bounds their number and the model does not. `QueueMoves` is
conditional: the index can be written again and no deployment drains for ever,
which the runner retries, respectively limits by a timer.

## 6. The pull request of a task

### Correspondence

| Model | Code |
|---|---|
| `conv` | the conversation: its user turns with both checkpoints, those a restore undid, the newest restore, `taskPullRequestEnabled` and the record `taskPullRequest` (`pr`) |
| `pr.head`, `pr.last`, `pr.seen`, `pr.error` | `headSha`, `lastUserMessageId`, `restoreSeenAt`, `lastError` |
| a commit | the set of what it was built from, each part a turn with a serial; 0 is somebody else's, `{}` the base; an ancestor is a subset; `NoCommit` where the code has no `headSha` |
| `due`, `sync` | the quiet period's timer or a queued link of `chains`; the `syncNow` under way, up to the push or up to the pull request |
| `rewinding` | `rewindToMessage` between its read of the conversation and its write |
| `remote`, `pulls` | the branches at GitHub and those with a pull request |
| `SyncNow`, `Push`, `Publish` | `syncNow` up to the push; `pushCommit`; `upsertPullRequest` and the record |
| `Plans`, `Reconciled`, `Replayed` | rebuild, continue, build on somebody's commit, or a new branch; `buildBranchHead` |
| `moot` | turns that changed their tree, but to what the default branch has: asked about, never a commit |
| `RewindNow`, `RewindBegins`/`RewindEnds` | `rewindToMessage` without a checkpoint of the message before, which awaits nothing; the others, whose undo snapshot may fail (`RewindUnsaved`) |
| `Turn`, `Restore`, `Allow`, `NotNow`, `SwitchOn` | what else the conversation store announces, and the answers of the owner |
| `OthersPush`, `SignIn`, `Restart`, the `Fault` branches | external: people, GitHub, the end of the process; a failed call may have had its effect |

What `syncNow` awaits before the push (git, the look at the remote) neither
changes what others read nor reads what they change, except the remote head, so
it is one step with the push: whoever pushes between the look and the push is a
step of its own. `Restore` and `RewindEnds` stand for `restoreCheckpoint` and
the second half of `rewindToMessage`, `Asked` for the store's announcement that
every change makes. A new branch is taken only while `Branches` has one left;
others can cause no more of them than `MaxFaults`.

A rewind drops the restores whose messages go. Which these are the model leaves
open: the newest that is left is any earlier one, or none. Without an undo snapshot
nothing replaces them (`RewindNow`, `RewindUnsaved`).

`parted` and `forgotten` are history and guard nothing. `forgotten`: a restart
dropped a sync that was due. `parted`: the record and the branch disagree, because
a call failed or was lost, or because of a rewind that put an older record in place
of a newer one and left nothing to ask for a rebuild (the older one names no turn,
or the tree could not be saved), or that kept turns and dropped a restore before
the record or a sync that was under way had seen it.

The record counts as written once it is made. `persist()`
(`node/qaap-agent-conversation-store-thought-brief2.ts:360`) awaits nothing before
its write, which is synchronous, so both happen in one turn of the event loop; a
crash between them leaves what a crash just before the record leaves, and that is a
`Restart` at `sync.at = "pull"`, which sets `parted`.

### Runs

| Run | Instance | Question |
|---|---|---|
| `task_pr` | two turns, one restore, rewinds, one fault, under `FairSpec`; 1,628,270 states | does a turn that was undone leave the branch, is every turn the record names on it, does every change get to the branch or is explained |
| `task_pr_lost` | two turns, one fault | does an open pull request without an error hold every turn its record names (section 8) |

Two turns are the least for one to be lost behind another, one restore for the
branch to be rebuilt during a sync. `task_pr` has the constraint
`NotParted`: what follows a state in which the record and the branch have parted is
not explored. `parted` never becomes false again, the two invariants say nothing of
such a state and `Published` is true in it, so no violation is cut off; the
violation of `task_pr_lost`, whose trace has parted, is looked for without it. Fairness:
`WF(Sync)` - the timer fires and calls return, if only with an error.
`ChangesArePublished` assumes that the owner stays signed in, consents and
leaves the switch on. A rewind that restores the tree begins only while the bounds
on restores and faults let it end.

## 7. Proofs

Except for the refinements, the theorems say
`Spec => []P` or `Spec => [][A]_vars`, for every value of the constants under
the assumptions the modules name: finitely many jobs, nodes and tasks, positive
limits, requests that name jobs, graphs that list a job once, and for workflows that a
node has at most one edge to a given join per outcome.

What a run may conclude depends on its definition. Those theorems assume a shape
of the graph alone, stated in `WorkflowShapes` without the budget and without any
reachable state, so they hold for every budget and every order of reports. That
the shapes are those of the product is no assumption of trust: `TemplateShapes`
states it for each of the 57 definitions and TLC evaluates it with `wf_dispatch`,
whose own two graphs have the shape the dispatcher's theorems ask for as well.

| Theorem | Property | Argument |
|---|---|---|
| `TypeCorrect` | `TypeOK` of `JobRuntime` | inductive with `TableInv`: a job that may still start has attempts left, and so it is in every snapshot of the journal, because a restart may restore any of them |
| `LeaseCorrect` | `LeaseExclusive` | only `DrainStart` adds a running job (`OnlyTheDrainStarts`), and it starts what `LeaseFree` allows |
| `BudgetsCorrect` | `WithinLimits` | the same lemma; counts of a smaller running set shrink, and one start adds one where `WithinBudget` left room |
| `DependenciesCorrect` | `DependenciesHeld` | `DependencyInv`: it holds of the table and of every snapshot queued or on disk; retention keeps what unfinished jobs need, a finished dependency does not change, a restart only turns `running` into `interrupted` |
| `OutcomesStable` | `OutcomeStable` | every handler that writes a state looks at the one it replaces (`Settles`, the guards of the drain and of cancel), so only retention and a restart touch a finished job |
| `ControlCorrect`, `ProcessesReachable` | `RunningIsControlled`, `NoUnreachableProcess` | `ControlInv`, job by job: a running job has the handle of its attempt, its deadline and a live process, no other job has a handle or a deadline, and an attempt has a process only if it was counted, which tells the single attempt of a job without retries from a late one |
| `WritersKeepTheirPlace` | `WriterNotOvertaken` | `OrderInv`: positions in the Map are given out once, in the table and in every snapshot, so the writer queued before a reader is found by `LeaseFree` |
| `AdmissionCorrect` | `IdempotentAdmission` | `AdmissionInv`: two jobs of the table, or of one snapshot, never share a key, and the index names the job that has it; without the snapshots a restart could bring two |
| `NothingIsForgotten` | `NothingForgotten` | `LoopInv`: what the loop has passed is as it would leave it, and what gives up a slot, a lease or a dependency drains |
| `RuntimeImplementsLedger` | `ImplementsLedger` | the refinement, one lemma per handler, with the invariants above for what the ledger's guards ask |
| `OutcomesAreDurable` | `DurableOutcome` | `DurableInv`: along the journal and on to the table an outcome stays or is forgotten; a failed or coalesced write only removes a snapshot from the chain |
| `RunTypeCorrect` | `TypeOK` of `WorkflowRun` | through lemmas on what `Dispatch`, `Settle` and `Advance` set |
| `RunHasWork` | `LiveRunHasWork` | a dispatch of a nonempty set either starts one or ends the run; the sweep only cancels |
| `RunWithinBudget` | `BudgetRespected` | with `Unstarted` (a run not started has spent nothing, which `Start` and `Adopt` need); the code tests each node before it counts it, the model counts a set, and `Counted` closes the gap: a finite set of integers whose elements each have fewer than m smaller ones has at most m elements |
| `StrandsSerial` | - | `StrandInv`: a run is at one place of each strand, counting what waits in front of a join; `InsideKeeps` for a report from the strand, `OutsideKeeps` for one from outside, which comes in only through a join that waits for the strand |
| `DispatchedOnce` | `NoDoubleDispatch` | where every node lies on a strand; from `StrandInv` (`AdvanceOnce`) |
| `WritersAlternate` | `SingleWriter` | where one strand holds the writers; from `StrandInv` |
| `PlansApprovedFirst` | `NothingWrittenUnapproved` | `PlanInv`: until an approval the run stays inside a set without writers, which only an approval leaves |
| `PassesJudgeTheLastChange` | `PassJudgesTheLastChange` | `PassInv`: outside the region of a capture that capture was taken since an author last worked; authors work alone and start inside it, and a pass is emitted by a verdict outside every region |
| `RejectionsAreKept` | `RejectionIsNotSkipped` | `RejectInv`: after a rejection the run stays where no review is skipped |
| `FanInsAreComplete` | `FanInIsComplete` | for every definition: `GatheredInv` - whoever a join has heard from in its round has come in since it last started |
| `GoalsAreMet` | `GoalMetWithoutReviewFix` | `CheckedInv`: between the writers and the check that passes only failures end the run |
| `ConclusionsAreSingle` | `EndsWithOneConclusion` | `ConclusionInv`: the branches of a fan-in are started together, so nobody is stranded before it; an emit happens alone and last |
| `DispatchImplementsRun` | - | every step of the dispatcher books one report through the reducer, starts, expires or ages the run, or leaves it alone (`BookSteps`, `ToldSteps`, one lemma per group of steps), so its behaviours are the run's |
| `DispatchedRunHasWork`, `DispatchedWithinBudget` | `LiveRunHasWork`, `BudgetRespected` | from the refinement: they hold over restarts, replays, sweeps and late reports too |
| `RecordsAreOfThisVisit`, `NoWorkStrays` | `RecordIsOfThisVisit` until a sweep finds a node, `NothingStrays` | consequences of `DispatchInv`, where every node lies on a strand and gates stand alone |
| `RunnerTypeCorrect`, `NoAgentAstray`, `LaneCorrect` | `TypeOK`, `NoStrayAgent`, `LaneIsAccounted` of `AgentTasks` | consequences of `RunnerInv` |
| `LimitsCorrect` | `LimitsRespected` | with `RunnerInv`: a handler's own changes only give slots up (`Releases`), and `LetGoWithin` shows by the last of those let go that the queue takes no more than is free |
| `NoEligibleTaskWaits` | `NothingEligibleWaits` | a handler that gives a slot up drains, a drain leaves nobody who fits (`FitsFewer`), and whatever does not drain changes neither queue nor slots, or the queue may not move |
| `QueueOrderKept` | `NoOvertaking` | places in the queue are distinct, so of two that exclude each other the drain lets the first go |
| `UndoneTurnsAreGone`, `RecordedTurnsAreThere` | `UndoneTurnsLeave`, `TurnsAreInHead` of `TaskPullRequest` | consequences of `PullInv` |

`DispatchInv`, the inductive invariant of the dispatcher, holds until a sweep
finds a node or a limit ends the run. It is about what its threads still owe. A
start, a claim made again, an interruption and a look at lost work bind a node:
one item of one thread answers for it (`ThreadsOK`: `Once` within a stack, `Bound`
disjoint between threads), and it is active, unrecorded and on the visit the
item names (`Holds`), unless its lost work is on record. A record names work
of its node and of the visit the node is on (`Records`). Work of this life that
runs is on record, or on top of the stack of the thread that made it (`Kept`).
Each part is needed: without the bound nodes two threads could start one visit,
without `Holds` a late start could record earlier work, and without the lost work
among the bound a boot and a waiting thread could both fail a node. A report
carries all of it because the nodes it starts were not active, which is where the
strands come in (`ReportThreads`), and a gate that stands alone leaves no thread
behind when it is continued. One lemma per handler does the rest (`ClaimKeeps`
... `RestartKeeps`), and a boot rebuilds one thread that binds what the store has
on disk (`BootFacts`).

`RunnerInv`, the inductive invariant of the runner, adds to `TypeOK`: queued
tasks have distinct places, also in the index on disk (`Placed`); a stopping
task is over (`Over`); only a task that left the queue has a call that works on
it (`Busy`); occupied and awaited lane slots are the calls inside and outside
the lane, each waiter listed once (`Lane`); and a live group is that of a child
the runner waits for (`Owned`). Each part is needed: without `Placed` two equal
places would let two tasks into one tree, without `Busy` a queued task could
hold a process, without the distinct waiters a released slot could pass to a
call that already left. Most steps end in a `Turn`, so one lemma (`TurnStep`)
carries the invariant over all of them.

`PullInv` says that until the record and the branch part, four things hold.
Records are dated: the last turn they name is the newest of their commit and
exists, and so does the restore they have seen (`Dated`), so a restore made now
is newer than every record. A record that asks for no rebuild holds what was
kept, up to its last turn, and nothing else (`Holds`); what its branch has
beyond it is somebody else's (`Ours`). Both are also said of the record a sync
will make if it succeeds, of the one it makes if what follows the push fails,
and of the one it began with (`PendingHolds`, `PendingWas`), because each of them
may be written after the conversation moved. And a record that a rewind put in
place of the one a sync began with asks for a rebuild itself (`Apart`).
`ConversationMoves` carries all of it over whatever happens to the conversation:
a new turn is later than every record, a restore makes every record ask for a
rebuild, a rewind of everything leaves no turn to miss, and one that restores
nothing leaves whole what is up to a turn it keeps (`RecordCut`). The attempt
to prove this found the rewind that rolls a record back during a sync (section
8), which `parted` now covers; TLC shows it from three turns and two restores on.
`PullInv` was checked by TLC on the instance of `task_pr`, without its constraint,
before it was proved.

Proved for every instance, these need no bound on attempts, restarts, lag,
graph size, tasks, turns, restores, faults, limits or budgets. Only
model-checked: all liveness (`EveryJobFinishes`, `TerminatedProcessEnds`,
`RunConcludes`, `DispatchConcludes`, `QueueMoves`, `ChangesArePublished`; the
prover has no rules for fairness); `AcceptedWritersAlternate`, that the validation
refuses concurrent writers, which rests on the reachability the code computes by
recursion; and `RecordIsOfThisVisit` after a sweep found a node, which does not
hold of every definition (section 8) and is checked for the two of `wf_dispatch`.

## 8. Where the code and its prose differ

Shown by a run, with the counterexample TLC prints:

- `job_stranded` (`DependentsFail`): the nodes of a graph are visited in the
  order the request lists them. A dependent listed before the job that becomes
  `dependency_failed` in the same pass is not visited again and waits until some
  later event drains the queue, or for ever. `EveryJobFinishes` is therefore
  checked on a graph in topological order.
- `job_stale_attempt` (`OutcomeOfLastAttempt`): `close` names the job and not the attempt. The
  process of attempt 1, told to stop, settles the job when it exits during
  attempt 2, whose process then has no handle. `NoUnreachableProcess` and
  `TerminatedProcessEnds` are stated for jobs without retries for this reason.
- `wf_goal` (`GoalMet`): the review fix loop returns to the diff, not to the success check,
  so a goal run may succeed on a tree no check has seen.
- `task_pr_lost` (`OpenIsUpToDate`): `syncNow` takes over the new
  `lastUserMessageId` before it pushes, and records it when the push fails. The
  next sync takes that turn for pushed: it opens the pull request, or reports it
  up to date, without the turn and without an error.

Met while modelling, and kept out of the properties:

- A crash after a command was started and before the snapshot that says so was
  written restores the job as queued and runs it again, where
  `doc/qaap-job-runtime.md:274-276` says that what was running becomes
  interrupted.
- `findConcurrentCwdWriterIssues` (`common/qaap-workflow-ir.ts:363`) subtracts
  what every branch reaches. Two writers that both loop back to their common
  source reach each other, so nothing is left to conflict and the definition is
  accepted; a writer that branches reconverge into without a join is accepted
  too and dispatched once per branch. A join for one of several lets a loop
  overtake a branch. No template does any of these, and
  `AcceptedWritersAlternate` excludes them.
- Every report sets the run to `running`, also while a gate of another branch is
  open; the continue endpoint then refuses the gate, and looks at the status and
  not at the kind of the node it continues. No template puts a gate beside a branch.
- `common/qaap-workflow-run.ts:56` says the clock is paused while a gate is open; it is
  not looked at while the run is parked, and compares the age of the run as soon as it runs
  again.
- A cancelled or timed-out writer gives its workspace lease back when SIGTERM is
  sent and may live until the escalation, where `common/qaap-job.ts:20` speaks of
  an exclusive lease.
- Cancelling the job of an expired run books its `blocked` before the expiry, and
  the run ends as failed for want of an edge.
- The deadline sweep copies the unfinished runs and acts on the copy
  (`node/qaap-workflow-dispatcher.ts:346`): after handling other runs it may fail
  a node that is on a later visit, and cancel the work of the earlier one. If the
  start of that visit was still to be made, behind a turn of the same fan-out, it is
  made all the same, and `attachDispatch` (`node/qaap-workflow-run-store.ts:399`),
  which looks at neither the visit nor `active`, records it: with a loop around the
  fan-out the node's next visit has the earlier job on record. TLC shows it for a
  job that starts a turn and a job, both before a join that leads back to it, with
  three visits and one sweep. Hence `sweeps = 0` in `RecordsAreOfThisVisit`. A run
  may expire while a thread still starts work for it; a job is then attached to
  an ended run and runs to its end.
- A run that its budget ends leaves `active` at once (`common/qaap-workflow-run.ts:265-278`,
  350-356), and the dispatcher only returns: what other branches run is not
  cancelled and goes on beside the ended run. TLC shows it for two nodes with a loop
  each and three node runs. `NothingStrays` excludes runs a limit ended; in the
  graphs of section 7 it is the only way, besides the sweep.
- A node of a batch that was not started before a crash is interrupted as failed
  at boot (297-304); a job has no claim, so this is its fate always. Waiting for
  a pending claim and taking over an expired one cannot be reached.
- The gate for empty turns (`node/qaap-agent-task-runner-activity2.ts:95`) settles a
  task that was stopped meanwhile as finished. An idle agent gives its slot up
  when it is told to stop, up to five seconds before its group is gone, so a
  second writer may enter the shared tree, against the comment at
  `node/qaap-agent-task-runner-streaming2.ts:198-199`. A script or fix turn may be
  started after a stop, because the ownership of the directory is awaited
  between the look at the record and the start.
- After a crash an older index restores as queued a task that already ran. A
  task created between the end of recovery and the first drain may overtake the
  restored queue, hence `~booting` in `NoOvertaking`.
- Pull requests: for a rebuild `syncNow` clears `lastUserMessageId` (379). If the
  first turn it replays conflicts (387-390), or the push fails, it records that with
  the `headSha` of before: the record asks for no rebuild, although nothing was
  rebuilt, and the next sync goes on from the old head and may open the pull
  request with the turn that was rewound, without an error, where
  `doc/qaap-task-to-pr.md:75-76` says the branch is rebuilt without it. Two turns
  and a rewind of everything between them are enough. The same error twice
  is not recorded (`node/qaap-task-pull-request-service.ts:453`), nor then the
  head that was pushed: the next sync takes its own commits for somebody else's,
  as after a crash between push and record. A crash between the first push and
  its record leaves a branch that later pushes cannot continue; a lost answer of
  the call that opens the pull request makes every later one be refused. After
  signing in nothing asks for a sync, and a restart forgets the quiet period. A
  rebuild does not look at the remote head before it forces its push. A
  rewind writes back what it read before it restored the tree, and overwrites a
  record made meanwhile: if the older record names no turn, a rewind of everything
  after that leaves nothing to ask for a rebuild, and the turns that the lost
  record had pushed count as somebody else's commits and stay. The same comes of an
  older record whose rewind could not save the tree
  (`node/qaap-agent-conversation-store-diff2.ts:57`), or whose restore a later
  rewind drops. `parted` marks what the properties exclude for this.
- External tasks: the launcher awaits between its look for a conversation and
  its record of one, so two deliveries of one issue at once may create two.

## 9. Not modelled

The components without a module, and why:

- Conversation store: a turn is booked across a dozen files of message,
  checkpoint and event-log handling whose interleavings are those of the runner
  and of rewinds, which are modelled where they matter.
- Plan fan-out, goal loop, research, routines: handlers and timers that call the
  conversation store and the runner one after the other.
- External tasks, push outbox, tool gate, billing: a map or a table changed in
  one turn of the event loop or one SQLite transaction.
- Tenants, containers, worktrees, previews: the behaviour is that of Docker, git
  and the file system.
- Persistence, the UI packages, DTOs, decoders and GitHub clients: no state
  shared between actors. The Theia platform is third-party code and by far the
  larger part of the repository.

Within the modelled components: deletion of a project, approvals, model and
agent resolution, billing amounts, and the process of the `git status` with which
the gate for empty turns looks at a tree it could not read before the turn
(`node/qaap-agent-task-runner-activity2.ts:267`; it reads, for ten seconds at most)
(`AgentTasks`); prompts, routing, agent
health, artifacts, retention of runs (`WorkflowDispatch`); evidence, screenshots,
verdicts and labels, closed or merged pull requests, archived or deleted
conversations, rewinds beside another one, restores whose undo snapshot fails, which
leave no trace a sync could see, and a write of the conversations that fails and
is lost at a restart before the next one (`TaskPullRequest`). SQLite and file writes are one step where the
code awaits nothing between; git, Docker and the agents' own programs are
external, and appear as the outcomes they can report.
