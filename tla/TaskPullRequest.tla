---------------------------- MODULE TaskPullRequest ----------------------------
(* The pull request of one conversation                                      *)
(* (node/qaap-task-pull-request-service.ts): when the conversation is quiet, *)
(* the turns it has since the last push are replayed onto a branch, the      *)
(* branch is pushed and its pull request opened or updated, while people     *)
(* restore and rewind the conversation, sign in, or push to the branch.      *)
(*                                                                           *)
(* Turns are numbered in the order of their messages. A commit is the set of *)
(* what it was built from, each part with a serial number: the same turn     *)
(* replayed again is another commit, and a commit contains those it was      *)
(* built on. The empty set is the base; part 0 is somebody else's.           *)
EXTENDS Integers, FiniteSets

CONSTANTS
  None,
  MaxTurns, MaxRestores,  \* bounds: turns, and restores of the working tree
  MaxFaults               \* bound: failed calls, restarts, other people's
                          \* pushes, and so the branches

ASSUME BoundsAssumption == {MaxTurns, MaxRestores, MaxFaults} \subseteq Nat

VARIABLES
  conv,       \* the conversation: turns, those a restore undid, the time of
              \* the newest restore, "Create PR when done", the PR's record
  changed,    \* the turns that changed the working tree
  moot,       \* those whose changes the default branch has already
  made,       \* turns so far
  clock,      \* restores so far
  consent, token,  \* the owner's consent for the repository and sign-in
  due,        \* the timer of the quiet period runs, or a sync is queued
  sync,       \* the sync under way
  rewinding,  \* the rewind under way: the turn it keeps, and what it writes
  remote,     \* branch -> its commit at GitHub
  pulls,      \* branches with a pull request at GitHub
  parted,     \* history: the record and the branch parted
  forgotten,  \* history: a restart lost a sync and nothing asked for another
  faults

userVars == <<changed, moot, made, clock>>
githubVars == <<remote, pulls>>
vars == <<conv, userVars, consent, token, due, sync, rewinding, githubVars,
          parted, forgotten, faults>>

Branches == 1 .. MaxFaults + 2
NoCommit == {<<-1, 0>>}  \* unlike any commit, which has no such part
NoError == <<"none", 0, 0>>
SignInError == <<"sign-in", 0, 0>>
Idle == [at |-> "idle"]
Fresh == [state |-> "open", branch |-> 1, number |-> 0, head |-> NoCommit, last |-> 0,
          error |-> NoError, seen |-> 0]

Fault == faults < MaxFaults /\ faults' = faults + 1

-----------------------------------------------------------------------------
(* What the record asks for.                                                 *)

(* The last turn on the branch is gone, or a restore is newer than it.       *)
Rebuilds(c) ==
  /\ c.pr # None /\ c.pr.head # NoCommit
  /\ c.pr.last \notin c.turns \cup {0} \/ c.restoreAt > c.pr.seen

(* The turns after one, or all if it is not there, without the undone ones.  *)
TurnsAfter(c, last) ==
  {t \in c.turns \ c.undone : last \in c.turns => t > last}
NewTurns(c) == IF c.pr = None \/ Rebuilds(c) THEN TurnsAfter(c, 0) ELSE TurnsAfter(c, c.pr.last)

Current(c) == IF c.pr = None THEN Fresh ELSE c.pr
Opened(p) == [p EXCEPT !.state = "open"]

UpToDate ==
  /\ conv.pr # None /\ ~Rebuilds(conv) /\ NewTurns(conv) = {}
  /\ conv.pr.number # 0 /\ conv.pr.state = "open" /\ conv.pr.error = NoError
NothingToShow ==
  Current(conv).head = NoCommit /\ NewTurns(conv) \cap (changed \cup moot) = {}

-----------------------------------------------------------------------------
(* The branch.                                                               *)

PartsOf(commit) == IF commit = NoCommit THEN {} ELSE commit
TurnsIn(commit) == {part[1] : part \in PartsOf(commit)}
Parts ==
  UNION {PartsOf(remote[b]) : b \in Branches} \cup PartsOf(Current(conv).head)
    \cup (IF rewinding = None THEN {} ELSE PartsOf(Current(rewinding.next).head))
    \cup (IF sync = Idle THEN {} ELSE sync.head)
Serial == CHOOSE n \in 1 .. Cardinality(Parts) + 1 : \A part \in Parts : part[2] # n

(* What the branch is built on. Before a push that only adds, the remote     *)
(* head is compared with the last one pushed: on top of somebody's commit    *)
(* the next turns are replayed; a commit that cannot be fetched, or does not *)
(* contain ours, keeps the branch, and the turns move to a new one.          *)
Plan(p, start, replay, force) == [pr |-> p, start |-> start, replay |-> replay, force |-> force]
Reconciled(p) ==
  LET found == remote[p.branch] IN
  (IF p.head \subseteq found THEN {Plan(p, found, NewTurns(conv), FALSE)} ELSE {})
  \cup {Plan([p EXCEPT !.branch = b, !.number = 0, !.head = NoCommit, !.last = 0],
             {}, TurnsAfter(conv, 0), TRUE) : b \in {p.branch + 1} \cap Branches}
Plans(p) ==
  IF Rebuilds(conv) THEN {Plan([p EXCEPT !.last = 0], {}, NewTurns(conv), TRUE)}
  ELSE IF p.head = NoCommit \/ remote[p.branch] \in {NoCommit, p.head}
         THEN {Plan(p, NoCommit, NewTurns(conv), FALSE)}
         ELSE Reconciled(p)

Tip(plan) ==
  IF plan.start # NoCommit THEN plan.start
  ELSE IF plan.pr.head # NoCommit THEN plan.pr.head ELSE {}
(* Each turn that changed something the tip does not have yet is a commit.   *)
Replayed(plan, applied) ==
  Tip(plan) \cup {<<t, Serial>> : t \in (applied \cap changed) \ TurnsIn(Tip(plan))}
LastOf(plan, applied) ==
  IF applied = {} THEN plan.pr.last ELSE CHOOSE t \in applied : \A u \in applied : u <= t

-----------------------------------------------------------------------------
(* Records.                                                                  *)

Quiet(d) == sync' = Idle /\ due' = d /\ UNCHANGED <<conv, forgotten>>

(* Mutant: the record settles what became due while the sync ran.            *)
RecordAndSettle(next) ==
  /\ conv' = [conv EXCEPT !.pr = next] /\ sync' = Idle
  /\ due' = FALSE /\ forgotten' = FALSE
(* The update it announces asks for another sync.                            *)
Record(next) ==
  /\ conv' = [conv EXCEPT !.pr = next] /\ sync' = Idle
  /\ due' = TRUE /\ forgotten' = FALSE
(* A failure is recorded once, and so is what blocks the push. The record    *)
(* and the branch part when what was pushed is not recorded, or a turn is    *)
(* recorded without a commit, or with the commit another one was.            *)
SayAfter(was, next, pushed, d) ==
  LET old == IF was = None THEN Fresh ELSE was
      said == was # None /\ was.state = next.state /\ was.error = next.error
  IN /\ IF said THEN Quiet(d) ELSE Record(next)
     /\ parted' = \/ parted
                  \/ pushed # (IF said THEN old ELSE next).head
                  \/ ~said /\ next.head = NoCommit /\ next.last # 0
                  \/ ~said /\ next.head = old.head /\ next.last # old.last
Say(was, next, d) == SayAfter(was, next, next.head, d)

-----------------------------------------------------------------------------
(* A sync, up to the push: what is awaited before it neither changes what    *)
(* others read nor reads what they change, but for the look at the remote.   *)

(* Mutant: the turn that conflicts counts as replayed.                       *)
AppliedThrough(plan, conflict) == {t \in plan.replay : conflict # 0 => t <= conflict}
AppliedBefore(plan, conflict) == {t \in plan.replay : conflict # 0 => t < conflict}
(* The turns are replayed until one conflicts. What comes before it is       *)
(* pushed only onto a branch that is simply continued, and a first branch    *)
(* that would add nothing is not pushed.                                     *)
Build(plan) ==
  \E conflict \in (plan.replay \cap changed) \cup {0} :
    LET applied == AppliedBefore(plan, conflict)
        head == Replayed(plan, applied \ {conflict})
        error == IF conflict = 0 THEN NoError ELSE <<"conflict", plan.pr.branch, conflict>>
    IN IF conflict # 0 /\ (Current(conv).error = error \/ plan.pr.head = NoCommit \/ plan.start # NoCommit)
         THEN Say(conv.pr, [plan.pr EXCEPT !.error = error], FALSE)
       ELSE IF plan.pr.head = NoCommit /\ plan.start = NoCommit /\ head = {}
         THEN Quiet(FALSE) /\ UNCHANGED parted
         ELSE /\ sync' = [at |-> IF head # plan.pr.head \/ plan.force THEN "push" ELSE "pull",
                          was |-> conv.pr, pr |-> [plan.pr EXCEPT !.last = LastOf(plan, applied)],
                          head |-> head, force |-> plan.force, error |-> error,
                          seen |-> conv.restoreAt]
              /\ due' = FALSE
              /\ UNCHANGED <<conv, parted, forgotten>>

(* With nothing to show it ends. It may go on for the evidence alone. When a *)
(* command fails it says so of the record as it has planned it, or of the    *)
(* one it began with: the look at the remote comes before the plan.          *)
Begins == due /\ sync = Idle
EndsAtOnce ==
  /\ Begins /\ (~conv.enabled \/ NothingToShow \/ UpToDate)
  /\ Quiet(FALSE) /\ UNCHANGED <<parted, faults>>
NeedsConsent == Current(conv).head = NoCommit /\ ~consent
GoesOn ==
  /\ Begins /\ conv.enabled /\ ~NothingToShow
  /\ \/ /\ NeedsConsent /\ UNCHANGED faults
        /\ Say(conv.pr, [Current(conv) EXCEPT !.state = "consent", !.error = NoError], FALSE)
     \/ /\ ~NeedsConsent /\ ~token /\ UNCHANGED faults
        /\ Say(conv.pr, [Current(conv) EXCEPT !.state = "sign-in", !.error = SignInError], FALSE)
     \/ /\ ~NeedsConsent /\ token
        /\ LET p == Opened(Current(conv))
               begun == IF Rebuilds(conv) THEN {} ELSE {p}
           IN \/ UNCHANGED faults /\ \E plan \in Plans(p) : Build(plan)
              \/ /\ Fault
                 /\ \E q \in begun \cup {plan.pr : plan \in Plans(p)} :
                      Say(conv.pr, [q EXCEPT !.error = <<"git", q.branch, 0>>], FALSE)
SyncNow ==
  /\ EndsAtOnce \/ GoesOn
  /\ UNCHANGED <<userVars, consent, token, rewinding, githubVars>>

-----------------------------------------------------------------------------
(* The push, and what follows it at GitHub.                                  *)

Failed(kind) == [sync.pr EXCEPT !.error = <<kind, sync.pr.branch, 0>>]
Fails(kind) == Say(sync.was, Failed(kind), due)

Accepted == sync.force \/ PartsOf(remote[sync.pr.branch]) \subseteq sync.head
Lands == Accepted /\ remote' = [remote EXCEPT ![sync.pr.branch] = sync.head]
Push ==
  /\ sync.at = "push"
  /\ \/ /\ Lands /\ sync' = [sync EXCEPT !.at = "pull", !.pr.head = sync.head]
        /\ UNCHANGED <<conv, due, parted, forgotten, faults>>
     \/ ~Accepted /\ Fails("rejected") /\ UNCHANGED <<remote, faults>>
     \/ Fault /\ Fails("push") /\ UNCHANGED remote
     \/ Fault /\ Lands /\ SayAfter(sync.was, Failed("push"), sync.head, due)
  /\ UNCHANGED <<userVars, consent, token, rewinding, pulls>>

(* GitHub refuses a second pull request of a branch, and one without commits.*)
(* Any call may fail, or find the token invalid, after the pull request is   *)
(* opened too. Only a token that requests brought is then forgotten.         *)
Creates == sync.pr.number = 0
Refused == Creates /\ (sync.pr.branch \in pulls \/ sync.head = {})
Created == ~Refused /\ pulls' = IF Creates THEN pulls \cup {sync.pr.branch} ELSE pulls
(* Mutant: the record counts the restores made while the push was under way. *)
DoneLate ==
  [sync.pr EXCEPT !.number = IF Creates THEN sync.pr.branch ELSE @,
                  !.error = sync.error, !.seen = conv.restoreAt]
Done ==
  [sync.pr EXCEPT !.number = IF Creates THEN sync.pr.branch ELSE @,
                  !.error = sync.error, !.seen = sync.seen]
Publish ==
  /\ sync.at = "pull"
  /\ \/ Created /\ Record(Done) /\ UNCHANGED <<token, parted, faults>>
     \/ Refused /\ Fails("refused") /\ UNCHANGED <<token, pulls, faults>>
     \/ Fault /\ (Created \/ UNCHANGED pulls) /\ Fails("api") /\ UNCHANGED token
     \/ /\ Fault /\ (Created \/ UNCHANGED pulls) /\ token' \in {token, FALSE}
        /\ Say(sync.was, [sync.pr EXCEPT !.state = "sign-in", !.error = SignInError], due)
  /\ UNCHANGED <<userVars, consent, rewinding, remote>>

-----------------------------------------------------------------------------
(* The conversation and its owner.                                           *)

Wakes == due' = TRUE /\ forgotten' = FALSE /\ UNCHANGED <<sync, githubVars>>
Asked == Wakes /\ UNCHANGED <<parted, faults>>

(* A turn ended: its message, its checkpoints.                               *)
Turn ==
  /\ made < MaxTurns /\ made' = made + 1
  /\ conv' = [conv EXCEPT !.turns = @ \cup {made'}]
  /\ \/ UNCHANGED <<changed, moot>>
     \/ changed' = changed \cup {made'} /\ UNCHANGED moot
     \/ moot' = moot \cup {made'} /\ UNCHANGED changed
  /\ Asked /\ UNCHANGED <<clock, consent, token, rewinding>>

(* The tree goes back to what it was after turn k, or before the first; the  *)
(* messages stay.                                                            *)
Restore(k) ==
  /\ conv.turns # {} /\ clock < MaxRestores /\ clock' = clock + 1
  /\ conv' = [conv EXCEPT !.undone = @ \cup {t \in conv.turns : t > k}, !.restoreAt = clock']
  /\ Asked /\ UNCHANGED <<changed, moot, made, consent, token, rewinding>>

(* The messages after turn k go as well, and with them the restores of their *)
(* checkpoints, whichever these are.                                         *)
Trimmed(c, k, restoreAt) ==
  LET kept == {t \in c.turns : t <= k}
  IN [c EXCEPT !.turns = kept, !.undone = @ \cap kept, !.restoreAt = restoreAt]

(* A sync is under way, or the record has not seen the newest restore.       *)
Unseen == sync # Idle \/ (conv.pr # None /\ conv.pr.seen < conv.restoreAt)

(* Without a checkpoint of the message before them nothing is restored and   *)
(* nothing awaited. If a restore is forgotten before it is seen, nothing may *)
(* ask for the rebuild any more.                                             *)
RewindNow(k) ==
  /\ \E t \in conv.turns : t > k
  /\ \E at \in 0 .. conv.restoreAt :
       /\ conv' = Trimmed(conv, k, at)
       /\ parted' = \/ parted
                    \/ conv'.turns # {} /\ at # conv.restoreAt /\ Unseen
  /\ Wakes /\ UNCHANGED <<userVars, consent, token, rewinding, faults>>

(* Otherwise the tree is restored first, and what was left of the            *)
(* conversation before that is written after it, with its record: if that    *)
(* takes the place of a newer one and names no turn, nothing but the restore *)
(* asks for the branch to be rebuilt, and the record parts from it. If the   *)
(* tree could not be saved there is not even the restore, and it parts       *)
(* whatever else changed meanwhile. One at a time here; one whose restore    *)
(* fails changes nothing, as if it had not begun.                            *)
RewindBegins(k) ==
  /\ rewinding = None /\ \E t \in conv.turns : t > k
  /\ clock < MaxRestores \/ faults < MaxFaults  \* bound: it can end
  /\ rewinding' = [keep |-> k, next |-> Trimmed(conv, k, conv.restoreAt)]
  /\ UNCHANGED <<conv, userVars, consent, token, due, sync, githubVars, parted, forgotten, faults>>
RewindSaved(next) ==
  /\ clock < MaxRestores /\ clock' = clock + 1
  /\ conv' = [next EXCEPT !.restoreAt = clock']
  /\ parted' = \/ parted
               \/ next.pr # conv.pr /\ Current(next).head # NoCommit /\ Current(next).last = 0
  /\ UNCHANGED faults
RewindUnsaved(next) ==
  /\ Fault /\ UNCHANGED clock
  /\ \E at \in 0 .. next.restoreAt : conv' = [next EXCEPT !.restoreAt = at]
  /\ parted' = \/ parted
               \/ [conv' EXCEPT !.enabled = conv.enabled] # Trimmed(conv, rewinding.keep, conv.restoreAt)
RewindEnds ==
  /\ rewinding # None /\ rewinding' = None
  /\ RewindSaved(rewinding.next) \/ RewindUnsaved(rewinding.next)
  /\ Wakes /\ UNCHANGED <<changed, moot, made, consent, token>>

(* The answer to the question for consent. "Not now" turns "Create PR when   *)
(* done" off, and the menu turns it on again.                                *)
Allow ==
  /\ conv.pr # None /\ conv.pr.state = "consent"
  /\ consent' = TRUE /\ conv' = [conv EXCEPT !.enabled = TRUE]
  /\ Asked /\ UNCHANGED <<userVars, token, rewinding>>
NotNow ==
  /\ conv.pr # None /\ conv.pr.state = "consent" /\ conv.enabled
  /\ conv' = [conv EXCEPT !.enabled = FALSE]
  /\ Asked /\ UNCHANGED <<userVars, consent, token, rewinding>>
SwitchOn ==
  /\ ~conv.enabled /\ conv' = [conv EXCEPT !.enabled = TRUE]
  /\ Asked /\ UNCHANGED <<userVars, consent, token, rewinding>>
SignIn ==
  /\ ~token /\ token' = TRUE
  /\ UNCHANGED <<conv, userVars, consent, due, sync, rewinding, githubVars, parted, forgotten, faults>>

(* Somebody pushes on top of a branch, replaces or deletes it.               *)
OthersPush ==
  /\ Fault
  /\ \E b \in Branches :
       /\ remote[b] # NoCommit
       /\ \E c \in {remote[b] \cup {<<0, Serial>>}, {<<0, Serial>>}, NoCommit} :
            remote' = [remote EXCEPT ![b] = c]
  /\ UNCHANGED <<conv, userVars, consent, token, due, sync, rewinding, pulls, parted, forgotten>>

(* The backend restarts. The record is on disk: it is written in the same    *)
(* turn of the event loop it is made in. The timer, the sync, the rewind, and*)
(* in a tenant's backend the token are lost. A pull request it was opening   *)
(* may be open.                                                              *)
Restart ==
  /\ Fault
  /\ sync' = Idle /\ due' = FALSE /\ rewinding' = None /\ token' \in {token, FALSE}
  /\ forgotten' = (forgotten \/ due \/ sync # Idle)
  /\ \/ UNCHANGED pulls
     \/ sync.at = "pull" /\ Created
  /\ parted' = (parted \/ sync.at = "pull")
  /\ UNCHANGED <<conv, userVars, consent, remote>>

-----------------------------------------------------------------------------
Init ==
  /\ conv = [turns |-> {}, undone |-> {}, restoreAt |-> 0, enabled |-> TRUE, pr |-> None]
  /\ changed = {} /\ moot = {} /\ made = 0 /\ clock = 0
  /\ consent \in BOOLEAN /\ token \in BOOLEAN
  /\ due = FALSE /\ sync = Idle /\ rewinding = None
  /\ remote = [b \in Branches |-> NoCommit] /\ pulls = {}
  /\ parted = FALSE /\ forgotten = FALSE /\ faults = 0

Sync == SyncNow \/ Push \/ Publish
Next ==
  \/ Sync \/ Turn \/ RewindEnds
  \/ \E k \in conv.turns \cup {0} : Restore(k) \/ RewindNow(k) \/ RewindBegins(k)
  \/ Allow \/ NotNow \/ SwitchOn \/ SignIn \/ OthersPush \/ Restart

Spec == Init /\ [][Next]_vars
FairSpec == Spec /\ WF_vars(Sync)

-----------------------------------------------------------------------------
(* Properties.                                                               *)

Kept == conv.turns \ conv.undone

(* Unless the record still asks for the branch to be rebuilt, the branch     *)
(* holds no turn that was rewound or undone, whenever during a sync that     *)
(* happened, and whoever else pushed (doc/qaap-task-to-pr.md:75-76).         *)
UndoneTurnsLeave ==
  conv.pr # None /\ ~Rebuilds(conv) /\ ~parted => TurnsIn(conv.pr.head) \subseteq Kept \cup {0}

(* Every change up to the last turn the record names is in the commit it     *)
(* names (qaap-shared-core/src/common/qaap-task-pull-request.ts:33).         *)
RecordedTurnsAreInHead ==
  conv.pr # None /\ conv.pr.last \in conv.turns /\ ~Rebuilds(conv) =>
    {t \in Kept \cap changed : t <= conv.pr.last} \subseteq TurnsIn(conv.pr.head)
(* It is so however turns, conflicts, restores and other people's pushes     *)
(* fall, until a failed or lost call parts the record from the branch.       *)
TurnsAreInHead == ~parted => RecordedTurnsAreInHead

(* "open: the PR is green and up to date" (qaap-task-pull-request.ts:26): an *)
(* open pull request without an error has every turn its record names.       *)
OpenIsUpToDate ==
  conv.pr # None /\ conv.pr.state = "open" /\ conv.pr.error = NoError => RecordedTurnsAreInHead

(* While the owner is signed in, has consented and leaves the switch on, a   *)
(* change reaches the branch, unless it is undone or the record says what    *)
(* went wrong: none waits for a sync that nobody runs. (No turn ever leaves  *)
(* `changed`, so for each of them []<> is what ~> would be.)                 *)
Published(t) ==
  \/ t \notin Kept \/ parted \/ forgotten
  \/ conv.pr # None /\ (t \in TurnsIn(conv.pr.head) \/ conv.pr.error # NoError)
ChangesArePublished ==
  <>[](token /\ consent /\ conv.enabled) =>
    \A t \in 1 .. MaxTurns : []<>(t \in changed => Published(t))

(* Constraint: the record and the branch have not parted. They stay parted,  *)
(* and then UndoneTurnsLeave, TurnsAreInHead and Published hold for good, so *)
(* nothing they could say is cut off.                                        *)
NotParted == ~parted
=============================================================================
