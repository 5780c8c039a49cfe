------------------------------ MODULE JobLedger ------------------------------
(***************************************************************************)
(* What QaapJobRuntime promises its clients, with none of its machinery:   *)
(* a job is submitted, starts only when every dependency succeeded and the *)
(* budgets and the workspace lease allow it, may go back to wait for       *)
(* another attempt, settles once and for all, and is forgotten only when   *)
(* no unsettled job depends on it.                                         *)
(***************************************************************************)
EXTENDS Naturals, FiniteSets

CONSTANTS Job, Request, MaxConcurrent, MaxPerUser, ResourceLimit

VARIABLE phase   \* Job -> "unknown", "pending", "active", "done" or "dead"

Phase == {"unknown", "pending", "active", "done", "dead"}
Holding(p, S) == {j \in Job : p[j] \in S}
Unsettled == {"pending", "active"}

(* The jobs of A may be active together.                                    *)
Compatible(A) ==
  /\ Cardinality(A) <= MaxConcurrent
  /\ \A j \in A :
       /\ Cardinality({i \in A : Request[i].owner = Request[j].owner}) <= MaxPerUser
       /\ Cardinality({i \in A : Request[i].class = Request[j].class})
            <= ResourceLimit[Request[j].class]
       /\ \A i \in A : i # j /\ Request[i].cwd = Request[j].cwd =>
            Request[i].access = "read"

Move(S, from, to) ==
  /\ \A j \in S : phase[j] \in from
  /\ phase' = [j \in Job |-> IF j \in S THEN to ELSE phase[j]]

Submit(S) == Move(S, {"unknown"}, "pending")

Begin(j) ==
  /\ \A d \in Request[j].dependsOn : phase[d] = "done"
  /\ Compatible(Holding(phase, {"active"}) \cup {j})
  /\ Move({j}, {"pending"}, "active")

Retry(j) == Move({j}, {"active"}, "pending")

Succeed(j) == Move({j}, {"active"}, "done")

GiveUp(S) == Move(S, Unsettled, "dead")

Forget(S) ==
  /\ \A j \in Holding(phase, Unsettled) : Request[j].dependsOn \cap S = {}
  /\ Move(S, {"done", "dead"}, "unknown")

(* The backend restarts: the ledger is one it had written before, or empty  *)
(* if that cannot be read.  Nothing is active in it, and no unsettled job   *)
(* has lost a dependency.                                                   *)
Recover ==
  \E p \in [Job -> Phase \ {"active"}] :
    /\ \A j \in Holding(p, {"pending"}) : \A i \in Request[j].dependsOn : p[i] # "unknown"
    /\ phase' = p

LedgerInit == phase = [j \in Job |-> "unknown"]

LedgerNext ==
  \/ \E S \in SUBSET Job : Submit(S) \/ GiveUp(S) \/ Forget(S)
  \/ \E j \in Job : Begin(j) \/ Retry(j) \/ Succeed(j)
  \/ Recover

LedgerSpec == LedgerInit /\ [][LedgerNext]_phase
=============================================================================
