----------------------------- MODULE MCAgentTasks -----------------------------
(* Two turns of one account in its shared working tree of a repository.      *)
EXTENDS AgentTasks, TLC

CONSTANTS t1, t2, ann

OwnersOf == (t1 :> ann) @@ (t2 :> ann)
ReposOf == (t1 :> "repo") @@ (t2 :> "repo")
=============================================================================
