---------------------------- MODULE MCJobRuntime ----------------------------
(* Small instances of JobRuntime for TLC.                                   *)
EXTENDS JobRuntime

CONSTANTS a, b, c, d, alice, bob, ws, ws2, k, g

Req(owner, cwd, access, class, kind, deps, max, key) ==
  [owner |-> owner, cwd |-> cwd, access |-> access, class |-> class,
   kind |-> kind, dependsOn |-> deps, maxAttempts |-> max, key |-> key]

Lanes == [cpu |-> 2, workspace |-> 1]
NoGraph == [x \in {} |-> x]

(* A retried writer, a reader of its workspace by another owner, and a       *)
(* function with which the writer shares its owner's only slot.              *)
RetryRequests ==
  [j \in {a, b, c} |->
     CASE j = a -> Req(alice, ws, "write", "workspace", "command", {}, 2, k)
       [] j = b -> Req(bob, ws, "read", "cpu", "command", {}, 1, NoKey)
       [] j = c -> Req(alice, ws2, "read", "cpu", "function", {}, 1, NoKey)]

(* A writer with a key, a reader that depends on it, and a second request   *)
(* under the same key: what a restart may lose, keep or admit again.        *)
RestartRequests ==
  [j \in {a, b, c} |->
     CASE j = a -> Req(alice, ws, "write", "workspace", "command", {}, 2, k)
       [] j = b -> Req(alice, ws, "read", "cpu", "command", {a}, 1, NoKey)
       [] j = c -> Req(alice, ws, "read", "cpu", "function", {}, 1, k)]

(* A diamond admitted as one graph, in topological order: d needs b and c,   *)
(* which both need a, and a may be tried twice.                             *)
DiamondRequests ==
  [j \in {a, b, c, d} |->
     CASE j = a -> Req(alice, ws, "write", "workspace", "command", {}, 2, NoKey)
       [] j = b -> Req(alice, ws, "read", "cpu", "function", {a}, 1, NoKey)
       [] j = c -> Req(alice, ws, "read", "cpu", "command", {a}, 1, NoKey)
       [] j = d -> Req(alice, ws, "write", "workspace", "function", {b, c}, 1, NoKey)]

DiamondGraph == [x \in {g} |-> [owner |-> alice, key |-> k, nodes |-> <<a, b, c, d>>]]

(* A chain c -> b -> a listed with every dependent before what it needs.     *)
ChainRequests ==
  [j \in {a, b, c} |->
     CASE j = a -> Req(alice, ws, "write", "workspace", "command", {}, 2, NoKey)
       [] j = b -> Req(alice, ws, "read", "cpu", "function", {a}, 1, NoKey)
       [] j = c -> Req(alice, ws, "write", "workspace", "command", {b}, 1, NoKey)]

ReverseGraph == [x \in {g} |-> [owner |-> alice, key |-> k, nodes |-> <<c, b, a>>]]

(* One retried command.                                                     *)
OneRetried ==
  [j \in {a} |-> Req(alice, ws, "write", "workspace", "command", {}, 2, NoKey)]
=============================================================================
