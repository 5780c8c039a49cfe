------------------------- MODULE TaskPullRequestProofs -------------------------
(* What holds of the record and the branch of a task's pull request for any  *)
(* number of turns, restores, rewinds and faults: as long as no call that    *)
(* failed or was lost parts the two, no undone turn stays on the branch and  *)
(* none that is recorded is missing from it.                                 *)
EXTENDS TaskPullRequest, WellFoundedInduction, TLAPS

-----------------------------------------------------------------------------
(* The inductive invariant                                                   *)

KeptIn(c) == c.turns \ c.undone

IsPull(p) ==
  /\ p = [state |-> p.state, branch |-> p.branch, number |-> p.number, head |-> p.head,
          last |-> p.last, error |-> p.error, seen |-> p.seen]
  /\ p.branch \in Branches /\ p.last \in Nat /\ p.seen \in Nat

(* A record speaks of turns and restores of the past, the last turn it names *)
(* is the newest on its commit, and without a commit it names none.          *)
Dated(p, turns, restores) ==
  /\ p.last \in 0 .. turns /\ p.seen \in 0 .. restores
  /\ TurnsIn(p.head) \subseteq 0 .. p.last
  /\ p.head = NoCommit => p.last = 0

(* A record asks for no rebuild of its commit...                             *)
Names(c, p) == p.last \in c.turns \cup {0} /\ c.restoreAt <= p.seen

(* ...and then holds what it should and nothing else...                      *)
Holds(c, p, ch) ==
  Names(c, p) =>
    /\ TurnsIn(p.head) \subseteq KeptIn(c) \cup {0}
    /\ p.last \in c.turns => {t \in KeptIn(c) \cap ch : t <= p.last} \subseteq TurnsIn(p.head)

(* ...and what its branch at GitHub has on top of it is somebody else's. A   *)
(* record that names no turn may ask for nothing again once the restores are *)
(* forgotten, so this must be true of it in any case.                        *)
Ours(p, at) == TurnsIn(at[p.branch]) \subseteq TurnsIn(p.head) \cup {0}
Unmixed(c, p, at) == p.head # NoCommit /\ (Names(c, p) \/ p.last = 0) => Ours(p, at)

ConvRecord(c) ==
  c = [turns |-> c.turns, undone |-> c.undone, restoreAt |-> c.restoreAt,
       enabled |-> c.enabled, pr |-> c.pr]
IsConv(c, turns, restores) ==
  /\ ConvRecord(c)
  /\ c.turns \subseteq 1 .. turns /\ c.restoreAt \in 0 .. restores
  /\ c.pr # None => IsPull(c.pr) /\ Dated(c.pr, turns, restores)

Counters ==
  /\ made \in Nat /\ clock \in Nat /\ remote = [b \in Branches |-> remote[b]]
ConvInv ==
  /\ IsConv(conv, made, clock)
  /\ conv.pr # None => /\ Holds(conv, conv.pr, changed)
                       /\ sync.at # "pull" => Unmixed(conv, conv.pr, remote)
RewindInv == rewinding # None => rewinding.keep \in Nat /\ IsConv(rewinding.next, made, clock)

(* The record a sync makes if it succeeds, and if what follows the push      *)
(* fails.                                                                    *)
Succeeding(s) == [s.pr EXCEPT !.head = s.head, !.seen = s.seen]
Failing(s) == [s.pr EXCEPT !.head = s.head]

(* What a sync took from the record it began with, if that has a commit.     *)
Continues(p, was) ==
  was # None /\ p.head = was.head /\ p.branch = was.branch /\ p.seen = was.seen

Pending(s) ==
  /\ s = [at |-> s.at, was |-> s.was, pr |-> s.pr, head |-> s.head, force |-> s.force,
          error |-> s.error, seen |-> s.seen]
  /\ s.at \in {"push", "pull"} /\ IsPull(s.pr) /\ s.head # NoCommit /\ s.seen \in Nat
PendingHolds(s) ==
  \A p \in {Succeeding(s), Failing(s)} : Dated(p, made, clock) /\ Holds(conv, p, changed)
PendingWas(s) ==
  s.was # None =>
    /\ IsPull(s.was) /\ Dated(s.was, made, clock) /\ Holds(conv, s.was, changed)
    /\ s.at = "push" \/ s.pr.branch # s.was.branch => Unmixed(conv, s.was, remote)
PendingBranch(s) ==
  /\ s.at = "push" => s.pr.head = NoCommit \/ Continues(s.pr, s.was)
  /\ s.at = "pull" => s.pr.head = s.head /\ Ours(s.pr, remote)
(* A record that a rewind put in place of the one a sync began with asks for *)
(* a rebuild, or has no commit.                                              *)
Apart(s) ==
  conv.pr \notin {None, s.was} /\ conv.pr.head # NoCommit =>
    ~Names(conv, conv.pr) /\ conv.pr.last # 0
SyncInv ==
  sync # Idle =>
    Pending(sync) /\ PendingHolds(sync) /\ PendingWas(sync) /\ PendingBranch(sync) /\ Apart(sync)

Consistent == Counters /\ ConvInv /\ RewindInv /\ SyncInv
PullInv == ~parted => Consistent

-----------------------------------------------------------------------------
(* Numbers and records                                                       *)

LEMMA Least ==
  ASSUME NEW T, T \subseteq Nat, T # {}
  PROVE  \E x \in T : \A y \in T : x <= y
<1> DEFINE R == OpToRel(<, Nat)
<1>1. PICK x \in T : \A y \in T : ~(<<y, x>> \in R)
  <2> HIDE DEF R
  <2>1. IsWellFoundedOn(R, Nat)
    BY NatLessThanWellFounded DEF R
  <2>2. QED
    BY <2>1, WFMin
<1>2. \A y \in T : ~(y < x)
  BY <1>1 DEF OpToRel
<1>3. QED
  BY <1>2

(* A bounded set of numbers has a greatest one: the least of its bounds.     *)
LEMMA Greatest ==
  ASSUME NEW n \in Nat, NEW S, S \subseteq 0 .. n, S # {}
  PROVE  \E x \in S : \A y \in S : y <= x
<1> DEFINE T == {m \in Nat : \A y \in S : y <= m}
<1>1. T \subseteq Nat /\ n \in T
  OBVIOUS
<1>2. PICK x \in T : \A y \in T : x <= y
  <2> HIDE DEF T
  <2>1. QED
    BY <1>1, Least
<1>3. x \in S
  <2> SUFFICES ASSUME x \notin S PROVE FALSE
    OBVIOUS
  <2>1. PICK z \in S : z <= x
    OBVIOUS
  <2>2. x - 1 \in T
    <3>1. x \in Nat /\ \A y \in S : y \in Nat /\ y <= x /\ y # x
      OBVIOUS
    <3>2. z < x /\ z \in Nat
      BY <2>1, <3>1
    <3>3. QED
      BY <3>1, <3>2
  <2>3. QED
    BY <1>2, <2>2
<1>4. QED
  BY <1>3

LEMMA EmptyCommit ==
  {} # NoCommit /\ TurnsIn(NoCommit) = {} /\ TurnsIn({}) = {} /\ PartsOf({}) = {}
BY DEF NoCommit, TurnsIn, PartsOf

LEMMA BranchRange == Branches \subseteq Nat /\ 1 \in Branches
BY BoundsAssumption DEF Branches

LEMMA FreshFacts ==
  /\ IsPull(Fresh) /\ Fresh.head = NoCommit /\ Fresh.last = 0 /\ Fresh.seen = 0 /\ Fresh.branch = 1
BY BranchRange DEF Fresh, IsPull

(* What is said of a record is said of its commit and what it names.         *)
Alike(p, q) == p.head = q.head /\ p.branch = q.branch /\ p.last = q.last /\ p.seen = q.seen

LEMMA AlikeHolds ==
  ASSUME NEW p, NEW q, Alike(p, q)
  PROVE  /\ \A t, r : Dated(p, t, r) <=> Dated(q, t, r)
         /\ \A c, ch : Holds(c, p, ch) <=> Holds(c, q, ch)
         /\ \A c, at : Unmixed(c, p, at) <=> Unmixed(c, q, at)
         /\ \A c : Names(c, p) <=> Names(c, q)
         /\ \A at : Ours(p, at) <=> Ours(q, at)
BY DEF Alike, Dated, Holds, Unmixed, Names, Ours

(* The other edits, as far as they matter: what becomes of the commit, the   *)
(* branch, the last turn and the restores.                                   *)
Reads(q, h, b, l, n) == IsPull(q) /\ q.head = h /\ q.branch = b /\ q.last = l /\ q.seen = n

LEMMA PullReads ==
  ASSUME NEW p, IsPull(p)
  PROVE  /\ Reads(p, p.head, p.branch, p.last, p.seen)
         /\ \A x : Reads([p EXCEPT !.error = x], p.head, p.branch, p.last, p.seen)
         /\ \A x : Reads([p EXCEPT !.state = x], p.head, p.branch, p.last, p.seen)
         /\ \A x : Reads([p EXCEPT !.number = x], p.head, p.branch, p.last, p.seen)
         /\ \A x : Reads([p EXCEPT !.head = x], x, p.branch, p.last, p.seen)
         /\ \A x \in Nat : Reads([p EXCEPT !.last = x], p.head, p.branch, x, p.seen)
         /\ \A x \in Nat : Reads([p EXCEPT !.seen = x], p.head, p.branch, p.last, x)
         /\ \A x \in Branches : Reads([p EXCEPT !.branch = x], p.head, x, p.last, p.seen)
BY DEF IsPull, Reads

LEMMA PullReadsTwo ==
  ASSUME NEW p, IsPull(p), NEW x, NEW y, NEW b \in Branches, NEW n \in Nat
  PROVE  /\ Reads([p EXCEPT !.state = x, !.error = y], p.head, p.branch, p.last, p.seen)
         /\ Reads([p EXCEPT !.head = x, !.seen = n], x, p.branch, p.last, n)
         /\ Reads([p EXCEPT !.number = x, !.error = y, !.seen = n], p.head, p.branch, p.last, n)
         /\ Reads([p EXCEPT !.branch = b, !.number = 0, !.head = NoCommit, !.last = 0],
                  NoCommit, b, 0, p.seen)
<1>1. Reads([p EXCEPT !.state = x, !.error = y], p.head, p.branch, p.last, p.seen)
  <2> DEFINE q == [p EXCEPT !.state = x]
  <2>1. [p EXCEPT !.state = x, !.error = y] = [q EXCEPT !.error = y]
    OBVIOUS
  <2>2. Reads(q, p.head, p.branch, p.last, p.seen)
    BY PullReads
  <2> HIDE DEF q
  <2>3. QED
    BY <2>1, <2>2, PullReads DEF Reads
<1>2. Reads([p EXCEPT !.head = x, !.seen = n], x, p.branch, p.last, n)
  <2> DEFINE q == [p EXCEPT !.head = x]
  <2>1. [p EXCEPT !.head = x, !.seen = n] = [q EXCEPT !.seen = n]
    OBVIOUS
  <2>2. Reads(q, x, p.branch, p.last, p.seen)
    BY PullReads
  <2> HIDE DEF q
  <2>3. QED
    BY <2>1, <2>2, PullReads DEF Reads
<1>3. Reads([p EXCEPT !.number = x, !.error = y, !.seen = n], p.head, p.branch, p.last, n)
  <2> DEFINE q == [p EXCEPT !.number = x]
             r == [q EXCEPT !.error = y]
  <2>1. [p EXCEPT !.number = x, !.error = y, !.seen = n] = [r EXCEPT !.seen = n]
    OBVIOUS
  <2>2. Reads(q, p.head, p.branch, p.last, p.seen)
    BY PullReads
  <2>3. Reads(r, p.head, p.branch, p.last, p.seen)
    <3> HIDE DEF q
    <3>1. QED
      BY <2>2, PullReads DEF Reads
  <2> HIDE DEF q, r
  <2>4. QED
    BY <2>1, <2>3, PullReads DEF Reads
<1>4. Reads([p EXCEPT !.branch = b, !.number = 0, !.head = NoCommit, !.last = 0],
            NoCommit, b, 0, p.seen)
  <2> DEFINE q == [p EXCEPT !.branch = b]
             r == [q EXCEPT !.number = 0]
             t == [r EXCEPT !.head = NoCommit]
  <2>1. [p EXCEPT !.branch = b, !.number = 0, !.head = NoCommit, !.last = 0] = [t EXCEPT !.last = 0]
    OBVIOUS
  <2>2. Reads(q, p.head, b, p.last, p.seen)
    BY PullReads
  <2>3. Reads(r, p.head, b, p.last, p.seen)
    <3> HIDE DEF q
    <3>1. QED
      BY <2>2, PullReads DEF Reads
  <2>4. Reads(t, NoCommit, b, p.last, p.seen)
    <3> HIDE DEF q, r
    <3>1. QED
      BY <2>3, PullReads DEF Reads
  <2> HIDE DEF q, r, t
  <2>5. QED
    BY <2>1, <2>4, PullReads DEF Reads
<1>5. QED
  BY <1>1, <1>2, <1>3, <1>4

-----------------------------------------------------------------------------
(* What the invariant says                                                   *)

LEMMA ConsistentImplies ==
  ASSUME Consistent
  PROVE  /\ conv.pr # None /\ ~Rebuilds(conv) => TurnsIn(conv.pr.head) \subseteq Kept \cup {0}
         /\ RecordedTurnsAreInHead
<1>1. CASE conv.pr = None
  BY <1>1 DEF RecordedTurnsAreInHead
<1>2. CASE conv.pr # None /\ conv.pr.head = NoCommit
  <2>1. conv.pr.last = 0 /\ conv.turns \subseteq 1 .. made
    BY <1>2 DEF Consistent, ConvInv, IsConv, Dated
  <2>2. QED
    BY <1>2, <2>1, EmptyCommit DEF RecordedTurnsAreInHead
<1>3. CASE conv.pr # None /\ conv.pr.head # NoCommit /\ ~Rebuilds(conv)
  <2>1. Names(conv, conv.pr)
    BY <1>3 DEF Rebuilds, Names, Consistent, ConvInv, IsConv, Dated, Counters
  <2>2. QED
    BY <1>3, <2>1 DEF Consistent, ConvInv, Holds, Kept, KeptIn, RecordedTurnsAreInHead
<1>4. QED
  BY <1>1, <1>2, <1>3 DEF RecordedTurnsAreInHead

-----------------------------------------------------------------------------
(* The conversation moves                                                    *)

(* A conversation gets a turn or a newer restore, or loses its last turns or *)
(* all: what is said of a record stays true, and no record that asks for a   *)
(* rebuild ceases to, except that one without a turn has nothing left to ask *)
(* with.                                                                     *)
Cut(c, d, k) == d.turns = {t \in c.turns : t <= k} /\ d.undone = c.undone \cap d.turns
Moves(c, d) ==
  \/ /\ d.undone = c.undone /\ d.restoreAt = c.restoreAt /\ c.turns \subseteq d.turns
     /\ \A t \in d.turns \ c.turns : t > made
  \/ d.restoreAt > clock
  \/ d.turns = {}
  \/ d.restoreAt = c.restoreAt /\ \E k \in Nat : Cut(c, d, k)

(* What names a turn that is left loses no turn on its branch.               *)
LEMMA RecordCut ==
  ASSUME Counters, IsConv(conv, made, clock), NEW k \in Nat, NEW d, Cut(conv, d, k), NEW p,
         Dated(p, made, clock), d.restoreAt <= p.seen => conv.restoreAt <= p.seen
  PROVE  /\ Names(d, p) => Names(conv, p)
         /\ Holds(conv, p, changed) => Holds(d, p, changed)
<1>1. /\ made \in Nat /\ clock \in Nat /\ conv.turns \subseteq 1 .. made
      /\ p.last \in 0 .. made /\ TurnsIn(p.head) \subseteq 0 .. p.last
  BY DEF Counters, IsConv, Dated
<1>2. /\ d.turns = {t \in conv.turns : t <= k} /\ d.turns \subseteq conv.turns
      /\ d.undone = conv.undone \cap d.turns
  BY DEF Cut
<1>3. Names(d, p) => Names(conv, p)
  BY <1>2 DEF Names
<1>4. KeptIn(d) = KeptIn(conv) \cap d.turns
  BY <1>2 DEF KeptIn
<1>5. ASSUME Names(d, p), TurnsIn(p.head) \subseteq KeptIn(conv) \cup {0}
      PROVE  TurnsIn(p.head) \subseteq KeptIn(d) \cup {0}
  <2> SUFFICES ASSUME NEW t \in TurnsIn(p.head), t # 0 PROVE t \in d.turns
    BY <1>4, <1>5
  <2>1. t \in conv.turns /\ t \in 0 .. p.last /\ p.last \in Nat
    BY <1>1, <1>5 DEF KeptIn
  <2>2. p.last \in d.turns
    BY <1>5, <2>1 DEF Names
  <2>3. p.last <= k
    BY <1>2, <2>2
  <2>4. t <= k
    BY <2>1, <2>3
  <2>5. QED
    BY <1>2, <2>1, <2>4
<1>6. QED
  BY <1>2, <1>3, <1>4, <1>5 DEF Holds

LEMMA RecordMoves ==
  ASSUME Counters, IsConv(conv, made, clock), NEW ch,
         NEW d, Moves(conv, d), d.turns \subseteq Nat, d.restoreAt \in Nat,
         \A t \in 1 .. made : t \in ch => t \in changed,
         NEW p, Dated(p, made, clock)
  PROVE  /\ Names(d, p) => Names(conv, p) \/ p.last = 0
         /\ Holds(conv, p, changed) => Holds(d, p, ch)
<1>1. /\ made \in Nat /\ clock \in Nat /\ conv.turns \subseteq 1 .. made /\ conv.restoreAt \in Nat
      /\ p.last \in 0 .. made /\ p.seen \in 0 .. clock /\ TurnsIn(p.head) \subseteq 0 .. p.last
  BY DEF Counters, IsConv, Dated
<1>2. CASE /\ d.undone = conv.undone /\ d.restoreAt = conv.restoreAt /\ conv.turns \subseteq d.turns
           /\ \A t \in d.turns \ conv.turns : t > made
  <2>1. Names(d, p) <=> Names(conv, p)
    BY <1>1, <1>2 DEF Names
  <2>2. KeptIn(conv) \subseteq KeptIn(d)
    BY <1>2 DEF KeptIn
  <2>3. p.last \in d.turns <=> p.last \in conv.turns
    BY <1>1, <1>2
  <2>4. \A t \in KeptIn(d) \cap ch : t <= p.last => t \in KeptIn(conv) \cap changed
    <3> SUFFICES ASSUME NEW t \in KeptIn(d) \cap ch, t <= p.last
                 PROVE  t \in KeptIn(conv) \cap changed
      OBVIOUS
    <3>1. t \in conv.turns
      BY <1>1, <1>2 DEF KeptIn
    <3>2. QED
      BY <1>1, <1>2, <3>1 DEF KeptIn
  <2>5. QED
    BY <2>1, <2>2, <2>3, <2>4 DEF Holds
<1>3. CASE d.restoreAt > clock
  <2>1. ~Names(d, p)
    BY <1>1, <1>3 DEF Names
  <2>2. QED
    BY <2>1 DEF Holds
<1>4. CASE d.turns = {}
  <2>1. Names(d, p) => p.last = 0
    BY <1>4 DEF Names
  <2>2. p.last = 0 => TurnsIn(p.head) \subseteq {0}
    BY <1>1
  <2>3. QED
    BY <1>4, <2>1, <2>2 DEF Holds
<1>5. CASE d.restoreAt = conv.restoreAt /\ \E k \in Nat : Cut(conv, d, k)
  <2>1. /\ Names(d, p) => Names(conv, p)
        /\ Holds(conv, p, changed) => Holds(d, p, changed)
    BY <1>5, RecordCut
  <2>2. d.turns \subseteq 1 .. made
    BY <1>1, <1>5 DEF Cut
  <2>3. Holds(d, p, changed) => Holds(d, p, ch)
    BY <2>2 DEF Holds, KeptIn
  <2>4. QED
    BY <2>1, <2>3
<1>6. QED
  BY <1>2, <1>3, <1>4, <1>5 DEF Moves

LEMMA Later ==
  ASSUME Counters, made' \in Nat, clock' \in Nat, made <= made', clock <= clock'
  PROVE  /\ \A p : Dated(p, made, clock) => Dated(p, made', clock')
         /\ \A c : IsConv(c, made, clock) => IsConv(c, made', clock')
<1>1. \A p : Dated(p, made, clock) => Dated(p, made', clock')
  BY DEF Dated, Counters
<1>2. \A c : IsConv(c, made, clock) => IsConv(c, made', clock')
  BY <1>1 DEF IsConv, Counters
<1>3. QED
  BY <1>1, <1>2

Tells(d, t, u, r, p) ==
  ConvRecord(d) /\ d.turns = t /\ d.undone = u /\ d.restoreAt = r /\ d.pr = p

LEMMA ConvEdit ==
  ASSUME NEW c, ConvRecord(c)
  PROVE  /\ Tells(c, c.turns, c.undone, c.restoreAt, c.pr)
         /\ \A x : Tells([c EXCEPT !.turns = x], x, c.undone, c.restoreAt, c.pr)
         /\ \A x : Tells([c EXCEPT !.undone = x], c.turns, x, c.restoreAt, c.pr)
         /\ \A x : Tells([c EXCEPT !.restoreAt = x], c.turns, c.undone, x, c.pr)
         /\ \A x : Tells([c EXCEPT !.enabled = x], c.turns, c.undone, c.restoreAt, c.pr)
         /\ \A x : Tells([c EXCEPT !.pr = x], c.turns, c.undone, c.restoreAt, x)
BY DEF ConvRecord, Tells

LEMMA ConvEdits ==
  ASSUME NEW c, ConvRecord(c), NEW x, NEW y, NEW z
  PROVE  /\ Tells([c EXCEPT !.undone = y, !.restoreAt = z], c.turns, y, z, c.pr)
         /\ Tells([c EXCEPT !.turns = x, !.undone = y, !.restoreAt = z], x, y, z, c.pr)
<1> DEFINE d == [c EXCEPT !.undone = y]
           e == [c EXCEPT !.turns = x]
           f == [e EXCEPT !.undone = y]
<1>1. /\ [c EXCEPT !.undone = y, !.restoreAt = z] = [d EXCEPT !.restoreAt = z]
      /\ [c EXCEPT !.turns = x, !.undone = y, !.restoreAt = z] = [f EXCEPT !.restoreAt = z]
  OBVIOUS
<1>2. Tells(d, c.turns, y, c.restoreAt, c.pr) /\ Tells(e, x, c.undone, c.restoreAt, c.pr)
  BY ConvEdit
<1>3. Tells(f, x, y, c.restoreAt, c.pr)
  <2> HIDE DEF e
  <2>1. QED
    BY <1>2, ConvEdit DEF Tells
<1> HIDE DEF d, f
<1>4. QED
  BY <1>1, <1>2, <1>3, ConvEdit DEF Tells

LEMMA ConversationMoves ==
  ASSUME Consistent, IsConv(conv', made', clock'), Moves(conv, conv'), conv'.pr = conv.pr,
         made' \in Nat, clock' \in Nat, made <= made', clock <= clock',
         \A t \in 1 .. made : t \in changed' => t \in changed,
         RewindInv', UNCHANGED <<sync, remote>>
  PROVE  Consistent'
<1>1. Counters' /\ Counters /\ IsConv(conv, made, clock)
  BY DEF Consistent, Counters, ConvInv
<1>2. \A p : Dated(p, made, clock) =>
        /\ Dated(p, made', clock')
        /\ Names(conv', p) => Names(conv, p) \/ p.last = 0
        /\ Holds(conv, p, changed) => Holds(conv', p, changed')
  <2>1. conv'.turns \subseteq Nat /\ conv'.restoreAt \in Nat
    BY DEF IsConv
  <2>2. QED
    BY <1>1, <2>1, RecordMoves, Later
<1>3. \A p : Dated(p, made, clock) /\ Unmixed(conv, p, remote) => Unmixed(conv', p, remote)
  BY <1>2 DEF Unmixed
<1>4. ConvInv'
  <2>1. conv.pr # None => /\ Dated(conv.pr, made, clock) /\ Holds(conv, conv.pr, changed)
                          /\ sync.at # "pull" => Unmixed(conv, conv.pr, remote)
    BY DEF Consistent, ConvInv, IsConv
  <2>2. QED
    BY <1>2, <1>3, <2>1 DEF ConvInv
<1>5. SyncInv'
  <2> SUFFICES ASSUME sync # Idle
               PROVE  /\ Pending(sync) /\ PendingHolds(sync)' /\ PendingWas(sync)'
                      /\ PendingBranch(sync)' /\ Apart(sync)'
    BY DEF SyncInv, Pending
  <2>1. /\ Pending(sync) /\ PendingHolds(sync) /\ PendingWas(sync)
        /\ PendingBranch(sync) /\ Apart(sync)
    BY DEF Consistent, SyncInv
  <2>2. PendingHolds(sync)'
    BY <1>2, <2>1 DEF PendingHolds, Succeeding, Failing
  <2>3. PendingWas(sync)'
    BY <1>2, <1>3, <2>1 DEF PendingWas
  <2>4. PendingBranch(sync)'
    BY <2>1 DEF PendingBranch, Continues
  <2>5. Apart(sync)'
    <3>1. conv.pr # None => Dated(conv.pr, made, clock)
      BY DEF Consistent, ConvInv, IsConv
    <3>2. QED
      BY <1>2, <2>1, <3>1 DEF Apart
  <2>6. QED
    BY <2>1, <2>2, <2>3, <2>4, <2>5
<1>6. QED
  BY <1>1, <1>4, <1>5 DEF Consistent

LEMMA TurnKeeps == ASSUME Consistent, Turn PROVE Consistent'
<1>1. /\ IsConv(conv, made, clock) /\ made \in Nat /\ clock \in Nat
      /\ made' = made + 1 /\ clock' = clock /\ conv' = [conv EXCEPT !.turns = conv.turns \cup {made'}]
      /\ changed' \in {changed, changed \cup {made'}}
      /\ UNCHANGED <<rewinding, sync, remote>>
  BY DEF Consistent, ConvInv, Counters, Turn, Asked, Wakes, githubVars
<1>2. Tells(conv', conv.turns \cup {made'}, conv.undone, conv.restoreAt, conv.pr)
  BY <1>1, ConvEdit DEF IsConv
<1>3. IsConv(conv', made', clock')
  BY <1>1, <1>2, Later DEF IsConv, Tells, Consistent
<1>4. Moves(conv, conv') /\ conv'.pr = conv.pr
  BY <1>1, <1>2 DEF Moves, Tells
<1>5. RewindInv'
  BY <1>1, Later DEF Consistent, RewindInv
<1>6. \A t \in 1 .. made : t \in changed' => t \in changed
  BY <1>1
<1>7. QED
  BY <1>1, <1>3, <1>4, <1>5, <1>6, ConversationMoves

LEMMA RestoreKeeps == ASSUME Consistent, NEW k, Restore(k) PROVE Consistent'
<1> DEFINE u == conv.undone \cup {t \in conv.turns : t > k}
<1>1. /\ IsConv(conv, made, clock) /\ made \in Nat /\ clock \in Nat
      /\ made' = made /\ clock' = clock + 1 /\ changed' = changed
      /\ conv' = [conv EXCEPT !.undone = u, !.restoreAt = clock']
      /\ UNCHANGED <<rewinding, sync, remote>>
  BY DEF Consistent, ConvInv, Counters, Restore, Asked, Wakes, githubVars
<1> HIDE DEF u
<1>2. Tells(conv', conv.turns, u, clock', conv.pr)
  BY <1>1, ConvEdits DEF IsConv
<1>3. IsConv(conv', made', clock')
  BY <1>1, <1>2, Later DEF IsConv, Tells, Consistent
<1>4. Moves(conv, conv') /\ conv'.pr = conv.pr
  BY <1>1, <1>2 DEF Moves, Tells
<1>5. RewindInv'
  BY <1>1, Later DEF Consistent, RewindInv
<1>6. QED
  BY <1>1, <1>3, <1>4, <1>5, ConversationMoves

LEMMA TrimmedTells ==
  ASSUME NEW c, ConvRecord(c), NEW k, NEW r
  PROVE  LET kept == {t \in c.turns : t <= k}
         IN Tells(Trimmed(c, k, r), kept, c.undone \cap kept, r, c.pr)
BY ConvEdits DEF Trimmed

(* A rewind that restores nothing may forget the newest restore: of what is  *)
(* left of the conversation that matters only while it is not seen.          *)
LEMMA RewindNowKeeps ==
  ASSUME Consistent, NEW k \in Nat, RewindNow(k), ~parted' PROVE Consistent'
<1> DEFINE kept == {t \in conv.turns : t <= k}
<1>1. /\ Counters /\ IsConv(conv, made, clock) /\ made \in Nat /\ clock \in Nat
      /\ made' = made /\ clock' = clock /\ changed' = changed
      /\ UNCHANGED <<rewinding, sync, remote>>
  BY DEF Consistent, ConvInv, Counters, RewindNow, Wakes, githubVars, userVars
<1>2. PICK at \in 0 .. conv.restoreAt :
        /\ conv' = Trimmed(conv, k, at)
        /\ conv'.turns # {} /\ at # conv.restoreAt => ~Unseen
  BY DEF RewindNow
<1>3. Tells(conv', kept, conv.undone \cap kept, at, conv.pr)
  BY <1>1, <1>2, TrimmedTells DEF IsConv
<1>4. Cut(conv, conv', k) /\ conv'.restoreAt = at /\ conv'.pr = conv.pr
  BY <1>3 DEF Cut, Tells
<1>5. conv.restoreAt \in 0 .. clock /\ at \in 0 .. clock
  BY <1>1, <1>2 DEF IsConv
<1>6. IsConv(conv', made', clock')
  BY <1>1, <1>3, <1>5 DEF IsConv, Tells
<1>7. RewindInv'
  BY <1>1 DEF Consistent, RewindInv
<1> HIDE DEF kept
<1>8. CASE at = conv.restoreAt \/ conv'.turns = {}
  <2>1. Moves(conv, conv')
    BY <1>4, <1>8 DEF Moves
  <2>2. QED
    BY <1>1, <1>4, <1>6, <1>7, <2>1, ConversationMoves
<1>9. CASE ~Unseen
  <2>1. sync = Idle /\ sync' = Idle
    BY <1>1, <1>9 DEF Unseen
  <2>2. ASSUME conv.pr # None
        PROVE  Holds(conv', conv.pr, changed') /\ Unmixed(conv', conv.pr, remote')
    <3>1. /\ Dated(conv.pr, made, clock) /\ Holds(conv, conv.pr, changed)
          /\ Unmixed(conv, conv.pr, remote)
      BY <2>1, <2>2 DEF Consistent, ConvInv, IsConv, Idle
    <3>2. conv.restoreAt <= conv.pr.seen
      BY <1>5, <1>9, <2>2, <3>1 DEF Unseen, Dated
    <3>3. /\ Names(conv', conv.pr) => Names(conv, conv.pr)
          /\ Holds(conv', conv.pr, changed)
      BY <1>1, <1>4, <3>1, <3>2, RecordCut
    <3>4. QED
      BY <1>1, <3>1, <3>3 DEF Unmixed
  <2>3. ConvInv'
    BY <1>4, <1>6, <2>2 DEF ConvInv
  <2>4. QED
    BY <1>1, <1>7, <2>1, <2>3 DEF Consistent, Counters, SyncInv
<1>10. QED
  BY <1>2, <1>8, <1>9

(* The switch, the consent, the sign-in and a rewind that begins leave turns *)
(* and restores as they are.                                                 *)
LEMMA SwitchKeeps ==
  ASSUME Consistent, UNCHANGED <<made, clock, changed, sync, remote>>,
         \/ conv' = conv
         \/ (\E e : conv' = [conv EXCEPT !.enabled = e]),
         \/ rewinding' = rewinding
         \/ rewinding'.keep \in Nat /\ IsConv(rewinding'.next, made, clock)
         \/ rewinding' = None
  PROVE  Consistent'
<1>1. IsConv(conv, made, clock) /\ made \in Nat /\ clock \in Nat
  BY DEF Consistent, ConvInv, Counters
<1>2. Tells(conv', conv.turns, conv.undone, conv.restoreAt, conv.pr)
  <2>1. CASE conv' = conv
    BY <1>1, <2>1, ConvEdit DEF IsConv
  <2>2. ASSUME NEW e, conv' = [conv EXCEPT !.enabled = e]
        PROVE  Tells(conv', conv.turns, conv.undone, conv.restoreAt, conv.pr)
    BY <1>1, <2>2, ConvEdit DEF IsConv
  <2>3. QED
    BY <2>1, <2>2
<1>3. IsConv(conv', made', clock')
  BY <1>1, <1>2 DEF IsConv, Tells
<1>4. Moves(conv, conv') /\ conv'.pr = conv.pr
  BY <1>2 DEF Moves, Tells
<1>5. RewindInv'
  BY <1>1 DEF Consistent, RewindInv
<1>6. QED
  BY <1>1, <1>3, <1>4, <1>5, ConversationMoves

(* A rewind that writes what it read: every record of before now asks for a  *)
(* rebuild, and the one it puts back is the one it finds, or names a turn    *)
(* and will ask for the rebuild until it is done.                            *)
LEMMA RewindSavedKeeps ==
  ASSUME Consistent, rewinding # None, rewinding' = None, RewindSaved(rewinding.next), ~parted',
         UNCHANGED <<made, changed, sync, remote>>
  PROVE  Consistent'
<1> DEFINE next == rewinding.next
<1>1. /\ made \in Nat /\ clock \in Nat /\ made' = made /\ clock' = clock + 1
      /\ Counters /\ IsConv(conv, made, clock) /\ IsConv(next, made, clock)
      /\ rewinding' = None /\ changed' = changed /\ UNCHANGED <<sync, remote>>
  BY DEF Consistent, ConvInv, RewindInv, Counters, RewindSaved
<1>2. /\ conv' = [next EXCEPT !.restoreAt = clock']
      /\ next.pr # conv.pr => Current(next).head = NoCommit \/ Current(next).last # 0
  BY DEF RewindSaved
<1> HIDE DEF next
<1>3. Tells(conv', next.turns, next.undone, clock', next.pr)
  BY <1>1, <1>2, ConvEdit DEF IsConv
<1>4. Counters' /\ RewindInv'
  BY <1>1 DEF Counters, RewindInv
<1>5. \A p : Dated(p, made, clock) => Dated(p, made', clock') /\ ~Names(conv', p)
  <2>1. \A p : Dated(p, made, clock) => Dated(p, made', clock')
    BY <1>1, Later
  <2>2. ASSUME NEW p, Dated(p, made, clock) PROVE ~Names(conv', p)
    BY <1>1, <1>3, <2>2 DEF Dated, Names, Tells
  <2>3. QED
    BY <2>1, <2>2
<1>6. \A p : Dated(p, made, clock) => Holds(conv', p, changed')
  BY <1>5 DEF Holds
<1>7. IsConv(conv', made', clock')
  BY <1>1, <1>3, <1>5 DEF IsConv, Tells
<1>8. next.pr # None => /\ Dated(next.pr, made, clock)
                        /\ next.pr = conv.pr \/ next.pr.head = NoCommit \/ next.pr.last # 0
  BY <1>1, <1>2 DEF Current, IsConv
<1>9. ConvInv'
  <2>1. ASSUME next.pr # None, sync.at # "pull" PROVE Unmixed(conv', next.pr, remote)
    <3>1. next.pr = conv.pr => Unmixed(conv, next.pr, remote)
      BY <2>1 DEF Consistent, ConvInv
    <3>2. QED
      BY <1>5, <1>8, <2>1, <3>1 DEF Unmixed
  <2>2. QED
    BY <1>1, <1>3, <1>6, <1>7, <1>8, <2>1 DEF ConvInv, Tells
<1>10. SyncInv'
  <2> SUFFICES ASSUME sync # Idle
               PROVE  /\ Pending(sync) /\ PendingHolds(sync)' /\ PendingWas(sync)'
                      /\ PendingBranch(sync)' /\ Apart(sync)'
    BY <1>1 DEF SyncInv, Pending
  <2>1. /\ Pending(sync) /\ PendingHolds(sync) /\ PendingWas(sync)
        /\ PendingBranch(sync) /\ Apart(sync)
    BY DEF Consistent, SyncInv
  <2>2. PendingHolds(sync)'
    BY <1>1, <1>5, <1>6, <2>1 DEF PendingHolds, Succeeding, Failing
  <2>3. PendingWas(sync)'
    BY <1>1, <1>5, <1>6, <2>1 DEF PendingWas, Unmixed
  <2>4. PendingBranch(sync)'
    BY <1>1, <2>1 DEF PendingBranch, Continues
  <2>5. Apart(sync)'
    BY <1>1, <1>3, <1>5, <1>8, <2>1 DEF Apart, Tells
  <2>6. QED
    BY <2>1, <2>2, <2>3, <2>4, <2>5
<1>11. QED
  BY <1>4, <1>9, <1>10 DEF Consistent

(* Without a restore it must have put back what it found.                    *)
LEMMA RewindUnsavedKeeps ==
  ASSUME Consistent, rewinding # None, rewinding' = None, RewindUnsaved(rewinding.next), ~parted',
         UNCHANGED <<made, changed, sync, remote>>
  PROVE  Consistent'
<1> DEFINE next == rewinding.next
           left == {t \in conv.turns : t <= rewinding.keep}
<1>1. /\ made \in Nat /\ clock \in Nat /\ made' = made /\ clock' = clock
      /\ IsConv(conv, made, clock) /\ IsConv(next, made, clock) /\ rewinding.keep \in Nat
      /\ changed' = changed
  BY DEF Consistent, ConvInv, RewindInv, Counters, RewindUnsaved
<1>2. PICK at \in 0 .. next.restoreAt : conv' = [next EXCEPT !.restoreAt = at]
  BY DEF RewindUnsaved
<1>3. [conv' EXCEPT !.enabled = conv.enabled] = Trimmed(conv, rewinding.keep, conv.restoreAt)
  BY DEF RewindUnsaved
<1> HIDE DEF next
<1>4. Tells(conv', next.turns, next.undone, at, next.pr)
  BY <1>1, <1>2, ConvEdit DEF IsConv
<1>5. Tells(Trimmed(conv, rewinding.keep, conv.restoreAt),
            left, conv.undone \cap left, conv.restoreAt, conv.pr)
  BY <1>1, TrimmedTells DEF IsConv
<1> HIDE DEF left
<1>6. Tells([conv' EXCEPT !.enabled = conv.enabled],
            conv'.turns, conv'.undone, conv'.restoreAt, conv'.pr)
  BY <1>4, ConvEdit DEF Tells
<1>7. /\ conv'.turns = left /\ conv'.undone = conv.undone \cap left
      /\ conv'.restoreAt = conv.restoreAt /\ conv'.pr = conv.pr
  BY <1>3, <1>5, <1>6 DEF Tells
<1>8. IsConv(conv', made', clock')
  BY <1>1, <1>4, <1>7 DEF IsConv, Tells, left
<1>9. Moves(conv, conv')
  BY <1>1, <1>7 DEF Moves, Cut, left
<1>10. RewindInv'
  BY DEF RewindInv
<1>11. QED
  BY <1>1, <1>7, <1>8, <1>9, <1>10, ConversationMoves

LEMMA RewindEndsKeeps == ASSUME Consistent, RewindEnds, ~parted' PROVE Consistent'
<1>1. /\ rewinding # None /\ rewinding' = None /\ UNCHANGED <<made, changed, sync, remote>>
      /\ RewindSaved(rewinding.next) \/ RewindUnsaved(rewinding.next)
  BY DEF RewindEnds, Wakes, githubVars
<1>2. QED
  BY <1>1, RewindSavedKeeps, RewindUnsavedKeeps

-----------------------------------------------------------------------------
(* A sync ends                                                               *)

LEMMA EndsQuietly ==
  ASSUME Consistent, sync' = Idle, conv' = conv, UNCHANGED <<made, clock, changed>>,
         rewinding' \in {rewinding, None}, remote' = [b \in Branches |-> remote'[b]],
         conv.pr # None => Unmixed(conv, conv.pr, remote')
  PROVE  Consistent'
BY DEF Consistent, Counters, ConvInv, RewindInv, SyncInv

LEMMA EndsWithRecord ==
  ASSUME Consistent, sync' = Idle, UNCHANGED <<made, clock, changed, rewinding>>,
         remote' = [b \in Branches |-> remote'[b]],
         NEW next, conv' = [conv EXCEPT !.pr = next], IsPull(next), Dated(next, made, clock),
         Holds(conv, next, changed), Unmixed(conv, next, remote')
  PROVE  Consistent'
<1>1. Tells(conv', conv.turns, conv.undone, conv.restoreAt, next) /\ IsConv(conv, made, clock)
  BY ConvEdit DEF Consistent, ConvInv, IsConv
<1>2. IsConv(conv', made', clock')
  BY <1>1 DEF IsConv, Tells
<1>3. Holds(conv', next, changed') /\ Unmixed(conv', next, remote')
  BY <1>1 DEF Tells, Holds, Unmixed, Names, KeptIn
<1>4. conv'.pr = next
  BY <1>1 DEF Tells
<1>5. QED
  BY <1>2, <1>3, <1>4 DEF Consistent, Counters, ConvInv, RewindInv, SyncInv

OldOf(was) == IF was = None THEN Fresh ELSE was

LEMMA Said ==
  ASSUME NEW was, NEW next, NEW pushed, NEW d, SayAfter(was, next, pushed, d), ~parted'
  PROVE  /\ ~parted /\ sync' = Idle
         /\ \/ conv' = conv /\ pushed = OldOf(was).head
            \/ /\ conv' = [conv EXCEPT !.pr = next] /\ pushed = next.head
               /\ next.head = NoCommit => next.last = 0
               /\ next.head = OldOf(was).head => next.last = OldOf(was).last
<1> DEFINE said == was # None /\ was.state = next.state /\ was.error = next.error
<1>1. /\ IF said THEN Quiet(d) ELSE Record(next)
      /\ parted' = \/ parted
                   \/ pushed # (IF said THEN OldOf(was) ELSE next).head
                   \/ ~said /\ next.head = NoCommit /\ next.last # 0
                   \/ ~said /\ next.head = OldOf(was).head /\ next.last # OldOf(was).last
  BY DEF SayAfter, OldOf
<1> HIDE DEF said
<1>2. CASE said
  BY <1>1, <1>2 DEF Quiet
<1>3. CASE ~said
  BY <1>1, <1>3 DEF Record
<1>4. QED
  BY <1>2, <1>3

LEMMA WithoutCommit ==
  ASSUME Consistent, NEW q, IsPull(q), q.head = NoCommit, q.last = 0, q.seen \in 0 .. clock
  PROVE  /\ Dated(q, made, clock) /\ Holds(conv, q, changed)
         /\ \A c, at : Unmixed(c, q, at)
BY EmptyCommit DEF Consistent, Counters, ConvInv, IsConv, Dated, Holds, Unmixed

(* A sync that ends before it pushes says what it found of the record.       *)
LEMMA EndsEarly ==
  ASSUME Consistent, sync = Idle, UNCHANGED <<made, clock, changed, rewinding, remote>>,
         NEW q, IsPull(q), q.seen \in 0 .. clock, q.head = NoCommit \/ Continues(q, conv.pr),
         NEW d, Say(conv.pr, q, d), ~parted'
  PROVE  Consistent'
<1>1. /\ sync' = Idle
      /\ \/ conv' = conv
         \/ /\ conv' = [conv EXCEPT !.pr = q]
            /\ q.head = NoCommit => q.last = 0
            /\ q.head = OldOf(conv.pr).head => q.last = OldOf(conv.pr).last
  BY Said DEF Say
<1>2. /\ remote' = [b \in Branches |-> remote'[b]]
      /\ conv.pr # None => Unmixed(conv, conv.pr, remote')
  BY DEF Consistent, Counters, ConvInv, Idle
<1>3. CASE conv' = conv
  BY <1>1, <1>2, <1>3, EndsQuietly
<1>4. CASE conv' = [conv EXCEPT !.pr = q] /\ q.head = NoCommit /\ q.last = 0
  BY <1>1, <1>2, <1>4, WithoutCommit, EndsWithRecord
<1>5. CASE /\ conv' = [conv EXCEPT !.pr = q] /\ Continues(q, conv.pr)
           /\ q.last = conv.pr.last
  <2>1. Alike(q, conv.pr)
    BY <1>5 DEF Alike, Continues
  <2>2. /\ conv.pr # None /\ Dated(conv.pr, made, clock) /\ Holds(conv, conv.pr, changed)
        /\ Unmixed(conv, conv.pr, remote')
    BY <1>2, <1>5 DEF Consistent, ConvInv, IsConv, Continues
  <2>3. Dated(q, made, clock) /\ Holds(conv, q, changed) /\ Unmixed(conv, q, remote')
    BY <2>1, <2>2, AlikeHolds
  <2>4. QED
    BY <1>1, <1>2, <1>5, <2>3, EndsWithRecord
<1>6. Continues(q, conv.pr) => OldOf(conv.pr) = conv.pr /\ q.head = conv.pr.head
  BY DEF Continues, OldOf
<1>7. QED
  BY <1>1, <1>3, <1>4, <1>5, <1>6

-----------------------------------------------------------------------------
(* A sync plans and builds                                                   *)

(* What a plan starts from has, of the turns that are not undone, all that   *)
(* changed something and will not be replayed, and no other turn.            *)
PlanHolds(plan) ==
  /\ IsPull(plan.pr) /\ plan.pr.last \in 0 .. made /\ plan.pr.seen \in 0 .. clock
  /\ (plan.pr.head = NoCommit /\ plan.pr.last = 0) \/ Continues(plan.pr, conv.pr)
  /\ Tip(plan) # NoCommit
  /\ plan.replay \subseteq Kept /\ \A t \in plan.replay : t > plan.pr.last
  /\ TurnsIn(Tip(plan)) \subseteq (Kept \cup {0}) \cap (0 .. plan.pr.last)
  /\ (Kept \cap changed) \ plan.replay \subseteq TurnsIn(Tip(plan))
  /\ ~plan.force /\ plan.pr.head # NoCommit => Ours(plan.pr, remote)

LEMMA KeptFacts ==
  ASSUME Consistent
  PROVE  /\ Kept = KeptIn(conv) /\ Kept \subseteq conv.turns /\ conv.turns \subseteq 1 .. made
         /\ 0 \notin conv.turns /\ TurnsAfter(conv, 0) = Kept
         /\ made \in Nat /\ clock \in Nat
<1>1. conv.turns \subseteq 1 .. made /\ made \in Nat /\ clock \in Nat
  BY DEF Consistent, Counters, ConvInv, IsConv
<1>2. 0 \notin conv.turns
  BY <1>1
<1>3. QED
  BY <1>1, <1>2 DEF Kept, KeptIn, TurnsAfter

LEMMA CurrentFacts ==
  ASSUME Consistent, sync = Idle
  PROVE  LET q == Current(conv) IN
         /\ IsPull(q) /\ Dated(q, made, clock) /\ q.seen \in 0 .. clock
         /\ q.head # NoCommit => /\ conv.pr # None /\ conv.pr = q /\ Holds(conv, q, changed)
                             /\ Unmixed(conv, q, remote) /\ Continues(q, conv.pr)
<1>1. CASE conv.pr = None
  <2>1. Current(conv) = Fresh
    BY <1>1 DEF Current
  <2>2. Dated(Fresh, made, clock)
    BY FreshFacts, EmptyCommit DEF Dated, Consistent, Counters
  <2>3. QED
    BY <2>1, <2>2, FreshFacts DEF Dated
<1>2. CASE conv.pr # None
  <2>1. Current(conv) = conv.pr
    BY <1>2 DEF Current
  <2>2. QED
    BY <1>2, <2>1 DEF Consistent, ConvInv, IsConv, Dated, Continues, Idle
<1>3. QED
  BY <1>1, <1>2

LEMMA NewTurnsFacts ==
  ASSUME Consistent, sync = Idle, ~Rebuilds(conv)
  PROVE  LET q == Current(conv) IN
         /\ q.head # NoCommit => Names(conv, q)
         /\ q.last \in conv.turns \cup {0}
         /\ NewTurns(conv) = {t \in Kept : t > q.last}
<1> DEFINE q == Current(conv)
<1>1. Dated(q, made, clock) /\ (q.head # NoCommit => conv.pr # None /\ conv.pr = q)
  BY CurrentFacts
<1>2. conv.pr = None => q.last = 0
  BY FreshFacts DEF Current
<1>3. conv.pr # None => conv.pr = q
  BY DEF Current
<1>4. conv.turns \subseteq 1 .. made /\ conv.restoreAt \in Nat /\ made \in Nat /\ clock \in Nat
  BY DEF Consistent, Counters, ConvInv, IsConv
<1> HIDE DEF q
<1>5. q.head # NoCommit => Names(conv, q)
  BY <1>1, <1>4 DEF Rebuilds, Names, Dated
<1>6. q.last \in conv.turns \cup {0}
  BY <1>1, <1>5 DEF Names, Dated
<1>7. NewTurns(conv) = {t \in Kept : t > q.last}
  <2>1. q.last = 0 => Kept = {t \in Kept : t > q.last}
    BY KeptFacts
  <2>2. CASE conv.pr = None
    BY <1>2, <2>1, <2>2, KeptFacts DEF NewTurns
  <2>3. CASE conv.pr # None
    <3>1. NewTurns(conv) = TurnsAfter(conv, q.last)
      BY <1>3, <2>3 DEF NewTurns
    <3>2. CASE q.last = 0
      BY <2>1, <3>1, <3>2, KeptFacts
    <3>3. CASE q.last \in conv.turns
      BY <3>1, <3>3 DEF TurnsAfter, Kept
    <3>4. QED
      BY <1>6, <3>2, <3>3
  <2>4. QED
    BY <2>2, <2>3
<1>8. QED
  BY <1>5, <1>6, <1>7 DEF q

LEMMA RebuildPlan ==
  ASSUME Consistent, sync = Idle, Rebuilds(conv),
         NEW plan \in Plans(Opened(Current(conv)))
  PROVE  PlanHolds(plan)
<1> DEFINE p == Opened(Current(conv))
<1>1. /\ conv.pr # None /\ Current(conv) = conv.pr /\ conv.pr.head # NoCommit
      /\ NewTurns(conv) = Kept
  BY KeptFacts DEF Rebuilds, NewTurns, Current
<1>2. IsPull(conv.pr) /\ conv.pr.seen \in 0 .. clock
  BY <1>1, CurrentFacts
<1>3. Reads(p, conv.pr.head, conv.pr.branch, conv.pr.last, conv.pr.seen)
  BY <1>1, <1>2, PullReads DEF Opened
<1> HIDE DEF p
<1> DEFINE q == [p EXCEPT !.last = 0]
<1>4. Reads(q, conv.pr.head, conv.pr.branch, 0, conv.pr.seen)
  BY <1>3, PullReads DEF Reads
<1>5. plan = Plan(q, {}, Kept, TRUE)
  BY <1>1 DEF Plans, p
<1> HIDE DEF q
<1>6. plan.pr = q /\ plan.start = {} /\ plan.replay = Kept /\ plan.force = TRUE
  BY <1>5 DEF Plan
<1>7. Tip(plan) = {} /\ TurnsIn(Tip(plan)) = {}
  BY <1>6, EmptyCommit DEF Tip
<1>8. /\ IsPull(plan.pr) /\ plan.pr.last \in 0 .. made /\ plan.pr.seen \in 0 .. clock
      /\ Continues(plan.pr, conv.pr) /\ plan.pr.last = 0
  BY <1>1, <1>2, <1>4, <1>6, KeptFacts DEF Reads, Continues
<1>9. QED
  BY <1>6, <1>7, <1>8, KeptFacts, EmptyCommit DEF PlanHolds

(* A commit that is continued or found, with what the record says of it.     *)
LEMMA ContinuePlan ==
  ASSUME Consistent, sync = Idle, ~Rebuilds(conv), NEW plan,
         plan.replay = NewTurns(conv), IsPull(plan.pr), Alike(plan.pr, Current(conv)),
         plan.force = FALSE,
         \/ plan.start = NoCommit
         \/ /\ Current(conv).head # NoCommit /\ plan.start = remote[Current(conv).branch]
            /\ plan.start # NoCommit /\ Current(conv).head \subseteq plan.start
  PROVE  PlanHolds(plan)
<1> DEFINE q == Current(conv)
<1>1. /\ IsPull(q) /\ Dated(q, made, clock) /\ q.seen \in 0 .. clock
      /\ q.head # NoCommit => /\ conv.pr # None /\ Holds(conv, q, changed)
                          /\ Unmixed(conv, q, remote) /\ Continues(q, conv.pr)
  BY CurrentFacts
<1>2. /\ q.head # NoCommit => Names(conv, q)
      /\ q.last \in conv.turns \cup {0}
      /\ plan.replay = {t \in Kept : t > q.last}
  BY NewTurnsFacts
<1>3. /\ plan.pr.head = q.head /\ plan.pr.branch = q.branch
      /\ plan.pr.last = q.last /\ plan.pr.seen = q.seen
  BY DEF Alike
<1> HIDE DEF q
<1>4. q.head # NoCommit => /\ Ours(q, remote)
                       /\ TurnsIn(q.head) \subseteq (Kept \cup {0}) \cap (0 .. q.last)
                       /\ (Kept \cap changed) \ plan.replay \subseteq TurnsIn(q.head)
  <2> SUFFICES ASSUME q.head # NoCommit
               PROVE  /\ Ours(q, remote)
                      /\ TurnsIn(q.head) \subseteq (Kept \cup {0}) \cap (0 .. q.last)
                      /\ (Kept \cap changed) \ plan.replay \subseteq TurnsIn(q.head)
    OBVIOUS
  <2>1. Ours(q, remote)
    BY <1>1, <1>2 DEF Unmixed
  <2>2. /\ TurnsIn(q.head) \subseteq Kept \cup {0}
        /\ q.last \in conv.turns => {t \in Kept \cap changed : t <= q.last} \subseteq TurnsIn(q.head)
    BY <1>1, <1>2, KeptFacts DEF Holds
  <2>3. TurnsIn(q.head) \subseteq 0 .. q.last
    BY <1>1 DEF Dated
  <2>4. \A t \in Kept \ plan.replay : t <= q.last /\ q.last \in conv.turns
    BY <1>2, KeptFacts
  <2>5. QED
    BY <2>1, <2>2, <2>3, <2>4
<1>5. q.head = NoCommit => /\ q.last = 0 /\ plan.replay = Kept
  BY <1>1, <1>2, KeptFacts DEF Dated
<1>6. /\ Tip(plan) # NoCommit
      /\ TurnsIn(Tip(plan)) \subseteq (Kept \cup {0}) \cap (0 .. q.last)
      /\ (Kept \cap changed) \ plan.replay \subseteq TurnsIn(Tip(plan))
  <2>1. CASE plan.start = NoCommit /\ q.head # NoCommit
    <3>1. Tip(plan) = q.head
      BY <1>3, <2>1 DEF Tip
    <3>2. QED
      BY <1>4, <2>1, <3>1
  <2>2. CASE plan.start = NoCommit /\ q.head = NoCommit
    <3>1. Tip(plan) = {}
      BY <1>3, <2>2 DEF Tip
    <3>2. QED
      BY <1>5, <2>2, <3>1, EmptyCommit
  <2>3. CASE /\ q.head # NoCommit /\ plan.start = remote[q.branch]
             /\ plan.start # NoCommit /\ q.head \subseteq plan.start
    <3>1. Tip(plan) = remote[q.branch] /\ PartsOf(remote[q.branch]) = remote[q.branch]
      BY <2>3 DEF Tip, PartsOf
    <3>2. TurnsIn(remote[q.branch]) \subseteq TurnsIn(q.head) \cup {0}
      BY <1>4, <2>3, <3>1 DEF Ours
    <3>3. TurnsIn(q.head) \subseteq TurnsIn(remote[q.branch])
      BY <2>3 DEF TurnsIn, PartsOf
    <3>4. 0 \in 0 .. q.last
      BY <1>1 DEF Dated
    <3>5. QED
      BY <1>4, <2>3, <3>1, <3>2, <3>3, <3>4
  <2>4. QED
    BY <2>1, <2>2, <2>3 DEF q
<1>7. /\ (plan.pr.head = NoCommit /\ plan.pr.last = 0) \/ Continues(plan.pr, conv.pr)
      /\ plan.pr.head # NoCommit => Ours(plan.pr, remote)
  BY <1>1, <1>3, <1>4, <1>5 DEF Continues, Ours
<1>8. plan.pr.last \in 0 .. made /\ plan.pr.seen \in 0 .. clock
  BY <1>1, <1>3 DEF Dated
<1>9. plan.replay \subseteq Kept /\ \A t \in plan.replay : t > plan.pr.last
  BY <1>2, <1>3
<1>10. QED
  BY <1>3, <1>6, <1>7, <1>8, <1>9 DEF PlanHolds

LEMMA PlansHold ==
  ASSUME Consistent, sync = Idle, NEW plan \in Plans(Opened(Current(conv)))
  PROVE  PlanHolds(plan)
<1> DEFINE p == Opened(Current(conv))
<1>1. CASE Rebuilds(conv)
  BY <1>1, RebuildPlan
<1>2. CASE ~Rebuilds(conv)
  <2>1. /\ IsPull(Current(conv)) /\ Current(conv).seen \in 0 .. clock
    BY CurrentFacts
  <2>2. IsPull(p) /\ Alike(p, Current(conv))
    BY <2>1, PullReads DEF Opened, Reads, Alike
  <2> HIDE DEF p
  <2>3. CASE plan = Plan(p, NoCommit, NewTurns(conv), FALSE)
    <3>1. /\ plan.pr = p /\ plan.start = NoCommit /\ plan.replay = NewTurns(conv)
          /\ plan.force = FALSE
      BY <2>3 DEF Plan
    <3>2. QED
      BY <1>2, <2>2, <3>1, ContinuePlan
  <2>4. ASSUME p.head # NoCommit, remote[p.branch] # NoCommit, p.head \subseteq remote[p.branch],
               plan = Plan(p, remote[p.branch], NewTurns(conv), FALSE)
        PROVE  PlanHolds(plan)
    <3>1. /\ plan.pr = p /\ plan.start = remote[p.branch] /\ plan.replay = NewTurns(conv)
          /\ plan.force = FALSE
      BY <2>4 DEF Plan
    <3>2. p.head = Current(conv).head /\ p.branch = Current(conv).branch
      BY <2>2 DEF Alike
    <3>3. QED
      BY <1>2, <2>2, <2>4, <3>1, <3>2, ContinuePlan
  <2>5. ASSUME NEW b \in Branches,
               plan = Plan([p EXCEPT !.branch = b, !.number = 0, !.head = NoCommit, !.last = 0],
                           {}, TurnsAfter(conv, 0), TRUE)
        PROVE  PlanHolds(plan)
    <3> DEFINE q == [p EXCEPT !.branch = b, !.number = 0, !.head = NoCommit, !.last = 0]
    <3>1. Reads(q, NoCommit, b, 0, p.seen)
      BY <2>2, PullReadsTwo
    <3>2. plan = Plan(q, {}, Kept, TRUE)
      BY <2>5, KeptFacts
    <3> HIDE DEF q
    <3>3. plan.pr = q /\ plan.start = {} /\ plan.replay = Kept /\ plan.force = TRUE
      BY <3>2 DEF Plan
    <3>4. Tip(plan) = {} /\ TurnsIn(Tip(plan)) = {}
      BY <3>3, EmptyCommit DEF Tip
    <3>5. p.seen = Current(conv).seen
      BY <2>2 DEF Alike
    <3>6. /\ IsPull(plan.pr) /\ plan.pr.last = 0 /\ plan.pr.seen \in 0 .. clock
          /\ plan.pr.head = NoCommit
      BY <2>1, <3>1, <3>3, <3>5 DEF Reads
    <3>7. QED
      BY <3>3, <3>4, <3>6, KeptFacts, EmptyCommit DEF PlanHolds
  <2>6. \/ plan = Plan(p, NoCommit, NewTurns(conv), FALSE)
        \/ p.head # NoCommit /\ remote[p.branch] # NoCommit /\ plan \in Reconciled(p)
    BY <1>2 DEF Plans, p
  <2>7. plan \in Reconciled(p) =>
          \/ /\ p.head \subseteq remote[p.branch]
             /\ plan = Plan(p, remote[p.branch], NewTurns(conv), FALSE)
          \/ \E b \in Branches :
               plan = Plan([p EXCEPT !.branch = b, !.number = 0, !.head = NoCommit, !.last = 0],
                           {}, TurnsAfter(conv, 0), TRUE)
    BY DEF Reconciled
  <2>8. QED
    BY <2>3, <2>4, <2>5, <2>6, <2>7
<1>3. QED
  BY <1>1, <1>2

(* The turns before the first that conflicts are replayed: the new commit    *)
(* has every change up to the last of them, and no turn that is undone.      *)
LEMMA ReplayFacts ==
  ASSUME Consistent, NEW plan, PlanHolds(plan),
         NEW conflict \in (plan.replay \cap changed) \cup {0}
  PROVE  LET applied == AppliedBefore(plan, conflict)
             head == Replayed(plan, applied \ {conflict})
             last == LastOf(plan, applied)
         IN /\ head # NoCommit /\ last \in 0 .. made
            /\ TurnsIn(head) \subseteq 0 .. last /\ TurnsIn(head) \subseteq Kept \cup {0}
            /\ {t \in Kept \cap changed : t <= last} \subseteq TurnsIn(head)
<1> DEFINE applied == AppliedBefore(plan, conflict)
           head == Replayed(plan, applied \ {conflict})
           last == LastOf(plan, applied)
           tip == Tip(plan)
<1>1. /\ plan.replay \subseteq Kept /\ Kept \subseteq 1 .. made /\ made \in Nat
      /\ plan.pr.last \in 0 .. made /\ \A t \in plan.replay : t > plan.pr.last
      /\ tip # NoCommit /\ TurnsIn(tip) \subseteq (Kept \cup {0}) \cap (0 .. plan.pr.last)
      /\ (Kept \cap changed) \ plan.replay \subseteq TurnsIn(tip)
  BY KeptFacts DEF PlanHolds
<1>2. /\ applied \subseteq plan.replay /\ applied \ {conflict} = applied
      /\ \A t \in plan.replay : conflict = 0 \/ t < conflict => t \in applied
      /\ \A t \in applied : conflict = 0 \/ t < conflict
  <2>1. \A t \in plan.replay : t \in 1 .. made
    BY <1>1
  <2>2. /\ applied \subseteq plan.replay
        /\ \A t \in plan.replay : conflict = 0 \/ t < conflict => t \in applied
        /\ \A t \in applied : conflict = 0 \/ t < conflict
    BY DEF AppliedBefore
  <2> HIDE DEF applied
  <2>3. conflict \notin applied
    BY <1>1, <2>1, <2>2
  <2>4. QED
    BY <2>2, <2>3
<1> HIDE DEF applied
<1>3. \A t \in applied : t \in 1 .. made /\ t > plan.pr.last
  BY <1>1, <1>2
<1>4. /\ last \in 0 .. made /\ plan.pr.last <= last
      /\ applied # {} => last \in applied
      /\ \A t \in applied : t <= last
      /\ applied = {} => last = plan.pr.last
  <2>1. CASE applied = {}
    BY <1>1, <2>1 DEF LastOf
  <2>2. CASE applied # {}
    <3>1. applied \subseteq 0 .. made
      BY <1>1, <1>3
    <3>2. \E t \in applied : \A u \in applied : u <= t
      BY <1>1, <2>2, <3>1, Greatest
    <3>3. last \in applied /\ \A u \in applied : u <= last
      BY <2>2, <3>2 DEF LastOf
    <3>4. QED
      BY <1>1, <1>3, <2>2, <3>3
  <2>3. QED
    BY <2>1, <2>2
<1> HIDE DEF last
<1>5. head = tip \cup {<<t, Serial>> : t \in (applied \cap changed) \ TurnsIn(tip)}
  BY <1>2 DEF Replayed
<1> HIDE DEF head, tip
<1>6. TurnsIn(tip) = {part[1] : part \in tip}
  BY <1>1 DEF TurnsIn, PartsOf
<1>7. head # NoCommit
  <2> SUFFICES ASSUME <<-1, 0>> \in head PROVE FALSE
    BY DEF NoCommit
  <2>1. CASE <<-1, 0>> \in tip
    <3>1. -1 \in TurnsIn(tip)
      BY <1>6, <2>1
    <3>2. QED
      BY <1>1, <3>1
  <2>2. ASSUME NEW t \in applied, <<-1, 0>> = <<t, Serial>> PROVE FALSE
    BY <1>3, <2>2
  <2>3. QED
    BY <1>5, <2>1, <2>2
<1>8. TurnsIn(head) = TurnsIn(tip) \cup (applied \cap changed)
  <2>1. TurnsIn(head) = {part[1] : part \in head}
    BY <1>7 DEF TurnsIn, PartsOf
  <2> DEFINE new == (applied \cap changed) \ TurnsIn(tip)
  <2> HIDE DEF new
  <2>2. head = tip \cup {<<t, Serial>> : t \in new}
    BY <1>5 DEF new
  <2>3. {part[1] : part \in head} = {part[1] : part \in tip} \cup new
    <3>1. ASSUME NEW t \in new PROVE \E part \in head : part[1] = t
      <4>1. <<t, Serial>> \in head /\ <<t, Serial>>[1] = t
        BY <2>2, <3>1
      <4>2. QED
        BY <4>1
    <3>2. \A part \in head : part \in tip \/ part[1] \in new
      BY <2>2
    <3>3. tip \subseteq head
      BY <2>2
    <3>4. QED
      BY <3>1, <3>2, <3>3
  <2>4. QED
    BY <1>6, <2>1, <2>3 DEF new
<1>9. TurnsIn(head) \subseteq 0 .. last /\ TurnsIn(head) \subseteq Kept \cup {0}
  BY <1>1, <1>4, <1>8, <1>3, <1>2
<1>10. {t \in Kept \cap changed : t <= last} \subseteq TurnsIn(head)
  <2> SUFFICES ASSUME NEW t \in Kept \cap changed, t <= last, t \in plan.replay
               PROVE  t \in applied
    BY <1>1, <1>8
  <2>1. t > plan.pr.last /\ t \in Nat /\ last \in Nat
    BY <1>1, <1>4
  <2>2. applied # {}
    BY <1>1, <1>4, <2>1
  <2>3. conflict = 0 \/ t < conflict
    <3>1. conflict = 0 \/ last < conflict
      BY <1>2, <1>4, <2>2
    <3>2. conflict \in Nat
      <4>1. \A u \in plan.replay : u \in 1 .. made
        BY <1>1
      <4>2. \A u \in plan.replay : u \in Nat
        BY <1>1, <4>1
      <4>3. QED
        BY <4>2
    <3>3. QED
      BY <2>1, <3>1, <3>2
  <2>4. QED
    BY <1>2, <2>3
<1>11. QED
  BY <1>4, <1>7, <1>9, <1>10 DEF head, last, applied

LEMMA BuildKeeps ==
  ASSUME Consistent, sync = Idle, UNCHANGED <<made, clock, changed, rewinding, remote>>,
         NEW plan, PlanHolds(plan), Build(plan), ~parted'
  PROVE  Consistent'
<1>1. PICK conflict \in (plan.replay \cap changed) \cup {0} :
        LET applied == AppliedBefore(plan, conflict)
            head == Replayed(plan, applied \ {conflict})
            last == LastOf(plan, applied)
            next == [plan.pr EXCEPT !.last = last]
        IN \/ \E error : Say(conv.pr, [plan.pr EXCEPT !.error = error], FALSE)
           \/ Quiet(FALSE)
           \/ /\ \E error :
                   sync' = [at |-> IF head # plan.pr.head \/ plan.force THEN "push" ELSE "pull",
                            was |-> conv.pr, pr |-> next, head |-> head,
                            force |-> plan.force, error |-> error, seen |-> conv.restoreAt]
              /\ conv' = conv
  BY DEF Build
<1> DEFINE applied == AppliedBefore(plan, conflict)
           head == Replayed(plan, applied \ {conflict})
           last == LastOf(plan, applied)
           next == [plan.pr EXCEPT !.last = last]
           at == IF head # plan.pr.head \/ plan.force THEN "push" ELSE "pull"
<1>2. /\ IsPull(plan.pr) /\ plan.pr.seen \in 0 .. clock
      /\ plan.pr.head = NoCommit \/ Continues(plan.pr, conv.pr)
      /\ ~plan.force /\ plan.pr.head # NoCommit => Ours(plan.pr, remote)
  BY DEF PlanHolds
<1>3. CASE \E error : Say(conv.pr, [plan.pr EXCEPT !.error = error], FALSE)
  <2>1. PICK error : Say(conv.pr, [plan.pr EXCEPT !.error = error], FALSE)
    BY <1>3
  <2> DEFINE q == [plan.pr EXCEPT !.error = error]
  <2>2. Reads(q, plan.pr.head, plan.pr.branch, plan.pr.last, plan.pr.seen)
    BY <1>2, PullReads
  <2>3. Say(conv.pr, q, FALSE)
    BY <2>1
  <2> HIDE DEF q
  <2>4. QED
    BY <1>2, <2>2, <2>3, EndsEarly DEF Reads, Continues
<1>4. /\ head # NoCommit /\ last \in 0 .. made
      /\ TurnsIn(head) \subseteq 0 .. last /\ TurnsIn(head) \subseteq Kept \cup {0}
      /\ {t \in Kept \cap changed : t <= last} \subseteq TurnsIn(head)
  BY ReplayFacts
<1> HIDE DEF applied, head, last
<1>5. /\ made \in Nat /\ clock \in Nat /\ conv.restoreAt \in 0 .. clock
      /\ conv.pr # None => /\ IsPull(conv.pr) /\ Dated(conv.pr, made, clock)
                           /\ Holds(conv, conv.pr, changed) /\ Unmixed(conv, conv.pr, remote)
  BY DEF Consistent, ConvInv, IsConv, Counters, Idle
<1>6. Reads(next, plan.pr.head, plan.pr.branch, last, plan.pr.seen)
  <2>1. last \in Nat
    BY <1>4, <1>5
  <2>2. QED
    BY <1>2, <2>1, PullReads
<1> HIDE DEF next
<1>7. CASE /\ \E error : sync' = [at |-> at, was |-> conv.pr, pr |-> next, head |-> head,
                                  force |-> plan.force, error |-> error, seen |-> conv.restoreAt]
           /\ conv' = conv
  <2>1. PICK error : sync' = [at |-> at, was |-> conv.pr, pr |-> next, head |-> head,
                              force |-> plan.force, error |-> error, seen |-> conv.restoreAt]
    BY <1>7
  <2> HIDE DEF at
  <2>2. /\ sync' = [at |-> sync'.at, was |-> sync'.was, pr |-> sync'.pr, head |-> sync'.head,
                    force |-> sync'.force, error |-> sync'.error, seen |-> sync'.seen]
        /\ sync'.at = at /\ sync'.was = conv.pr /\ sync'.pr = next /\ sync'.head = head
        /\ sync'.seen = conv.restoreAt
    BY <2>1
  <2>3. Pending(sync')
    BY <1>4, <1>5, <1>6, <2>2 DEF Pending, Reads, at
  <2>4. \A p \in {Succeeding(sync'), Failing(sync')} :
          p.head = head /\ p.last = last /\ p.seen \in 0 .. clock
    <3>1. /\ Reads(Succeeding(sync'), head, plan.pr.branch, last, conv.restoreAt)
          /\ Reads(Failing(sync'), head, plan.pr.branch, last, plan.pr.seen)
      <4>1. IsPull(next) /\ next.branch \in Branches /\ conv.restoreAt \in Nat
        BY <1>5, <1>6 DEF Reads, IsPull
      <4>2. /\ Reads([next EXCEPT !.head = head, !.seen = conv.restoreAt],
                     head, next.branch, next.last, conv.restoreAt)
            /\ Reads([next EXCEPT !.head = head], head, next.branch, next.last, next.seen)
        BY <4>1, PullReads, PullReadsTwo
      <4>3. next.branch = plan.pr.branch /\ next.last = last /\ next.seen = plan.pr.seen
        BY <1>6 DEF Reads
      <4>4. QED
        BY <2>2, <4>2, <4>3 DEF Succeeding, Failing
    <3>2. QED
      BY <1>2, <1>5, <3>1 DEF Reads
  <2>5. PendingHolds(sync)'
    <3>1. ASSUME NEW p, p.head = head, p.last = last, p.seen \in 0 .. clock
          PROVE  Dated(p, made, clock) /\ Holds(conv, p, changed)
      BY <1>4, <3>1, KeptFacts DEF Dated, Holds
    <3>2. QED
      BY <1>7, <2>4, <3>1 DEF PendingHolds
  <2>6. PendingWas(sync)' /\ Apart(sync)'
    BY <1>5, <1>7, <2>2 DEF PendingWas, Apart
  <2>7. PendingBranch(sync)'
    BY <1>2, <1>4, <1>6, <2>2 DEF PendingBranch, Reads, Continues, Ours, at
  <2>8. ConvInv'
    BY <1>5, <1>7 DEF Consistent, ConvInv
  <2>9. QED
    BY <1>7, <2>3, <2>5, <2>6, <2>7, <2>8 DEF Consistent, Counters, RewindInv, SyncInv, Pending
<1>8. CASE Quiet(FALSE)
  <2>1. /\ remote' = [b \in Branches |-> remote'[b]]
        /\ conv.pr # None => Unmixed(conv, conv.pr, remote')
    BY <1>5 DEF Consistent, Counters
  <2>2. QED
    BY <1>8, <2>1, EndsQuietly DEF Quiet
<1>9. QED
  BY <1>1, <1>3, <1>7, <1>8 DEF applied, head, last, next, at

LEMMA SyncNowKeeps == ASSUME Consistent, SyncNow, ~parted' PROVE Consistent'
<1>1. /\ sync = Idle /\ UNCHANGED <<made, clock, changed, rewinding, remote>>
      /\ remote' = [b \in Branches |-> remote'[b]]
      /\ conv.pr # None => Unmixed(conv, conv.pr, remote')
  <2>1. sync = Idle /\ UNCHANGED <<made, clock, changed, rewinding, remote>>
    BY DEF SyncNow, EndsAtOnce, GoesOn, Begins, userVars, githubVars
  <2>2. QED
    BY <2>1 DEF Consistent, Counters, ConvInv, Idle
<1>2. CASE EndsAtOnce
  BY <1>1, <1>2, EndsQuietly DEF EndsAtOnce, Quiet
<1> DEFINE c == Current(conv)
<1>3. /\ IsPull(c) /\ c.seen \in 0 .. clock
      /\ c.head = NoCommit \/ Continues(c, conv.pr)
  BY <1>1, CurrentFacts
<1>4. ASSUME NEW x, NEW y, Say(conv.pr, [c EXCEPT !.state = x, !.error = y], FALSE)
      PROVE  Consistent'
  <2> HIDE DEF c
  <2> DEFINE q == [c EXCEPT !.state = x, !.error = y]
  <2>1. Reads(q, c.head, c.branch, c.last, c.seen)
    BY <1>3, BranchRange, PullReadsTwo
  <2>2. Say(conv.pr, q, FALSE)
    BY <1>4
  <2> HIDE DEF q
  <2>3. QED
    BY <1>1, <1>3, <2>1, <2>2, EndsEarly DEF Reads, Continues
<1>5. ASSUME NEW plan \in Plans(Opened(c)), Build(plan) PROVE Consistent'
  <2>1. PlanHolds(plan)
    BY <1>1, PlansHold
  <2>2. QED
    BY <1>1, <1>5, <2>1, BuildKeeps
<1>6. ASSUME NEW q \in {Opened(c)} \cup {plan.pr : plan \in Plans(Opened(c))}, NEW error,
             Say(conv.pr, [q EXCEPT !.error = error], FALSE)
      PROVE  Consistent'
  <2>1. IsPull(q) /\ q.seen \in 0 .. clock /\ (q.head = NoCommit \/ Continues(q, conv.pr))
    <3>1. CASE q = Opened(c)
      <4>1. Reads(q, c.head, c.branch, c.last, c.seen)
        BY <1>3, <3>1, PullReads DEF Opened
      <4>2. QED
        BY <1>3, <4>1 DEF Reads, Continues
    <3>2. ASSUME NEW plan \in Plans(Opened(c)), q = plan.pr
          PROVE  IsPull(q) /\ q.seen \in 0 .. clock /\ (q.head = NoCommit \/ Continues(q, conv.pr))
      <4>1. PlanHolds(plan)
        BY <1>1, PlansHold
      <4>2. QED
        BY <3>2, <4>1 DEF PlanHolds
    <3>3. QED
      BY <1>6, <3>1, <3>2
  <2> DEFINE w == [q EXCEPT !.error = error]
  <2>2. Reads(w, q.head, q.branch, q.last, q.seen)
    BY <2>1, PullReads
  <2>3. Say(conv.pr, w, FALSE)
    BY <1>6
  <2> HIDE DEF w
  <2>4. QED
    BY <1>1, <2>1, <2>2, <2>3, EndsEarly DEF Reads, Continues
<1>7. CASE GoesOn
  <2>1. CASE \E x, y : Say(conv.pr, [c EXCEPT !.state = x, !.error = y], FALSE)
    BY <1>4, <2>1
  <2>2. CASE \E plan \in Plans(Opened(c)) : Build(plan)
    BY <1>5, <2>2
  <2>3. CASE \E q \in {Opened(c)} \cup {plan.pr : plan \in Plans(Opened(c))} :
               \E error : Say(conv.pr, [q EXCEPT !.error = error], FALSE)
    BY <1>6, <2>3
  <2>4. QED
    BY <1>7, <2>1, <2>2, <2>3 DEF GoesOn
<1>8. QED
  BY <1>2, <1>7 DEF SyncNow

-----------------------------------------------------------------------------
(* The push, and what follows it                                             *)

LEMMA PendingFacts ==
  ASSUME Consistent, sync.at \in {"push", "pull"}
  PROVE  /\ Pending(sync) /\ PendingHolds(sync) /\ PendingWas(sync)
         /\ PendingBranch(sync) /\ Apart(sync)
         /\ Reads(Failing(sync), sync.head, sync.pr.branch, sync.pr.last, sync.pr.seen)
         /\ Reads(Succeeding(sync), sync.head, sync.pr.branch, sync.pr.last, sync.seen)
         /\ sync.pr.seen \in 0 .. clock
<1>1. sync # Idle
  BY DEF Idle
<1>2. /\ Pending(sync) /\ PendingHolds(sync) /\ PendingWas(sync)
      /\ PendingBranch(sync) /\ Apart(sync)
  BY <1>1 DEF Consistent, SyncInv
<1>3. IsPull(sync.pr) /\ sync.pr.branch \in Branches /\ sync.seen \in Nat
  BY <1>2 DEF Pending, IsPull
<1>4. /\ Reads(Failing(sync), sync.head, sync.pr.branch, sync.pr.last, sync.pr.seen)
      /\ Reads(Succeeding(sync), sync.head, sync.pr.branch, sync.pr.last, sync.seen)
  BY <1>3, PullReads, PullReadsTwo DEF Failing, Succeeding
<1>5. sync.pr.seen \in 0 .. clock
  BY <1>2, <1>4 DEF PendingHolds, Dated, Reads
<1>6. QED
  BY <1>2, <1>4, <1>5

(* A branch moves to a commit: others stay, and a record of it is its own.   *)
LEMMA BranchMoves ==
  ASSUME Counters, NEW b \in Branches, NEW h, remote' = [remote EXCEPT ![b] = h]
  PROVE  /\ remote' = [x \in Branches |-> remote'[x]]
         /\ \A p : IsPull(p) /\ p.branch # b /\ Ours(p, remote) => Ours(p, remote')
         /\ \A p : p.branch = b /\ p.head = h => Ours(p, remote')
<1>1. /\ remote' = [x \in Branches |-> remote'[x]] /\ remote'[b] = h
      /\ \A x \in Branches : x # b => remote'[x] = remote[x]
  BY DEF Counters
<1>2. QED
  BY <1>1 DEF IsPull, Ours

(* What ends without a record after all leaves one that is as good as before.*)
LEMMA SaidBefore ==
  ASSUME Consistent, sync.at \in {"push", "pull"}, UNCHANGED <<made, clock, changed, rewinding>>,
         remote' = [b \in Branches |-> remote'[b]],
         sync' = Idle, conv' = conv, sync.was # None => Unmixed(conv, sync.was, remote')
  PROVE  Consistent'
<1>1. conv.pr # None => Unmixed(conv, conv.pr, remote')
  BY PendingFacts DEF Apart, Unmixed
<1>2. QED
  BY <1>1, EndsQuietly

LEMMA FailsKeeps ==
  ASSUME Consistent, sync.at = "push", UNCHANGED <<made, clock, changed, rewinding, remote>>,
         NEW kind, Fails(kind), ~parted'
  PROVE  Consistent'
<1> DEFINE q == Failed(kind)
<1>1. /\ Pending(sync) /\ PendingWas(sync) /\ PendingBranch(sync)
      /\ sync.pr.seen \in 0 .. clock
  BY PendingFacts
<1>2. Reads(q, sync.pr.head, sync.pr.branch, sync.pr.last, sync.pr.seen)
  BY <1>1, PullReads DEF Pending, Failed
<1>3. Say(sync.was, q, due)
  BY DEF Fails
<1> HIDE DEF q
<1>4. /\ sync' = Idle
      /\ \/ conv' = conv
         \/ /\ conv' = [conv EXCEPT !.pr = q]
            /\ q.head = NoCommit => q.last = 0
            /\ q.head = OldOf(sync.was).head => q.last = OldOf(sync.was).last
  BY <1>3, Said DEF Say
<1>5. remote' = [b \in Branches |-> remote'[b]]
  BY DEF Consistent, Counters
<1>6. sync.was # None => /\ Dated(sync.was, made, clock) /\ Holds(conv, sync.was, changed)
                         /\ Unmixed(conv, sync.was, remote')
  BY <1>1 DEF PendingWas
<1>7. CASE conv' = conv
  BY <1>4, <1>5, <1>6, <1>7, SaidBefore
<1>8. CASE conv' = [conv EXCEPT !.pr = q] /\ q.head = NoCommit /\ q.last = 0
  <2>1. IsPull(q) /\ q.seen \in 0 .. clock
    BY <1>1, <1>2 DEF Reads
  <2>2. QED
    BY <1>4, <1>5, <1>8, <2>1, WithoutCommit, EndsWithRecord
<1>9. CASE /\ conv' = [conv EXCEPT !.pr = q] /\ Continues(sync.pr, sync.was)
           /\ q.head = OldOf(sync.was).head => q.last = OldOf(sync.was).last
  <2>1. sync.was # None /\ Alike(q, sync.was)
    BY <1>2, <1>9 DEF Continues, OldOf, Reads, Alike
  <2>2. /\ IsPull(q) /\ Dated(q, made, clock) /\ Holds(conv, q, changed)
        /\ Unmixed(conv, q, remote')
    BY <1>2, <1>6, <2>1, AlikeHolds DEF Reads
  <2>3. QED
    BY <1>4, <1>5, <1>9, <2>2, EndsWithRecord
<1>10. sync.pr.head = NoCommit \/ Continues(sync.pr, sync.was)
  BY <1>1 DEF PendingBranch
<1>11. q.head = sync.pr.head
  BY <1>2 DEF Reads
<1>12. QED
  BY <1>4, <1>7, <1>8, <1>9, <1>10, <1>11

LEMMA PushedSync ==
  ASSUME Pending(sync)
  PROVE  [sync EXCEPT !.at = "pull", !.pr.head = sync.head]
           = [at |-> "pull", was |-> sync.was, pr |-> Failing(sync), head |-> sync.head,
              force |-> sync.force, error |-> sync.error, seen |-> sync.seen]
<1> DEFINE f == [sync.pr EXCEPT !.head = sync.head]
<1>1. [sync EXCEPT !.at = "pull", !.pr.head = sync.head] = [sync EXCEPT !.at = "pull", !.pr = f]
  OBVIOUS
<1> HIDE DEF f
<1>2. [sync EXCEPT !.at = "pull", !.pr = f]
        = [at |-> "pull", was |-> sync.was, pr |-> f, head |-> sync.head,
           force |-> sync.force, error |-> sync.error, seen |-> sync.seen]
  <2>1. sync = [at |-> sync.at, was |-> sync.was, pr |-> sync.pr, head |-> sync.head,
                force |-> sync.force, error |-> sync.error, seen |-> sync.seen]
    BY DEF Pending
  <2> DEFINE g == [sync EXCEPT !.at = "pull"]
  <2>2. g = [at |-> "pull", was |-> sync.was, pr |-> sync.pr, head |-> sync.head,
             force |-> sync.force, error |-> sync.error, seen |-> sync.seen]
    BY <2>1
  <2>3. [sync EXCEPT !.at = "pull", !.pr = f] = [g EXCEPT !.pr = f]
    OBVIOUS
  <2> HIDE DEF g
  <2>4. [g EXCEPT !.pr = f]
          = [at |-> "pull", was |-> sync.was, pr |-> f, head |-> sync.head,
             force |-> sync.force, error |-> sync.error, seen |-> sync.seen]
    BY <2>2
  <2>5. QED
    BY <2>3, <2>4
<1>3. QED
  BY <1>1, <1>2 DEF f, Failing

LEMMA PushLands ==
  ASSUME Consistent, sync.at = "push", Lands,
         UNCHANGED <<conv, made, clock, changed, rewinding>>,
         sync' = [at |-> "pull", was |-> sync.was, pr |-> Failing(sync), head |-> sync.head,
                  force |-> sync.force, error |-> sync.error, seen |-> sync.seen]
  PROVE  Consistent'
<1> DEFINE b == sync.pr.branch
<1>1. /\ Pending(sync) /\ PendingHolds(sync) /\ PendingWas(sync) /\ Apart(sync)
      /\ Reads(Failing(sync), sync.head, b, sync.pr.last, sync.pr.seen)
      /\ Reads(Succeeding(sync), sync.head, b, sync.pr.last, sync.seen)
  BY PendingFacts
<1> DEFINE f == Failing(sync)
<1>2. /\ IsPull(f) /\ f.head = sync.head /\ f.branch = b
      /\ f.last = sync.pr.last /\ f.seen = sync.pr.seen
  BY <1>1 DEF Reads
<1>3. sync.head # NoCommit /\ sync.seen \in Nat /\ b \in Branches
  BY <1>1 DEF Pending, IsPull
<1> HIDE DEF f
<1>4. /\ sync'.at = "pull" /\ sync'.was = sync.was /\ sync'.pr = f /\ sync'.head = sync.head
      /\ sync'.seen = sync.seen
      /\ sync' = [at |-> sync'.at, was |-> sync'.was, pr |-> sync'.pr, head |-> sync'.head,
                  force |-> sync'.force, error |-> sync'.error, seen |-> sync'.seen]
  BY DEF f
<1>5. /\ remote' = [x \in Branches |-> remote'[x]]
      /\ \A p : IsPull(p) /\ p.branch # b /\ Ours(p, remote) => Ours(p, remote')
      /\ \A p : p.branch = b /\ p.head = sync.head => Ours(p, remote')
  BY <1>3, BranchMoves DEF Lands, Consistent
<1>6. Pending(sync')
  BY <1>2, <1>3, <1>4 DEF Pending
<1>7. PendingHolds(sync)'
  <2>1. Alike(Failing(sync'), Failing(sync)) /\ Alike(Succeeding(sync'), Succeeding(sync))
    <3>1. /\ Reads(Failing(sync'), sync.head, f.branch, f.last, f.seen)
          /\ Reads(Succeeding(sync'), sync.head, f.branch, f.last, sync.seen)
      <4>1. /\ Reads([f EXCEPT !.head = sync.head], sync.head, f.branch, f.last, f.seen)
            /\ Reads([f EXCEPT !.head = sync.head, !.seen = sync.seen],
                     sync.head, f.branch, f.last, sync.seen)
        BY <1>2, <1>3, PullReads, PullReadsTwo
      <4>2. QED
        BY <1>4, <4>1 DEF Failing, Succeeding
    <3>2. QED
      BY <1>1, <1>2, <3>1 DEF Reads, Alike
  <2>2. QED
    BY <1>1, <2>1, AlikeHolds DEF PendingHolds
<1>8. PendingWas(sync)'
  <2>1. sync.was # None => /\ IsPull(sync.was) /\ Dated(sync.was, made, clock)
                           /\ Holds(conv, sync.was, changed)
                           /\ Unmixed(conv, sync.was, remote)
    BY <1>1 DEF PendingWas
  <2>2. sync.was # None /\ b # sync.was.branch => Unmixed(conv, sync.was, remote')
    BY <1>5, <2>1 DEF Unmixed
  <2>3. QED
    BY <1>2, <1>4, <2>1, <2>2 DEF PendingWas
<1>9. PendingBranch(sync)' /\ Apart(sync)'
  BY <1>1, <1>2, <1>4, <1>5 DEF PendingBranch, Apart
<1>10. QED
  BY <1>4, <1>5, <1>6, <1>7, <1>8, <1>9
  DEF Consistent, Counters, ConvInv, RewindInv, SyncInv, Pending

(* The push landed and its answer was lost: the two do not part only if the  *)
(* commit was the recorded one.                                              *)
LEMMA PushLost ==
  ASSUME Consistent, sync.at = "push", Lands, UNCHANGED <<made, clock, changed, rewinding>>,
         SayAfter(sync.was, Failed("push"), sync.head, due), ~parted'
  PROVE  Consistent'
<1> DEFINE q == Failed("push")
           b == sync.pr.branch
<1>1. /\ Pending(sync) /\ PendingWas(sync) /\ PendingBranch(sync)
      /\ sync.pr.seen \in 0 .. clock
  BY PendingFacts
<1>2. Reads(q, sync.pr.head, b, sync.pr.last, sync.pr.seen)
  BY <1>1, PullReads DEF Pending, Failed
<1> HIDE DEF q
<1>3. /\ sync' = Idle
      /\ \/ conv' = conv /\ sync.head = OldOf(sync.was).head
         \/ /\ conv' = [conv EXCEPT !.pr = q] /\ sync.head = q.head
            /\ q.head = NoCommit => q.last = 0
            /\ q.head = OldOf(sync.was).head => q.last = OldOf(sync.was).last
  BY Said DEF q
<1>4. b \in Branches /\ sync.head # NoCommit
  BY <1>1 DEF Pending, IsPull
<1>5. /\ remote' = [x \in Branches |-> remote'[x]]
      /\ \A p : IsPull(p) /\ p.branch # b /\ Ours(p, remote) => Ours(p, remote')
      /\ \A p : p.branch = b /\ p.head = sync.head => Ours(p, remote')
  BY <1>4, BranchMoves DEF Lands, Consistent
<1>6. sync.was # None =>
        /\ IsPull(sync.was) /\ Dated(sync.was, made, clock) /\ Holds(conv, sync.was, changed)
        /\ sync.was.head = sync.head => Unmixed(conv, sync.was, remote')
  BY <1>1, <1>5 DEF PendingWas, Unmixed
<1>7. CASE conv' = conv /\ sync.head = OldOf(sync.was).head
  <2>1. sync.was # None => sync.was.head = sync.head
    BY <1>7 DEF OldOf
  <2>2. QED
    BY <1>3, <1>5, <1>6, <1>7, <2>1, SaidBefore
<1>8. CASE /\ conv' = [conv EXCEPT !.pr = q] /\ sync.head = q.head
           /\ q.head = OldOf(sync.was).head => q.last = OldOf(sync.was).last
  <2>1. Continues(sync.pr, sync.was) /\ q.head = sync.pr.head
    BY <1>1, <1>2, <1>4, <1>8 DEF PendingBranch, Reads
  <2>2. sync.was # None /\ Alike(q, sync.was) /\ sync.was.head = sync.head
    BY <1>2, <1>8, <2>1 DEF Continues, OldOf, Reads, Alike
  <2>3. /\ IsPull(q) /\ Dated(q, made, clock) /\ Holds(conv, q, changed)
        /\ Unmixed(conv, q, remote')
    BY <1>2, <1>6, <2>2, AlikeHolds DEF Reads
  <2>4. QED
    BY <1>3, <1>5, <1>8, <2>3, EndsWithRecord
<1>9. QED
  BY <1>3, <1>7, <1>8

LEMMA PushKeeps == ASSUME Consistent, Push, ~parted' PROVE Consistent'
<1>1. sync.at = "push" /\ UNCHANGED <<made, clock, changed, rewinding>>
  BY DEF Push, userVars
<1>2. CASE Lands /\ sync' = [sync EXCEPT !.at = "pull", !.pr.head = sync.head] /\ UNCHANGED conv
  <2>1. Pending(sync)
    BY <1>1, PendingFacts
  <2>2. sync' = [at |-> "pull", was |-> sync.was, pr |-> Failing(sync), head |-> sync.head,
                 force |-> sync.force, error |-> sync.error, seen |-> sync.seen]
    BY <1>2, <2>1, PushedSync
  <2>3. QED
    BY <1>1, <1>2, <2>2, PushLands
<1>3. CASE (Fails("rejected") \/ Fails("push")) /\ UNCHANGED remote
  BY <1>1, <1>3, FailsKeeps
<1>4. CASE Lands /\ SayAfter(sync.was, Failed("push"), sync.head, due)
  BY <1>1, <1>4, PushLost
<1>5. QED
  BY <1>2, <1>3, <1>4 DEF Push

(* After the push the record to be made and the branch agree.                *)
LEMMA SaysAfterPush ==
  ASSUME Consistent, sync.at = "pull", UNCHANGED <<made, clock, changed, rewinding, remote>>,
         NEW q, IsPull(q), Alike(q, sync.pr), NEW d, Say(sync.was, q, d), ~parted'
  PROVE  Consistent'
<1>1. /\ PendingHolds(sync) /\ PendingWas(sync)
      /\ sync.pr.head = sync.head /\ Ours(sync.pr, remote) /\ sync.head # NoCommit
      /\ Reads(Failing(sync), sync.head, sync.pr.branch, sync.pr.last, sync.pr.seen)
  BY PendingFacts DEF PendingBranch, Pending
<1>2. Alike(q, Failing(sync)) /\ q.branch = sync.pr.branch /\ q.head = sync.head
  BY <1>1 DEF Alike, Reads
<1>3. /\ sync' = Idle
      /\ \/ conv' = conv /\ q.head = OldOf(sync.was).head
         \/ conv' = [conv EXCEPT !.pr = q]
  BY Said DEF Say
<1>4. remote' = [b \in Branches |-> remote'[b]]
  BY DEF Consistent, Counters
<1>5. CASE conv' = conv /\ q.head = OldOf(sync.was).head
  <2>1. sync.was # None /\ sync.was.head = sync.head
    BY <1>1, <1>2, <1>5, FreshFacts DEF OldOf
  <2>2. sync.was.branch = sync.pr.branch => Ours(sync.was, remote)
    BY <1>1, <2>1 DEF Ours
  <2>3. Unmixed(conv, sync.was, remote')
    BY <1>1, <2>1, <2>2 DEF PendingWas, Unmixed
  <2>4. QED
    BY <1>3, <1>4, <1>5, <2>3, SaidBefore
<1>6. CASE conv' = [conv EXCEPT !.pr = q]
  <2>1. Dated(q, made, clock) /\ Holds(conv, q, changed)
    BY <1>1, <1>2, AlikeHolds DEF PendingHolds
  <2>2. Unmixed(conv, q, remote')
    BY <1>1, <1>2 DEF Unmixed, Ours
  <2>3. QED
    BY <1>3, <1>4, <1>6, <2>1, <2>2, EndsWithRecord
<1>7. QED
  BY <1>3, <1>5, <1>6

LEMMA PublishKeeps == ASSUME Consistent, Publish, ~parted' PROVE Consistent'
<1>1. sync.at = "pull" /\ UNCHANGED <<made, clock, changed, rewinding, remote>>
  BY DEF Publish, userVars
<1>2. /\ Pending(sync) /\ IsPull(sync.pr) /\ PendingHolds(sync) /\ sync.seen \in Nat
      /\ sync.pr.head = sync.head /\ Ours(sync.pr, remote) /\ sync.pr.branch \in Branches
      /\ Reads(Succeeding(sync), sync.head, sync.pr.branch, sync.pr.last, sync.seen)
  BY <1>1, PendingFacts DEF PendingBranch, Pending, IsPull
<1>3. CASE Record(Done)
  <2> DEFINE n == IF Creates THEN sync.pr.branch ELSE sync.pr.number
             done == [sync.pr EXCEPT !.number = n, !.error = sync.error, !.seen = sync.seen]
  <2>1. Record(done)
    BY <1>3 DEF Done
  <2>2. Reads(done, sync.pr.head, sync.pr.branch, sync.pr.last, sync.seen)
    <3> HIDE DEF n
    <3>1. QED
      BY <1>2, PullReadsTwo
  <2> HIDE DEF done
  <2>3. Alike(done, Succeeding(sync)) /\ IsPull(done)
    BY <1>2, <2>2 DEF Reads, Alike
  <2>4. Dated(done, made, clock) /\ Holds(conv, done, changed)
    BY <1>2, <2>3, AlikeHolds DEF PendingHolds
  <2>5. Unmixed(conv, done, remote')
    BY <1>1, <1>2, <2>2 DEF Reads, Unmixed, Ours
  <2>6. remote' = [b \in Branches |-> remote'[b]]
    BY <1>1 DEF Consistent, Counters
  <2>7. QED
    BY <1>1, <2>1, <2>3, <2>4, <2>5, <2>6, EndsWithRecord DEF Record
<1>4. ASSUME NEW kind, Fails(kind) PROVE Consistent'
  <2> DEFINE q == Failed(kind)
  <2>1. Reads(q, sync.pr.head, sync.pr.branch, sync.pr.last, sync.pr.seen)
    BY <1>2, PullReads DEF Failed
  <2>2. Say(sync.was, q, due)
    BY <1>4 DEF Fails
  <2> HIDE DEF q
  <2>3. QED
    BY <1>1, <2>1, <2>2, SaysAfterPush DEF Reads, Alike
<1>5. CASE Say(sync.was, [sync.pr EXCEPT !.state = "sign-in", !.error = SignInError], due)
  <2> DEFINE q == [sync.pr EXCEPT !.state = "sign-in", !.error = SignInError]
  <2>1. Reads(q, sync.pr.head, sync.pr.branch, sync.pr.last, sync.pr.seen)
    BY <1>2, PullReadsTwo
  <2>2. Say(sync.was, q, due)
    BY <1>5
  <2> HIDE DEF q
  <2>3. QED
    BY <1>1, <2>1, <2>2, SaysAfterPush DEF Reads, Alike
<1>6. QED
  BY <1>3, <1>4, <1>5 DEF Publish

-----------------------------------------------------------------------------
(* Restarts, and other people                                                *)

(* A restart before the push loses nothing that the record says.             *)
LEMMA RestartKeeps == ASSUME Consistent, Restart, ~parted' PROVE Consistent'
<1>1. /\ sync' = Idle /\ sync.at # "pull" /\ rewinding' = None
      /\ UNCHANGED <<conv, made, clock, changed, remote>>
  BY DEF Restart, userVars
<1>2. /\ conv.pr # None => Unmixed(conv, conv.pr, remote')
      /\ remote' = [b \in Branches |-> remote'[b]]
  BY <1>1 DEF Consistent, ConvInv, Counters
<1>3. QED
  BY <1>1, <1>2, EndsQuietly

LEMMA OthersPushKeeps == ASSUME Consistent, OthersPush PROVE Consistent'
<1>1. UNCHANGED <<conv, made, clock, changed, sync, rewinding>>
  BY DEF OthersPush, userVars
<1>2. PICK b \in Branches :
        \E c \in {remote[b] \cup {<<0, Serial>>}, {<<0, Serial>>}, NoCommit} :
          remote[b] # NoCommit /\ remote' = [remote EXCEPT ![b] = c]
  BY DEF OthersPush
<1>3. PICK c \in {remote[b] \cup {<<0, Serial>>}, {<<0, Serial>>}, NoCommit} :
        remote[b] # NoCommit /\ remote' = [remote EXCEPT ![b] = c]
  BY <1>2
<1>4. TurnsIn(c) \subseteq TurnsIn(remote[b]) \cup {0}
  <2> DEFINE n == Serial
  <2> HIDE DEF n
  <2>1. CASE c = NoCommit
    BY <2>1, EmptyCommit
  <2>2. CASE c # NoCommit
    <3>1. /\ TurnsIn(c) = {part[1] : part \in c}
          /\ TurnsIn(remote[b]) = {part[1] : part \in remote[b]}
      BY <1>3, <2>2 DEF TurnsIn, PartsOf
    <3>2. \A part \in c : part \in remote[b] \/ part = <<0, n>>
      BY <1>3, <2>2 DEF n
    <3>3. QED
      BY <3>1, <3>2
  <2>3. QED
    BY <2>1, <2>2
<1>5. /\ remote' = [x \in Branches |-> remote'[x]] /\ remote'[b] = c
      /\ \A x \in Branches : x # b => remote'[x] = remote[x]
  BY <1>3 DEF Consistent, Counters
<1>6. \A p : IsPull(p) /\ Ours(p, remote) => Ours(p, remote')
  BY <1>4, <1>5 DEF IsPull, Ours
<1>7. ConvInv'
  <2>1. conv.pr # None => IsPull(conv.pr)
    BY DEF Consistent, ConvInv, IsConv
  <2>2. QED
    BY <1>1, <1>6, <2>1 DEF Consistent, ConvInv, Unmixed
<1>8. SyncInv'
  <2> SUFFICES ASSUME sync # Idle
               PROVE  /\ Pending(sync) /\ PendingHolds(sync)' /\ PendingWas(sync)'
                      /\ PendingBranch(sync)' /\ Apart(sync)'
    BY <1>1 DEF SyncInv, Pending
  <2>1. /\ Pending(sync) /\ PendingHolds(sync) /\ PendingWas(sync)
        /\ PendingBranch(sync) /\ Apart(sync) /\ IsPull(sync.pr)
    BY DEF Consistent, SyncInv, Pending
  <2>2. PendingHolds(sync)'
    BY <1>1, <2>1 DEF PendingHolds, Succeeding, Failing
  <2>3. PendingWas(sync)'
    BY <1>1, <1>6, <2>1 DEF PendingWas, Unmixed
  <2>4. PendingBranch(sync)' /\ Apart(sync)'
    BY <1>1, <1>6, <2>1 DEF PendingBranch, Apart, Continues
  <2>5. QED
    BY <2>1, <2>2, <2>3, <2>4
<1>9. QED
  BY <1>1, <1>5, <1>7, <1>8 DEF Consistent, Counters, RewindInv

-----------------------------------------------------------------------------
(* The invariant                                                             *)

(* What has parted stays so.                                                 *)
LEMMA Together == ASSUME Next, ~parted' PROVE ~parted
<1>1. \A was, next, pushed, d : SayAfter(was, next, pushed, d) => ~parted
  BY DEF SayAfter
<1>2. ASSUME SyncNow PROVE ~parted
  BY <1>1, <1>2 DEF SyncNow, EndsAtOnce, GoesOn, Build, Say
<1>3. ASSUME Push PROVE ~parted
  BY <1>1, <1>3 DEF Push, Fails, Say
<1>4. ASSUME Publish PROVE ~parted
  BY <1>1, <1>4 DEF Publish, Fails, Say
<1>5. ASSUME \/ RewindEnds \/ OthersPush \/ Restart \/ SignIn
             \/ \E k : RewindBegins(k)
      PROVE  ~parted
  BY <1>5 DEF RewindEnds, RewindSaved, RewindUnsaved, OthersPush, Restart, SignIn, RewindBegins
<1>6. ASSUME Asked PROVE ~parted
  BY <1>6 DEF Asked
<1>7. ASSUME NEW k, RewindNow(k) PROVE ~parted
  BY <1>7 DEF RewindNow
<1>8. QED
  BY <1>2, <1>3, <1>4, <1>5, <1>6, <1>7
  DEF Next, Sync, Turn, Restore, Allow, NotNow, SwitchOn

LEMMA PullInit == ASSUME Init PROVE Consistent
<1>1. /\ conv = [turns |-> {}, undone |-> {}, restoreAt |-> 0, enabled |-> TRUE, pr |-> None]
      /\ made = 0 /\ clock = 0 /\ sync = Idle /\ rewinding = None
      /\ remote = [b \in Branches |-> NoCommit]
  BY DEF Init
<1>2. IsConv(conv, made, clock)
  BY <1>1 DEF IsConv, ConvRecord
<1>3. Counters
  BY <1>1 DEF Counters
<1>4. QED
  BY <1>1, <1>2, <1>3 DEF Consistent, ConvInv, RewindInv, SyncInv

LEMMA PullStep == ASSUME Consistent, Next, ~parted' PROVE Consistent'
<1>1. CASE SyncNow
  BY <1>1, SyncNowKeeps
<1>2. CASE Push
  BY <1>2, PushKeeps
<1>3. CASE Publish
  BY <1>3, PublishKeeps
<1>4. CASE Turn
  BY <1>4, TurnKeeps
<1>5. ASSUME NEW k \in conv.turns \cup {0}, RewindNow(k) PROVE Consistent'
  <2>1. conv.turns \subseteq 1 .. made /\ made \in Nat
    BY DEF Consistent, ConvInv, Counters, IsConv
  <2>2. k \in Nat
    BY <2>1
  <2>3. QED
    BY <1>5, <2>2, RewindNowKeeps
<1>6. CASE RewindEnds
  BY <1>6, RewindEndsKeeps
<1>7. ASSUME NEW k, Restore(k) PROVE Consistent'
  BY <1>7, RestoreKeeps
<1>8. ASSUME NEW k \in conv.turns \cup {0}, RewindBegins(k) PROVE Consistent'
  <2>1. /\ rewinding' = [keep |-> k, next |-> Trimmed(conv, k, conv.restoreAt)]
        /\ conv' = conv /\ UNCHANGED <<made, clock, changed, sync, remote>>
        /\ IsConv(conv, made, clock) /\ made \in Nat
    BY <1>8 DEF RewindBegins, userVars, githubVars, Consistent, ConvInv, Counters
  <2>2. Tells(Trimmed(conv, k, conv.restoreAt), {t \in conv.turns : t <= k},
              conv.undone \cap {t \in conv.turns : t <= k}, conv.restoreAt, conv.pr)
    BY <2>1, TrimmedTells DEF IsConv
  <2>3. IsConv(Trimmed(conv, k, conv.restoreAt), made, clock)
    BY <2>1, <2>2 DEF IsConv, Tells
  <2>4. k \in Nat
    BY <2>1 DEF IsConv
  <2>5. QED
    BY <2>1, <2>3, <2>4, SwitchKeeps
<1>9. CASE Allow \/ NotNow \/ SwitchOn
  <2>1. /\ \E e : conv' = [conv EXCEPT !.enabled = e]
        /\ UNCHANGED <<made, clock, changed, sync, remote, rewinding>>
    BY <1>9 DEF Allow, NotNow, SwitchOn, Asked, Wakes, userVars, githubVars
  <2>2. QED
    BY <2>1, SwitchKeeps
<1>10. CASE SignIn
  <2>1. UNCHANGED <<conv, made, clock, changed, sync, remote, rewinding>>
    BY <1>10 DEF SignIn, userVars, githubVars
  <2>2. QED
    BY <2>1, SwitchKeeps
<1>11. CASE OthersPush
  BY <1>11, OthersPushKeeps
<1>12. CASE Restart
  BY <1>12, RestartKeeps
<1>13. QED
  BY <1>1, <1>2, <1>3, <1>4, <1>5, <1>6, <1>7, <1>8, <1>9, <1>10, <1>11, <1>12 DEF Next, Sync

LEMMA PullInductive == Spec => []PullInv
<1>1. Init => PullInv
  BY PullInit DEF PullInv
<1>2. PullInv /\ [Next]_vars => PullInv'
  <2>1. ASSUME PullInv, Next PROVE PullInv'
    BY <2>1, Together, PullStep DEF PullInv
  <2>2. ASSUME PullInv, UNCHANGED vars PROVE PullInv'
    <3>1. UNCHANGED <<conv, made, clock, changed, sync, rewinding, remote, parted>>
      BY <2>2 DEF vars, userVars, githubVars
    <3>2. Consistent => Consistent'
      BY <3>1, SwitchKeeps
    <3>3. QED
      BY <2>2, <3>1, <3>2 DEF PullInv
  <2>3. QED
    BY <2>1, <2>2
<1>3. QED
  BY <1>1, <1>2, PTL DEF Spec

(* Whenever during a sync a turn was rewound or undone, and whoever else     *)
(* pushed to the branch: unless the record asks for a rebuild, the branch    *)
(* has only turns that were kept.                                            *)
THEOREM UndoneTurnsAreGone == Spec => []UndoneTurnsLeave
<1>1. PullInv => UndoneTurnsLeave
  BY ConsistentImplies DEF PullInv, UndoneTurnsLeave
<1>2. QED
  BY <1>1, PullInductive, PTL

(* Every change up to the last turn that the record names is in its commit,  *)
(* until a failed or lost call parts the record from the branch.             *)
THEOREM RecordedTurnsAreThere == Spec => []TurnsAreInHead
<1>1. PullInv => TurnsAreInHead
  BY ConsistentImplies DEF PullInv, TurnsAreInHead
<1>2. QED
  BY <1>1, PullInductive, PTL
=============================================================================
