----------------------- MODULE MultiGranularityLockTree -----------------------
(***************************************************************************)
(* The multi-granularity lock tree of distributed-operators                *)
(* (src/locking/multi_granularity_locking.rs).  A request names a node by  *)
(* its path; the nodes on the way get the intention mode and the last one  *)
(* the mode itself.  lock() checks the whole path before it inserts        *)
(* anything; a refusal releases what the transaction held.  release()      *)
(* walks down from the root's children.                                    *)
(*                                                                         *)
(* The tree of nodes is fixed.  Above[n] is the set of nodes on the path   *)
(* to n, without n; the root is on no path, never locked and not a Node.   *)
(* Calls take &mut self: every call is one step.  A path that names no     *)
(* node panics in the code and is not asked for here.                      *)
(***************************************************************************)
EXTENDS Naturals

CONSTANTS
  TID,
  Node,
  Above       \* the nodes on the path to a node

\* Paths are those of a tree: the way to a node above n is part of the way to n.
ASSUME AboveAssumption ==
  /\ Above \in [Node -> SUBSET Node]
  /\ \A n \in Node : n \notin Above[n]
  /\ \A n \in Node : \A a \in Above[n] : Above[a] \subseteq Above[n]

VARIABLES
  locks,      \* per node, the set of locks held on it
  reply       \* how the last call ended

vars == <<locks, reply>>

LockRequest == {"Read", "Write"}
MGLLock == {"IntentionRead", "IntentionWrite", "Read", "Write"}
Lock == [tid : TID, mode : MGLLock]
Reply == {"None", "Granted", "Denied", "Panic", "Released", "LockNotHeld"}

Path(n) == Above[n] \cup {n}
TopLevel == {n \in Node : Above[n] = {}}
LockedBy(t) == {n \in Node : \E l \in locks[n] : l.tid = t}

Mode(req, intention) ==
  IF intention THEN IF req = "Write" THEN "IntentionWrite" ELSE "IntentionRead"
               ELSE req

\* The lock that goes with l on the nodes above it.
Intention(l) ==
  [tid |-> l.tid,
   mode |-> Mode(IF l.mode \in {"Write", "IntentionWrite"} THEN "Write" ELSE "Read", TRUE)]

-----------------------------------------------------------------------------

\* Fault: a Read is not checked against the intention to write below.
CanGrant_IgnoresIntention(req, held, intention) ==
  \/ held = {}
  \/ /\ \A t \in TID : held # {[tid |-> t, mode |-> "Write"]}
     /\ \/ req = "Read"
        \/ intention /\ \A l \in held : l.mode # "Read"

(***************************************************************************)
(* can_grant: own locks count like anybody else's, and an exclusive lock   *)
(* is recognised only when it is the node's single lock.                   *)
(***************************************************************************)
CanGrant(req, held, intention) ==
  \/ held = {}
  \/ /\ \A t \in TID : held # {[tid |-> t, mode |-> "Write"]}
     /\ \/ req = "Read" /\ intention
        \/ req = "Read" /\ ~intention /\ \A l \in held : l.mode # "IntentionWrite"
        \/ req = "Write" /\ intention /\ \A l \in held : l.mode # "Read"

\* Fault: only the node asked for is locked, not the way to it.
Acquired_LeafOnly(t, n, req) ==
  [m \in Node |-> IF m = n THEN {[tid |-> t, mode |-> Mode(req, FALSE)]} ELSE {}]

\* What a granted request inserts.
Acquired(t, n, req) ==
  [m \in Node |-> IF m \in Path(n) THEN {[tid |-> t, mode |-> Mode(req, m # n)]} ELSE {}]

\* Fault: the walk goes one level down only.
Reached_ChildrenOnly(t, c) ==
  {m \in LockedBy(t) : m = c \/ Above[m] = {c}}

(***************************************************************************)
(* The nodes release_lock_recursive clears from the root's child c: it     *)
(* goes down only through nodes on which the transaction holds something.  *)
(***************************************************************************)
Reached(t, c) ==
  {m \in LockedBy(t) : c \in Path(m) /\ Path(m) \subseteq LockedBy(t)}

Without(t, nodes) ==
  [n \in Node |-> IF n \in nodes THEN {l \in locks[n] : l.tid # t} ELSE locks[n]]

(***************************************************************************)
(* has_locks || release_lock_recursive(..) stops evaluating once a child   *)
(* had locks, and the children of a HashMap come in any order: one of the  *)
(* top-level nodes the transaction holds is cleared, with what is below.   *)
(***************************************************************************)
ReleaseLocks(t) ==
  \/ /\ TopLevel \cap LockedBy(t) = {}
     /\ UNCHANGED locks
  \/ \E c \in TopLevel \cap LockedBy(t) : locks' = Without(t, Reached(t, c))

-----------------------------------------------------------------------------

Init ==
  /\ locks = [n \in Node |-> {}]
  /\ reply = "None"

LockGranted(t, n, req) ==
  /\ reply # "Panic"
  /\ \A a \in Above[n] : CanGrant(req, locks[a], TRUE)
  /\ CanGrant(req, locks[n], FALSE)
  /\ locks' = [m \in Node |-> locks[m] \cup Acquired(t, n, req)[m]]
  /\ reply' = "Granted"

(***************************************************************************)
(* Refused on the way: release's answer is unwrapped with expect(), which  *)
(* panics when the transaction held nothing.                               *)
(***************************************************************************)
LockDeniedOnPath(t, n, req) ==
  /\ reply # "Panic"
  /\ \E a \in Above[n] : ~CanGrant(req, locks[a], TRUE)
  /\ ReleaseLocks(t)
  /\ reply' = IF TopLevel \cap LockedBy(t) = {} THEN "Panic" ELSE "Denied"

\* Fault: a refusal is inserted like a lock.
LockDeniedAtNode_Inserted(t, n, req) ==
  /\ reply # "Panic"
  /\ \A a \in Above[n] : CanGrant(req, locks[a], TRUE)
  /\ ~CanGrant(req, locks[n], FALSE)
  /\ locks' = [locks EXCEPT ![n] = @ \cup {[tid |-> t, mode |-> "Denied"]}]
  /\ reply' = "Denied"

LockDeniedAtNode(t, n, req) ==
  /\ reply # "Panic"
  /\ \A a \in Above[n] : CanGrant(req, locks[a], TRUE)
  /\ ~CanGrant(req, locks[n], FALSE)
  /\ ReleaseLocks(t)
  /\ reply' = "Denied"

Release(t) ==
  /\ reply # "Panic"
  /\ ReleaseLocks(t)
  /\ reply' = IF TopLevel \cap LockedBy(t) = {} THEN "LockNotHeld" ELSE "Released"

LockCall(t, n, req) ==
  LockGranted(t, n, req) \/ LockDeniedOnPath(t, n, req) \/ LockDeniedAtNode(t, n, req)

Next ==
  \/ \E t \in TID, n \in Node, req \in LockRequest : LockCall(t, n, req)
  \/ \E t \in TID : Release(t)

Spec == Init /\ [][Next]_vars

-----------------------------------------------------------------------------

TypeOK ==
  /\ locks \in [Node -> SUBSET Lock]
  /\ reply \in Reply

(***************************************************************************)
(* can_grant decides as the textbook compatibility matrix does, own locks  *)
(* included, although it looks for an exclusive lock only on nodes with    *)
(* one lock: no sequence of calls puts a second lock beside an exclusive   *)
(* one.                                                                    *)
(***************************************************************************)
Compatible ==
  {<<"IntentionRead", "IntentionRead">>, <<"IntentionRead", "IntentionWrite">>,
   <<"IntentionWrite", "IntentionRead">>, <<"IntentionWrite", "IntentionWrite">>,
   <<"IntentionRead", "Read">>, <<"Read", "IntentionRead">>, <<"Read", "Read">>}

GrantsByMatrix ==
  \A n \in Node, req \in LockRequest, intention \in BOOLEAN :
    CanGrant(req, locks[n], intention) <=>
      \A l \in locks[n] : <<l.mode, Mode(req, intention)>> \in Compatible

(***************************************************************************)
(* Any two locks on a node are compatible, also two of one transaction.    *)
(***************************************************************************)
NodeCompatible ==
  \A n \in Node : \A l1, l2 \in locks[n] :
    l1 # l2 => <<l1.mode, l2.mode>> \in Compatible

(***************************************************************************)
(* Whoever holds a lock holds the matching intention on every node above,  *)
(* also after releases: release must not clear a node and leave locks      *)
(* below it that no other request can see.                                 *)
(***************************************************************************)
IntentionsHeld ==
  \A n \in Node : \A l \in locks[n] : \A a \in Above[n] : Intention(l) \in locks[a]

(***************************************************************************)
(* What the intentions are for: a transaction that writes a subtree shares *)
(* no node of it with a reader or a writer, wherever in the tree either    *)
(* has asked for its lock.                                                 *)
(***************************************************************************)
SubtreeExclusion ==
  \A n \in Node : \A m \in Node : \A w \in locks[n] : \A l \in locks[m] :
    /\ w.mode = "Write"
    /\ l.mode \in {"Read", "Write"}
    /\ n \in Path(m) \/ m \in Path(n)
    => w.tid = l.tid

(***************************************************************************)
(* What README.md:87-88 promises: "release(tid) removes every lock the     *)
(* transaction holds anywhere in the tree".                                *)
(***************************************************************************)
ReleaseRemovesAll == [][\A t \in TID : Release(t) => LockedBy(t)' = {}]_vars

=============================================================================
