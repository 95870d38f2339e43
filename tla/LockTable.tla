------------------------------ MODULE LockTable ------------------------------
(***************************************************************************)
(* The row lock table of distributed-operators: BasicLockTable in          *)
(* src/locking/lock_table.rs.  Per object it keeps the readers, at most    *)
(* one writer and a FIFO queue of requests that had to wait; release gives *)
(* a lock back and then grants from the head of the queue for as long as   *)
(* the head can be granted.                                                *)
(*                                                                         *)
(* Both calls take &mut self, so calls never interleave.  lock() is one    *)
(* step.  release() contains a loop; it is a first step, one step per      *)
(* iteration and a return step, and while it runs no other call can start. *)
(* Calls that answer an error (LockAlreadyHeld, LockNotHeld) change        *)
(* nothing and are left out.                                               *)
(*                                                                         *)
(* An object that was never locked has no entry in the code's hash_map;    *)
(* here it has the default entry, which lock and release treat alike.      *)
(***************************************************************************)
EXTENDS Naturals, Sequences, FiniteSets

CONSTANTS
  TID,        \* transaction identifiers
  RowID,      \* the objects that can be locked
  NoTID,      \* the None of Option<TID>
  NoRow,      \* no release is running
  MaxQueue    \* bound: requests waiting for one object

ASSUME NoTIDAssumption == NoTID \notin TID
ASSUME NoRowAssumption == NoRow \notin RowID
ASSUME MaxQueueAssumption == MaxQueue \in Nat

VARIABLES
  hash_map,   \* the lock state of every object
  running,    \* the object whose release is in its loop, or NoRow
  granted     \* the vector the running release has built, or the last one returned

vars == <<hash_map, running, granted>>

LockRequest == {"Read", "Write"}
Request == [tid : TID, req : LockRequest]

BasicLockState ==
  [readers : SUBSET TID, writer : TID \cup {NoTID}, queue : Seq(Request)]

DefaultState == [readers |-> {}, writer |-> NoTID, queue |-> <<>>]

(***************************************************************************)
(* What lock() answers in lock state s.                                    *)
(***************************************************************************)
AlreadyHeld(s, t, req) ==
  \/ s.writer = t
  \/ req = "Read" /\ t \in s.readers

Grantable(s, t, req) ==
  /\ s.writer = NoTID
  /\ \/ req = "Read" /\ t \notin s.readers
     \/ req = "Write" /\ s.readers \subseteq {t}

\* Fault: the upgrade forgets to clear the readers.
Grant_KeepsReaders(s, t, req) ==
  IF req = "Read" THEN [s EXCEPT !.readers = @ \cup {t}]
                  ELSE [s EXCEPT !.writer = t]

\* A granted Write replaces the requester's own Read: the upgrade in place.
Grant(s, t, req) ==
  IF req = "Read" THEN [s EXCEPT !.readers = @ \cup {t}]
                  ELSE [s EXCEPT !.readers = {}, !.writer = t]

Holds(s, t) == t \in s.readers \/ s.writer = t

HeadGrantable(s) ==
  s.queue # <<>> /\ Grantable(s, Head(s.queue).tid, Head(s.queue).req)

\* Fault: the Read an upgrade replaced stays in the report.
CheckAndMerge_None(vec) == vec

(***************************************************************************)
(* A Read and the Write that upgraded it, granted by one release, are      *)
(* reported as the Write alone.                                            *)
(***************************************************************************)
CheckAndMerge(vec) ==
  IF Len(vec) = 2 /\ vec[1].tid = vec[2].tid THEN Tail(vec) ELSE vec

-----------------------------------------------------------------------------

Init ==
  /\ hash_map = [o \in RowID |-> DefaultState]
  /\ running = NoRow
  /\ granted = <<>>

LockGranted(t, o, req) ==
  /\ running = NoRow
  /\ Grantable(hash_map[o], t, req)
  /\ hash_map' = [hash_map EXCEPT ![o] = Grant(@, t, req)]
  /\ UNCHANGED <<running, granted>>

LockQueued(t, o, req) ==
  /\ running = NoRow
  /\ ~AlreadyHeld(hash_map[o], t, req)
  /\ ~Grantable(hash_map[o], t, req)
  /\ Len(hash_map[o].queue) < MaxQueue
  /\ hash_map' = [hash_map EXCEPT ![o].queue = Append(@, [tid |-> t, req |-> req])]
  /\ UNCHANGED <<running, granted>>

\* Fault: release() wakes nobody.
Release_NoWakeup(t, o) ==
  /\ running = NoRow
  /\ Holds(hash_map[o], t)
  /\ hash_map' = [hash_map EXCEPT ![o].readers = @ \ {t},
                                  ![o].writer = IF @ = t THEN NoTID ELSE @]
  /\ granted' = <<>>
  /\ UNCHANGED running

\* release() up to its loop.
Release(t, o) ==
  /\ running = NoRow
  /\ Holds(hash_map[o], t)
  /\ hash_map' = [hash_map EXCEPT ![o].readers = @ \ {t},
                                  ![o].writer = IF @ = t THEN NoTID ELSE @]
  /\ running' = o
  /\ granted' = <<>>

\* One iteration that grants the head of the queue.
ReleaseGrant(o) ==
  /\ running = o
  /\ HeadGrantable(hash_map[o])
  /\ LET s    == hash_map[o]
         head == Head(s.queue)
     IN  /\ hash_map' = [hash_map EXCEPT ![o] =
                          [Grant(s, head.tid, head.req) EXCEPT !.queue = Tail(s.queue)]]
         /\ granted' = Append(granted, head)
  /\ UNCHANGED running

\* Fault: release() stops at the first request it granted.
ReleaseReturn_AfterFirst(o) ==
  /\ running = o
  /\ HeadGrantable(hash_map[o]) => granted # <<>>
  /\ running' = NoRow
  /\ granted' = CheckAndMerge(granted)
  /\ UNCHANGED hash_map

\* Fault: release() may give up before it has looked at the queue.
ReleaseReturn_Early(o) ==
  /\ running = o
  /\ running' = NoRow
  /\ granted' = CheckAndMerge(granted)
  /\ UNCHANGED hash_map

\* Fault: a head that lock() queued once more stays at the back of the queue, too.
ReleaseReturn_KeepsRequeued(o) ==
  /\ running = o
  /\ ~HeadGrantable(hash_map[o])
  /\ running' = NoRow
  /\ granted' = CheckAndMerge(granted)
  /\ LET q == hash_map[o].queue
     IN  hash_map' = [hash_map EXCEPT ![o].queue =
           IF q # <<>> /\ ~AlreadyHeld(hash_map[o], Head(q).tid, Head(q).req)
           THEN Append(q, Head(q)) ELSE q]

(***************************************************************************)
(* The last iteration: the queue is empty or its head is refused.  A head  *)
(* that lock() queued once more is popped from the back again, so the      *)
(* state is the one the iteration found.                                   *)
(***************************************************************************)
ReleaseReturn(o) ==
  /\ running = o
  /\ ~HeadGrantable(hash_map[o])
  /\ running' = NoRow
  /\ granted' = CheckAndMerge(granted)
  /\ UNCHANGED hash_map

LockCall ==
  \E t \in TID, o \in RowID, req \in LockRequest :
    LockGranted(t, o, req) \/ LockQueued(t, o, req)

ReleaseStep(o) == ReleaseGrant(o) \/ ReleaseReturn(o)

Next ==
  \/ LockCall
  \/ \E t \in TID, o \in RowID : Release(t, o)
  \/ \E o \in RowID : ReleaseStep(o)

Spec == Init /\ [][Next]_vars

(***************************************************************************)
(* A release runs to its end, and a transaction that holds a lock gives it *)
(* back some day; nobody has to ask for a lock.                            *)
(***************************************************************************)
Fairness ==
  /\ \A o \in RowID : WF_vars(ReleaseStep(o))
  /\ \A t \in TID, o \in RowID : SF_vars(Release(t, o))

FairSpec == Spec /\ Fairness

-----------------------------------------------------------------------------

(***************************************************************************)
(* State and report are well formed, and a queue never outgrows the bound  *)
(* on the calls of lock() that wait: a head that release runs through lock *)
(* again and that is queued once more does not pile up behind it.          *)
(***************************************************************************)
TypeOK ==
  /\ hash_map \in [RowID -> BasicLockState]
  /\ \A o \in RowID : Len(hash_map[o].queue) <= MaxQueue
  /\ running \in RowID \cup {NoRow}
  /\ granted \in Seq(Request)

(***************************************************************************)
(* Readers and a writer never share an object, through upgrades and        *)
(* through every grant a release makes from the queue.                     *)
(***************************************************************************)
Exclusive ==
  \A o \in RowID : hash_map[o].writer # NoTID => hash_map[o].readers = {}

(***************************************************************************)
(* No lost wake-up: between calls the request at the head of a queue is    *)
(* one that could not be granted.  lock() changes the holders without      *)
(* looking at the queue and only release() looks at it, so a lock() that   *)
(* made the head grantable would leave it waiting for nothing.             *)
(***************************************************************************)
NoLostWakeup ==
  \A o \in RowID : running # o => ~HeadGrantable(hash_map[o])

(***************************************************************************)
(* Somebody holds whatever somebody waits for: the release that will look  *)
(* at the queue again is still to come.                                    *)
(***************************************************************************)
WaitersHaveHolder ==
  \A o \in RowID :
    /\ running # o
    /\ hash_map[o].queue # <<>>
    => \E t \in TID : Holds(hash_map[o], t)

Reported(o) ==
  /\ \A i, j \in DOMAIN granted' : granted'[i].tid = granted'[j].tid => i = j
  /\ \A i \in DOMAIN granted' :
       IF granted'[i].req = "Write"
       THEN hash_map[o].writer = granted'[i].tid
       ELSE granted'[i].tid \in hash_map[o].readers

(***************************************************************************)
(* The vector release() returns names each transaction once and names it   *)
(* with the lock it now has: check_and_merge looks only at vectors of      *)
(* length two, and an upgrade could hide in a longer one.                  *)
(***************************************************************************)
GrantReportExact == [][\A o \in RowID : ReleaseReturn(o) => Reported(o)]_vars

(***************************************************************************)
(* Once nobody asks for further locks, every queue drains for good:        *)
(* granting only at the head of the queue reaches everybody behind it,     *)
(* past duplicates of a request, provided holders do give their locks      *)
(* back.  Holders that wait do so too: two readers that both ask for Write *)
(* wait for each other, and only a transaction that gives up its Read ends *)
(* that.                                                                   *)
(***************************************************************************)
QueuesDrain ==
  <>[][~LockCall]_vars => <>[](\A o \in RowID : hash_map[o].queue = <<>>)

(***************************************************************************)
(* What README.md:127-129 promises: "a blocked writer holds up later       *)
(* readers: strict FIFO fairness, no writer starvation".                   *)
(***************************************************************************)
NoWriterStarvation ==
  \A t \in TID, o \in RowID :
    (\E i \in DOMAIN hash_map[o].queue :
       hash_map[o].queue[i] = [tid |-> t, req |-> "Write"])
    ~> hash_map[o].writer = t

=============================================================================
