--------------------------- MODULE LockTableProofs ---------------------------
(***************************************************************************)
(* Proofs about LockTable for any set of transactions and objects and any  *)
(* bound on the queues.                                                    *)
(***************************************************************************)
EXTENDS LockTable, SequenceTheorems, TLAPS

(***************************************************************************)
(* What a grant does to a lock state, and what stays refused after it.     *)
(***************************************************************************)
LEMMA GrantType ==
  ASSUME NEW s \in BasicLockState, NEW t \in TID, NEW req \in LockRequest
  PROVE  Grant(s, t, req) \in BasicLockState
BY DEF Grant, BasicLockState, LockRequest

LEMMA GrantKeepsQueue ==
  ASSUME NEW s \in BasicLockState, NEW t \in TID, NEW req \in LockRequest
  PROVE  Grant(s, t, req).queue = s.queue
BY DEF Grant, BasicLockState, LockRequest

LEMMA HeadIsRequest ==
  ASSUME NEW s \in BasicLockState, s.queue # <<>>
  PROVE  /\ Head(s.queue) \in Request
         /\ Tail(s.queue) \in Seq(Request)
BY HeadTailProperties DEF BasicLockState

\* A Read adds a reader and a Write a writer: neither makes room for anybody else.
LEMMA RefusedStaysRefused ==
  ASSUME NEW s \in BasicLockState,
         NEW t \in TID, NEW req \in LockRequest, Grantable(s, t, req),
         NEW u \in TID, NEW other \in LockRequest, ~Grantable(s, u, other)
  PROVE  ~Grantable(Grant(s, t, req), u, other)
<1>1. CASE req = "Read"
  BY <1>1 DEF Grant, Grantable, BasicLockState, LockRequest
<1>2. CASE req = "Write"
  BY <1>2, NoTIDAssumption DEF Grant, Grantable, BasicLockState, LockRequest
<1> QED
  BY <1>1, <1>2 DEF LockRequest

-----------------------------------------------------------------------------

(***************************************************************************)
(* Every reachable state is well formed: the entry of every object with    *)
(* its bounded queue, the object being released and the reported grants.   *)
(***************************************************************************)
LEMMA TypeInit == Init => TypeOK
<1> SUFFICES ASSUME Init PROVE TypeOK
  OBVIOUS
<1>1. DefaultState \in BasicLockState /\ Len(DefaultState.queue) = 0
  BY EmptySeq DEF DefaultState, BasicLockState
<1>2. \A o \in RowID : hash_map[o] = DefaultState
  BY DEF Init
<1>3. \A o \in RowID : Len(hash_map[o].queue) <= MaxQueue
  BY <1>1, <1>2, MaxQueueAssumption
<1>4. hash_map \in [RowID -> BasicLockState]
  BY <1>1 DEF Init
<1> QED
  BY <1>3, <1>4, EmptySeq DEF Init, TypeOK

LEMMA TypeStep == TypeOK /\ [Next]_vars => TypeOK'
<1> SUFFICES ASSUME TypeOK, [Next]_vars PROVE TypeOK'
  OBVIOUS
<1> USE DEF TypeOK
<1>1. ASSUME NEW t \in TID, NEW o \in RowID, NEW req \in LockRequest,
             LockGranted(t, o, req)
      PROVE  TypeOK'
  BY <1>1, GrantType, GrantKeepsQueue DEF LockGranted
<1>2. ASSUME NEW t \in TID, NEW o \in RowID, NEW req \in LockRequest,
             LockQueued(t, o, req)
      PROVE  TypeOK'
  <2>1. [tid |-> t, req |-> req] \in Request
    BY DEF Request
  <2>2. Append(hash_map[o].queue, [tid |-> t, req |-> req]) \in Seq(Request)
    BY <2>1, AppendProperties DEF BasicLockState
  <2>3. hash_map' \in [RowID -> BasicLockState]
    BY <1>2, <2>2 DEF LockQueued, BasicLockState
  <2>4. Len(Append(hash_map[o].queue, [tid |-> t, req |-> req])) = Len(hash_map[o].queue) + 1
    BY <2>1, AppendProperties DEF BasicLockState
  <2>5. Len(hash_map[o].queue) + 1 <= MaxQueue
    BY <1>2, MaxQueueAssumption, LenProperties DEF LockQueued, BasicLockState
  <2>6. ASSUME NEW q \in RowID PROVE Len(hash_map'[q].queue) <= MaxQueue
    <3>1. CASE q = o
      BY <1>2, <2>4, <2>5, <3>1 DEF LockQueued, BasicLockState
    <3>2. CASE q # o
      BY <1>2, <3>2 DEF LockQueued, BasicLockState
    <3> QED
      BY <3>1, <3>2
  <2> QED
    BY <1>2, <2>3, <2>6 DEF LockQueued
<1>3. ASSUME NEW t \in TID, NEW o \in RowID, Release(t, o)
      PROVE  TypeOK'
  BY <1>3, EmptySeq DEF Release, BasicLockState
<1>4. ASSUME NEW o \in RowID, ReleaseGrant(o)
      PROVE  TypeOK'
  <2> DEFINE head == Head(hash_map[o].queue)
             s    == Grant(hash_map[o], head.tid, head.req)
  <2>1. hash_map[o] \in BasicLockState /\ hash_map[o].queue # <<>>
    BY <1>4 DEF ReleaseGrant, HeadGrantable
  <2>2. head \in Request /\ Tail(hash_map[o].queue) \in Seq(Request)
    BY <2>1, HeadIsRequest
  <2>3. s \in BasicLockState
    BY <2>1, <2>2, GrantType DEF Request
  <2>4. [s EXCEPT !.queue = Tail(hash_map[o].queue)] \in BasicLockState
    BY <2>2, <2>3 DEF BasicLockState
  <2>5. hash_map' = [hash_map EXCEPT ![o] = [s EXCEPT !.queue = Tail(hash_map[o].queue)]]
    BY <1>4 DEF ReleaseGrant
  <2>6. granted' \in Seq(Request)
    BY <1>4, <2>2, AppendProperties DEF ReleaseGrant
  <2>7. Len(Tail(hash_map[o].queue)) <= MaxQueue
    <3>1. /\ hash_map[o].queue \in Seq(Request)
          /\ Len(hash_map[o].queue) \in Nat
          /\ Len(Tail(hash_map[o].queue)) = Len(hash_map[o].queue) - 1
      BY <2>1, HeadTailProperties, LenProperties DEF BasicLockState
    <3> QED
      BY <3>1, MaxQueueAssumption
  <2>8. [s EXCEPT !.queue = Tail(hash_map[o].queue)].queue = Tail(hash_map[o].queue)
    BY <2>3 DEF BasicLockState
  <2>9. \A q \in RowID : Len(hash_map'[q].queue) <= MaxQueue
    BY <2>5, <2>7, <2>8
  <2>10. hash_map' \in [RowID -> BasicLockState]
    BY <2>4, <2>5
  <2> QED
    BY <1>4, <2>6, <2>9, <2>10 DEF ReleaseGrant
<1>5. ASSUME NEW o \in RowID, ReleaseReturn(o)
      PROVE  TypeOK'
  <2>1. CheckAndMerge(granted) \in Seq(Request)
    <3>1. CASE Len(granted) = 2
      <4>1. granted # <<>>
        <5>1. Len(<<>>) = 0
          OBVIOUS
        <5>2. Len(granted) # Len(<<>>)
          BY <3>1, <5>1
        <5> QED
          BY <5>2, Zenon
      <4>2. Tail(granted) \in Seq(Request)
        BY <4>1, HeadTailProperties
      <4> QED
        BY <4>2 DEF CheckAndMerge
    <3>2. CASE Len(granted) # 2
      BY <3>2 DEF CheckAndMerge
    <3> QED
      BY <3>1, <3>2
  <2> QED
    BY <1>5, <2>1 DEF ReleaseReturn
<1>6. CASE UNCHANGED vars
  BY <1>6 DEF vars
<1> QED
  BY <1>1, <1>2, <1>3, <1>4, <1>5, <1>6 DEF Next, LockCall, ReleaseStep

THEOREM TypeCorrect == Spec => []TypeOK
BY TypeInit, TypeStep, PTL DEF Spec

-----------------------------------------------------------------------------

(***************************************************************************)
(* Mutual exclusion of readers and writers, for every number of            *)
(* transactions and however long the queues: lock and release's own loop   *)
(* grant a Write only over a readers set that they clear, and a Read only  *)
(* where there is no writer.                                               *)
(***************************************************************************)
LEMMA GrantExclusive ==
  ASSUME NEW s \in BasicLockState, s.writer # NoTID => s.readers = {},
         NEW t \in TID, NEW req \in LockRequest, Grantable(s, t, req)
  PROVE  Grant(s, t, req).writer # NoTID => Grant(s, t, req).readers = {}
BY DEF Grant, Grantable, BasicLockState, LockRequest

LEMMA ExclusiveStep == TypeOK /\ Exclusive /\ [Next]_vars => Exclusive'
<1> SUFFICES ASSUME TypeOK, Exclusive, [Next]_vars PROVE Exclusive'
  OBVIOUS
<1> USE DEF Exclusive
<1>1. ASSUME NEW t \in TID, NEW o \in RowID, NEW req \in LockRequest,
             LockGranted(t, o, req)
      PROVE  Exclusive'
  BY <1>1, GrantExclusive DEF LockGranted, TypeOK
<1>2. ASSUME NEW t \in TID, NEW o \in RowID, NEW req \in LockRequest,
             LockQueued(t, o, req)
      PROVE  Exclusive'
  BY <1>2 DEF LockQueued, TypeOK, BasicLockState
<1>3. ASSUME NEW t \in TID, NEW o \in RowID, Release(t, o)
      PROVE  Exclusive'
  BY <1>3 DEF Release, TypeOK, BasicLockState
<1>4. ASSUME NEW o \in RowID, ReleaseGrant(o)
      PROVE  Exclusive'
  <2> DEFINE head == Head(hash_map[o].queue)
             s    == Grant(hash_map[o], head.tid, head.req)
  <2>1. /\ hash_map[o] \in BasicLockState
        /\ hash_map[o].queue # <<>>
        /\ Grantable(hash_map[o], head.tid, head.req)
    BY <1>4 DEF ReleaseGrant, HeadGrantable, TypeOK
  <2>2. head.tid \in TID /\ head.req \in LockRequest
    BY <2>1, HeadIsRequest DEF Request
  <2>3. s \in BasicLockState /\ (s.writer # NoTID => s.readers = {})
    BY <2>1, <2>2, GrantType, GrantExclusive
  <2>4. hash_map' = [hash_map EXCEPT ![o] = [s EXCEPT !.queue = Tail(hash_map[o].queue)]]
    BY <1>4 DEF ReleaseGrant
  <2> QED
    BY <2>3, <2>4 DEF TypeOK, BasicLockState
<1>5. ASSUME NEW o \in RowID, ReleaseReturn(o)
      PROVE  Exclusive'
  BY <1>5 DEF ReleaseReturn
<1>6. CASE UNCHANGED vars
  BY <1>6 DEF vars
<1> QED
  BY <1>1, <1>2, <1>3, <1>4, <1>5, <1>6 DEF Next, LockCall, ReleaseStep

THEOREM MutualExclusion == Spec => []Exclusive
<1>1. Init => Exclusive
  BY DEF Init, Exclusive, DefaultState
<1> QED
  BY <1>1, TypeCorrect, ExclusiveStep, PTL DEF Spec

-----------------------------------------------------------------------------

(***************************************************************************)
(* No wake-up is lost: a request waits only while the holders refuse it.   *)
(* The invariant is inductive beside TypeOK because a grant never makes    *)
(* another request grantable (RefusedStaysRefused) and only release takes  *)
(* a holder away.                                                          *)
(***************************************************************************)
LEMMA NoLostWakeupStep == TypeOK /\ NoLostWakeup /\ [Next]_vars => NoLostWakeup'
<1> SUFFICES ASSUME TypeOK, NoLostWakeup, [Next]_vars PROVE NoLostWakeup'
  OBVIOUS
<1> USE DEF NoLostWakeup
<1>1. ASSUME NEW t \in TID, NEW o \in RowID, NEW req \in LockRequest,
             LockGranted(t, o, req)
      PROVE  NoLostWakeup'
  <2> DEFINE s == hash_map[o]
  <2>1. s \in BasicLockState /\ Grantable(s, t, req) /\ ~HeadGrantable(s)
    BY <1>1, NoRowAssumption DEF LockGranted, TypeOK
  <2>2. ~HeadGrantable(Grant(s, t, req))
    <3>1. Grant(s, t, req).queue = s.queue
      BY <2>1, GrantKeepsQueue
    <3>2. CASE s.queue = <<>>
      BY <3>1, <3>2 DEF HeadGrantable
    <3>3. CASE s.queue # <<>>
      <4>1. Head(s.queue).tid \in TID /\ Head(s.queue).req \in LockRequest
        BY <2>1, <3>3, HeadIsRequest DEF Request
      <4>2. ~Grantable(s, Head(s.queue).tid, Head(s.queue).req)
        BY <2>1, <3>3 DEF HeadGrantable
      <4> QED
        BY <2>1, <3>1, <4>1, <4>2, RefusedStaysRefused DEF HeadGrantable
    <3> QED
      BY <3>2, <3>3
  <2>3. /\ hash_map' = [hash_map EXCEPT ![o] = Grant(s, t, req)]
        /\ running = NoRow
        /\ running' = running
    BY <1>1 DEF LockGranted
  <2> QED
    BY <2>2, <2>3, NoRowAssumption DEF TypeOK
<1>2. ASSUME NEW t \in TID, NEW o \in RowID, NEW req \in LockRequest,
             LockQueued(t, o, req)
      PROVE  NoLostWakeup'
  <2> DEFINE s == hash_map[o]
             r == [tid |-> t, req |-> req]
             n == [s EXCEPT !.queue = Append(s.queue, r)]
  <2>1. s \in BasicLockState /\ ~Grantable(s, t, req) /\ ~HeadGrantable(s)
    BY <1>2, NoRowAssumption DEF LockQueued, TypeOK
  <2>2. /\ r \in Request /\ r.tid = t /\ r.req = req
        /\ s.queue \in Seq(Request)
        /\ n.queue = Append(s.queue, r)
        /\ n.readers = s.readers /\ n.writer = s.writer
    BY <2>1 DEF Request, BasicLockState
  <2>3. ~HeadGrantable(n)
    <3>1. CASE s.queue = <<>>
      <4>1. Head(n.queue) = r
        BY <2>2, <3>1
      <4> QED
        BY <2>1, <2>2, <4>1 DEF HeadGrantable, Grantable
    <3>2. CASE s.queue # <<>>
      <4>1. Head(n.queue) = Head(s.queue)
        BY <2>2, <3>2, AppendProperties
      <4> QED
        BY <2>1, <2>2, <3>2, <4>1 DEF HeadGrantable, Grantable
    <3> QED
      BY <3>1, <3>2
  <2>4. /\ hash_map' = [hash_map EXCEPT ![o] = n]
        /\ running = NoRow
        /\ running' = running
    BY <1>2 DEF LockQueued
  <2> HIDE DEF n
  <2> QED
    BY <2>3, <2>4, NoRowAssumption DEF TypeOK
<1>3. ASSUME NEW t \in TID, NEW o \in RowID, Release(t, o)
      PROVE  NoLostWakeup'
  BY <1>3, NoRowAssumption DEF Release, TypeOK
<1>4. ASSUME NEW o \in RowID, ReleaseGrant(o)
      PROVE  NoLostWakeup'
  BY <1>4 DEF ReleaseGrant, TypeOK
<1>5. ASSUME NEW o \in RowID, ReleaseReturn(o)
      PROVE  NoLostWakeup'
  BY <1>5 DEF ReleaseReturn
<1>6. CASE UNCHANGED vars
  BY <1>6 DEF vars
<1> QED
  BY <1>1, <1>2, <1>3, <1>4, <1>5, <1>6 DEF Next, LockCall, ReleaseStep

THEOREM NoWakeupIsLost == Spec => []NoLostWakeup
<1>1. Init => NoLostWakeup
  BY DEF Init, NoLostWakeup, DefaultState, HeadGrantable
<1> QED
  BY <1>1, TypeCorrect, NoLostWakeupStep, PTL DEF Spec

(***************************************************************************)
(* A request that waits has a holder to wait for: what refuses the head of *)
(* a queue is a writer or a reader.                                        *)
(***************************************************************************)
THEOREM EveryWaitHasAHolder == Spec => []WaitersHaveHolder
<1>1. TypeOK /\ NoLostWakeup => WaitersHaveHolder
  <2> SUFFICES ASSUME TypeOK, NoLostWakeup,
                      NEW o \in RowID, running # o, hash_map[o].queue # <<>>
               PROVE  \E t \in TID : Holds(hash_map[o], t)
    BY DEF WaitersHaveHolder
  <2> DEFINE s == hash_map[o]
             head == Head(s.queue)
  <2>1. s \in BasicLockState /\ ~Grantable(s, head.tid, head.req)
    BY DEF TypeOK, NoLostWakeup, HeadGrantable
  <2>2. head.tid \in TID /\ head.req \in LockRequest
    BY <2>1, HeadIsRequest DEF Request
  <2> QED
    BY <2>1, <2>2 DEF Grantable, Holds, BasicLockState, LockRequest
<1> QED
  BY <1>1, TypeCorrect, NoWakeupIsLost, PTL

-----------------------------------------------------------------------------

(***************************************************************************)
(* What a release has granted when it is in its loop, by the lock it has   *)
(* left: without a writer, Reads of different readers; with one, that      *)
(* Write, after its own Read at most.  A Write is granted only over        *)
(* readers that are the requester alone, so an upgrade is never hidden in  *)
(* a longer vector, and nothing is grantable after it.                     *)
(***************************************************************************)
ReadsOnly(s) ==
  /\ s.writer = NoTID
  /\ \A i \in DOMAIN granted : granted[i].req = "Read" /\ granted[i].tid \in s.readers
  /\ \A i, j \in DOMAIN granted : granted[i].tid = granted[j].tid => i = j

OneWrite(s) ==
  LET write == [tid |-> s.writer, req |-> "Write"]
      read  == [tid |-> s.writer, req |-> "Read"]
  IN  s.writer \in TID /\ granted \in {<<write>>, <<read, write>>}

GrantsMatchHolders ==
  running # NoRow => ReadsOnly(hash_map[running]) \/ OneWrite(hash_map[running])

LEMMA GrantsMatchHoldersStep ==
  TypeOK /\ Exclusive /\ GrantsMatchHolders /\ [Next]_vars => GrantsMatchHolders'
<1> SUFFICES ASSUME TypeOK, Exclusive, GrantsMatchHolders, [Next]_vars
             PROVE  GrantsMatchHolders'
  OBVIOUS
<1> USE DEF GrantsMatchHolders
<1>1. ASSUME NEW t \in TID, NEW o \in RowID, NEW req \in LockRequest,
             LockGranted(t, o, req) \/ LockQueued(t, o, req)
      PROVE  GrantsMatchHolders'
  BY <1>1 DEF LockGranted, LockQueued
<1>2. ASSUME NEW t \in TID, NEW o \in RowID, Release(t, o)
      PROVE  GrantsMatchHolders'
  <2>1. hash_map[o] \in BasicLockState /\ Holds(hash_map[o], t)
    BY <1>2 DEF Release, TypeOK
  <2>2. hash_map[o].writer \in {t, NoTID}
    BY <2>1, NoTIDAssumption DEF Exclusive, Holds, BasicLockState
  <2>3. hash_map'[o].writer = NoTID /\ running' = o /\ granted' = <<>>
    BY <1>2, <2>1, <2>2 DEF Release, TypeOK, BasicLockState
  <2> QED
    BY <2>3 DEF ReadsOnly
<1>3. ASSUME NEW o \in RowID, ReleaseGrant(o)
      PROVE  GrantsMatchHolders'
  <2> DEFINE s    == hash_map[o]
             head == Head(s.queue)
             n    == Grant(s, head.tid, head.req)
  <2>1. s \in BasicLockState /\ s.queue # <<>> /\ Grantable(s, head.tid, head.req)
    BY <1>3 DEF ReleaseGrant, HeadGrantable, TypeOK
  <2>2. head \in Request
    BY <2>1, HeadIsRequest
  <2>3. n \in BasicLockState
    BY <2>1, <2>2, GrantType DEF Request
  <2>4. /\ hash_map'[o].writer = n.writer
        /\ hash_map'[o].readers = n.readers
        /\ running' = o
        /\ granted' = Append(granted, head)
    <3>1. /\ hash_map' = [hash_map EXCEPT ![o] = [n EXCEPT !.queue = Tail(s.queue)]]
          /\ granted' = Append(granted, head)
          /\ running = o /\ running' = running
      BY <1>3 DEF ReleaseGrant
    <3> QED
      BY <2>3, <3>1 DEF TypeOK, BasicLockState
  <2>5. ReadsOnly(s)
    BY <1>3, <2>1, NoTIDAssumption, NoRowAssumption
    DEF ReleaseGrant, OneWrite, Grantable
  <2>6. /\ granted \in Seq(Request)
        /\ Len(granted') = Len(granted) + 1
        /\ \A i \in 1 .. Len(granted) : granted'[i] = granted[i]
        /\ granted'[Len(granted) + 1] = head
    BY <2>2, <2>4, AppendProperties DEF TypeOK
  <2>7. CASE head.req = "Read"
    <3>1. n.writer = NoTID /\ n.readers = s.readers \cup {head.tid} /\ head.tid \notin s.readers
      BY <2>1, <2>5, <2>7 DEF Grant, Grantable, BasicLockState, ReadsOnly
    <3>2. \A i \in DOMAIN granted' : i \in 1 .. Len(granted) \/ i = Len(granted) + 1
      BY <2>2, <2>4, <2>6
    <3> HIDE DEF s, n, head
    <3>3. DOMAIN granted = 1 .. Len(granted)
      BY <2>6
    <3>4. \A i \in DOMAIN granted' :
            granted'[i].req = "Read" /\ granted'[i].tid \in n.readers
      BY <2>5, <2>6, <2>7, <3>1, <3>2, <3>3 DEF ReadsOnly
    <3>5. \A i, j \in DOMAIN granted' : granted'[i].tid = granted'[j].tid => i = j
      BY <2>5, <2>6, <3>1, <3>2, <3>3 DEF ReadsOnly
    <3> QED
      BY <2>4, <3>1, <3>4, <3>5 DEF ReadsOnly
  <2>8. CASE head.req = "Write"
    <3>1. n.writer = head.tid /\ s.readers \subseteq {head.tid} /\ head.tid \in TID
      BY <2>1, <2>2, <2>8 DEF Grant, Grantable, BasicLockState, Request
    <3>2. head = [tid |-> n.writer, req |-> "Write"]
      BY <2>2, <2>8, <3>1 DEF Request
    <3> HIDE DEF s, n, head
    <3>3. \A i, j \in DOMAIN granted : i = j
      BY <2>5, <3>1 DEF ReadsOnly
    <3>4. Len(granted) \in {0, 1}
      BY <2>6, <3>3
    <3>5. CASE Len(granted) = 0
      <4>1. granted' = <<head>>
        BY <2>4, <2>6, <3>5
      <4> QED
        BY <2>4, <3>1, <3>2, <4>1 DEF OneWrite
    <3>6. CASE Len(granted) = 1
      <4>1. granted[1] = [tid |-> n.writer, req |-> "Read"]
        <5>1. granted[1] \in Request
          BY <2>6, <3>6, ElementOfSeq
        <5>2. granted[1].req = "Read" /\ granted[1].tid = n.writer
          BY <2>5, <2>6, <3>1, <3>6 DEF ReadsOnly
        <5> QED
          BY <5>1, <5>2 DEF Request
      <4>2. granted' = <<granted[1], head>>
        <5>1. granted' \in Seq(Request) /\ Len(granted') = 2
          BY <2>2, <2>4, <2>6, <3>6, AppendProperties
        <5>2. granted'[1] = granted[1] /\ granted'[2] = head
          BY <2>6, <3>6
        <5> QED
          BY <5>1, <5>2
      <4> QED
        BY <2>4, <3>1, <3>2, <4>1, <4>2 DEF OneWrite
    <3> QED
      BY <3>4, <3>5, <3>6
  <2> QED
    BY <2>2, <2>7, <2>8 DEF Request, LockRequest
<1>4. ASSUME NEW o \in RowID, ReleaseReturn(o)
      PROVE  GrantsMatchHolders'
  BY <1>4 DEF ReleaseReturn
<1>5. CASE UNCHANGED vars
  BY <1>5 DEF vars, ReadsOnly, OneWrite
<1> QED
  BY <1>1, <1>2, <1>3, <1>4, <1>5 DEF Next, LockCall, ReleaseStep

(***************************************************************************)
(* What release() returns is exact: each transaction once, with the lock   *)
(* it now has, however long the queue that was drained, although           *)
(* check_and_merge looks at vectors of length two only.                    *)
(***************************************************************************)
THEOREM ReportIsExact == Spec => GrantReportExact
<1>1. Init => GrantsMatchHolders
  BY DEF Init, GrantsMatchHolders
<1>2. TypeOK /\ GrantsMatchHolders => [\A o \in RowID : ReleaseReturn(o) => Reported(o)]_vars
  <2> SUFFICES ASSUME TypeOK, GrantsMatchHolders, NEW o \in RowID, ReleaseReturn(o)
               PROVE  Reported(o)
    OBVIOUS
  <2> DEFINE s == hash_map[o]
  <2>1. granted' = CheckAndMerge(granted) /\ (ReadsOnly(s) \/ OneWrite(s))
    BY NoRowAssumption DEF ReleaseReturn, GrantsMatchHolders
  <2>2. CASE ReadsOnly(s)
    <3>1. granted' = granted
      <4>1. granted \in Seq(Request)
        BY DEF TypeOK
      <4>2. Len(granted) = 2 => granted[1].tid # granted[2].tid
        BY <2>2, <4>1 DEF ReadsOnly
      <4> QED
        BY <2>1, <4>2 DEF CheckAndMerge
    <3> QED
      BY <2>2, <3>1 DEF Reported, ReadsOnly
  <2>3. CASE OneWrite(s)
    <3> DEFINE write == [tid |-> s.writer, req |-> "Write"]
               read  == [tid |-> s.writer, req |-> "Read"]
    <3>1. granted' = <<write>>
      <4>1. granted \in {<<write>>, <<read, write>>}
        BY <2>3 DEF OneWrite
      <4>2. CASE granted = <<write>>
        BY <2>1, <4>2 DEF CheckAndMerge
      <4>3. CASE granted = <<read, write>>
        <5>1. Len(granted) = 2 /\ granted[1].tid = granted[2].tid
          BY <4>3
        <5>2. Tail(<<read, write>>) = <<write>>
          OBVIOUS
        <5> QED
          BY <2>1, <4>3, <5>1, <5>2 DEF CheckAndMerge
      <4> QED
        BY <4>1, <4>2, <4>3
    <3> QED
      BY <3>1 DEF Reported
  <2> QED
    BY <2>1, <2>2, <2>3
<1> QED
  BY <1>1, <1>2, TypeCorrect, MutualExclusion, GrantsMatchHoldersStep, PTL
  DEF Spec, GrantReportExact

=============================================================================
