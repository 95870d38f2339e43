-------------------------- MODULE BufferManagerProofs --------------------------
(***************************************************************************)
(* Proofs about BufferManager and its disk manager, for any number of      *)
(* frames, pages, clients and contents and any bound on pins and failures. *)
(***************************************************************************)
EXTENDS BufferManager, FiniteSetTheorems, SequenceTheorems, WellFoundedInduction, TLAPS

-----------------------------------------------------------------------------
(***************************************************************************)
(* Replacement settles on one of its candidates.                           *)
(***************************************************************************)

\* A set of numbers has a least one.
LEMMA LeastNumber ==
  ASSUME NEW S \in SUBSET Nat, S # {}
  PROVE  \E x \in S : \A y \in S : x <= y
<1>1. PICK x \in S : \A y \in S : ~(<<y, x>> \in OpToRel(<, Nat))
  BY WFMin, NatLessThanWellFounded
<1>2. \A y \in S : ~(y < x)
  BY <1>1, Zenon DEF OpToRel
<1> QED
  BY <1>2

LEMMA ModuloN == \A x \in Int : x % N \in FrameID
BY NAssumption DEF FrameID

\* A number that is p times N and f more leaves f over.
LEMMA RemainderOf ==
  ASSUME NEW p \in Nat, NEW f \in FrameID
  PROVE  (N * p + f) % N = f
<1> DEFINE x == N * p + f
           q == x \div N
           r == x % N
<1>1. /\ N \in Nat /\ N > 0 /\ f \in Nat /\ f < N
      /\ N * p \in Nat
  BY NAssumption DEF FrameID
<1>2. x \in Nat
  BY <1>1
<1>3. q \in Int /\ r \in 0 .. N - 1 /\ x = N * q + r
  BY <1>1, <1>2
<1>4. N * p + f = N * q + r
  BY <1>3
<1> HIDE DEF x, q, r
<1>5. ASSUME NEW a \in Int, NEW b \in Int, a < b
      PROVE  N * a + N <= N * b
  <2>1. PICK k \in Nat : b = a + 1 + k
    <3>1. b - (a + 1) \in Nat /\ b = a + 1 + (b - (a + 1))
      BY <1>5
    <3> QED
      BY <3>1
  <2>2. N * b = N * a + N + N * k /\ N * k \in Nat
    BY <2>1, <1>1
  <2>3. N * a \in Int
    BY <1>1
  <2> QED
    BY <2>2, <2>3, <1>1
<1>6. N * p \in Int /\ N * q \in Int
  BY <1>1, <1>3
<1>7. ~(p < q)
  BY <1>1, <1>3, <1>4, <1>5, <1>6
<1>8. ~(q < p)
  BY <1>1, <1>3, <1>4, <1>5, <1>6
<1>9. p = q
  BY <1>3, <1>7, <1>8
<1>10. r = f
  BY <1>1, <1>3, <1>4, <1>6, <1>9
<1> QED
  BY <1>10 DEF x, r

\* The hand comes to every frame in each of its two rounds.
LEMMA HandComesTwice ==
  ASSUME TypeOK, NEW f \in FrameID
  PROVE  \E k \in 0 .. N - 1 : FrameAt(k) = f /\ FrameAt(k + N) = f
<1> DEFINE h == clock_hand
<1>1. /\ N \in Nat /\ N > 0 /\ f \in Nat /\ f < N /\ h \in Nat /\ h < N
  BY NAssumption DEF TypeOK, FrameID
<1>2. (N * 0 + f) % N = f /\ (N * 1 + f) % N = f /\ (N * 2 + f) % N = f
  BY RemainderOf
<1>3. N * 0 + f = f /\ N * 1 + f = N + f /\ N * 2 + f = N + N + f
  BY <1>1
<1>4. f % N = f /\ (N + f) % N = f /\ (N + N + f) % N = f
  BY <1>2, <1>3
<1>5. CASE h <= f
  <2>1. f - h \in 0 .. N - 1 /\ h + (f - h) = f /\ h + (f - h + N) = N + f
    BY <1>1, <1>5
  <2> QED
    BY <1>4, <2>1 DEF FrameAt
<1>6. CASE f < h
  <2>1. /\ f + N - h \in 0 .. N - 1
        /\ h + (f + N - h) = N + f
        /\ h + (f + N - h + N) = N + N + f
    BY <1>1, <1>6
  <2> QED
    BY <1>4, <2>1 DEF FrameAt
<1> QED
  BY <1>1, <1>5, <1>6

\* The loop of CLOCK stops when some frame is not pinned, in the second round at the latest.
LEMMA ClockStops ==
  ASSUME TypeOK, NEW f \in Unpinned
  PROVE  Stops # {}
<1>1. f \in FrameID
  BY DEF Unpinned
<1>2. PICK k \in 0 .. N - 1 : FrameAt(k) = f /\ FrameAt(k + N) = f
  BY <1>1, HandComesTwice
<1>3. /\ k + N \in 0 .. Rounds * N - 1
      /\ k \in 0 .. (k + N) - 1
  BY NAssumption DEF Rounds
<1>4. StopsAt(k + N)
  BY <1>2, <1>3 DEF StopsAt
<1> QED
  BY <1>3, <1>4 DEF Stops

\* What the loop looks at is a frame, and where it stops an unpinned one.
LEMMA StopIsUnpinned ==
  ASSUME TypeOK, NEW i \in Stops
  PROVE  FrameAt(i) \in Unpinned
BY DEF Stops, StopsAt

LEMMA FirstStopIsFirst ==
  ASSUME Stops # {}
  PROVE  FirstStop \in Stops /\ \A j \in Stops : FirstStop <= j
<1>1. Stops \in SUBSET Nat
  BY NAssumption DEF Stops, Rounds
<1>2. \E i \in Stops : \A j \in Stops : i <= j
  BY <1>1, LeastNumber
<1> QED
  BY <1>2 DEF FirstStop

\* Replacement settles on a candidate, LRU on the least in time and position.
LEMMA VictimIsLeast ==
  ASSUME TypeOK, Candidates # {}
  PROVE  /\ Victim \in Candidates
         /\ strategy = "LRU" => \A g \in Candidates : Before(Victim, g)
<1>1. CASE strategy = "LRU"
  <2>0. Candidates \subseteq Unpinned /\ Unpinned \subseteq FrameID
    BY <1>1 DEF Candidates, Unpinned
  <2>1. \E f \in Candidates : \A g \in Candidates : Before(f, g)
    <3> DEFINE time(f) == frame_descriptors[f].time
    <3>1. \A f \in Candidates : f \in Nat /\ time(f) \in Nat
      BY <2>0 DEF TypeOK, FrameDescriptor, FrameID
    <3> HIDE DEF time
    <3>2. PICK m \in {time(f) : f \in Candidates} :
            \A n \in {time(f) : f \in Candidates} : m <= n
      <4> DEFINE S == {time(f) : f \in Candidates}
      <4>1. S \in SUBSET Nat /\ S # {}
        BY <3>1
      <4> QED
        BY <4>1, LeastNumber
    <3>3. PICK f \in {g \in Candidates : time(g) = m} :
            \A h \in {g \in Candidates : time(g) = m} : f <= h
      <4> DEFINE S == {g \in Candidates : time(g) = m}
      <4>1. S \in SUBSET Nat /\ S # {}
        BY <3>1, <3>2
      <4> QED
        BY <4>1, LeastNumber
    <3>4. \A g \in Candidates : time(f) < time(g) \/ (time(f) = time(g) /\ f <= g)
      BY <3>1, <3>2, <3>3
    <3> QED
      BY <3>3, <3>4 DEF Before, time
  <2> QED
    BY <1>1, <2>1 DEF Victim
<1>2. CASE strategy # "LRU"
  <2>1. Stops # {}
    BY <1>2 DEF Candidates
  <2> QED
    BY <1>2, <2>1, FirstStopIsFirst DEF Candidates, Victim
<1> QED
  BY <1>1, <1>2

LEMMA VictimIsUnpinned ==
  ASSUME TypeOK, Candidates # {}
  PROVE  Victim \in FrameID /\ frame_descriptors[Victim].pin_count = 0
<1>1. Victim \in Candidates
  BY VictimIsLeast
<1>2. \A i \in Stops : FrameAt(i) \in Unpinned
  BY StopIsUnpinned
<1> QED
  BY <1>1, <1>2 DEF Candidates, Unpinned

(***************************************************************************)
(* The calls on descriptors keep them descriptors, and the sweep of the    *)
(* clock changes reference bits only.                                      *)
(***************************************************************************)
LEMMA PinnedType ==
  ASSUME TypeOK, NEW d \in FrameDescriptor
  PROVE  /\ Pinned(d) \in FrameDescriptor
         /\ Pinned(d).page_id = d.page_id
         /\ Pinned(d).pin_count = d.pin_count + 1
         /\ Pinned(d).dirty = d.dirty
         /\ Pinned(d).time = IF strategy = "LRU" THEN global_time ELSE d.time
<1> DEFINE time == IF strategy = "LRU" THEN global_time ELSE d.time
           bit  == d.clock_bit \/ strategy = "CLOCK"
<1>1. d.page_id \in Nat /\ d.pin_count + 1 \in Nat /\ d.dirty \in BOOLEAN
  BY DEF FrameDescriptor
<1>2. time \in Nat
  BY BoundsAssumption DEF TypeOK, FrameDescriptor
<1>3. bit \in BOOLEAN
  OBVIOUS
<1>4. Pinned(d) = [d EXCEPT !.pin_count = d.pin_count + 1, !.time = time, !.clock_bit = bit]
  BY DEF Pinned
<1> HIDE DEF time, bit
<1>5. /\ Pinned(d) \in FrameDescriptor
      /\ Pinned(d).page_id = d.page_id
      /\ Pinned(d).pin_count = d.pin_count + 1
      /\ Pinned(d).dirty = d.dirty
      /\ Pinned(d).time = time
  BY <1>1, <1>2, <1>3, <1>4 DEF FrameDescriptor
<1> QED
  BY <1>5 DEF time

LEMMA LoadedType ==
  ASSUME TypeOK, NEW d \in FrameDescriptor, NEW p \in PageID
  PROVE  /\ Loaded(d, p) \in FrameDescriptor
         /\ Loaded(d, p).page_id = p
         /\ Loaded(d, p).pin_count = d.pin_count + 1
         /\ Loaded(d, p).dirty = FALSE
         /\ Loaded(d, p).time = IF strategy = "LRU" THEN global_time ELSE d.time
<1> DEFINE e == [d EXCEPT !.dirty = FALSE, !.page_id = p]
<1>0. p \in Nat
  BY MaxPageAssumption DEF PageID
<1>1. /\ e \in FrameDescriptor
      /\ e.page_id = p /\ e.pin_count = d.pin_count /\ e.dirty = FALSE /\ e.time = d.time
  BY <1>0 DEF FrameDescriptor
<1>2. Loaded(d, p) = Pinned(e)
  BY DEF Loaded
<1> HIDE DEF e
<1> QED
  BY <1>1, <1>2, PinnedType

LEMMA UnpinningType ==
  ASSUME TypeOK, NEW c \in Client, NEW d \in FrameDescriptor
  PROVE  /\ Unpinning(c, d) \in FrameDescriptor
         /\ Unpinning(c, d).page_id = d.page_id
         /\ Unpinning(c, d).time = d.time
         /\ Unpinning(c, d).pin_count = IF d.pin_count > 0 THEN d.pin_count - 1 ELSE 0
         /\ Unpinning(c, d).dirty = (wrote[c] \/ (KeepDirty /\ d.dirty))
<1> DEFINE dirty == wrote[c] \/ (KeepDirty /\ d.dirty)
           count == IF d.pin_count > 0 THEN d.pin_count - 1 ELSE 0
<1>1. dirty \in BOOLEAN
  OBVIOUS
<1>2. count \in Nat
  BY DEF FrameDescriptor
<1>3. Unpinning(c, d) = [d EXCEPT !.dirty = dirty, !.pin_count = count]
  BY DEF Unpinning
<1> HIDE DEF dirty, count
<1>4. /\ Unpinning(c, d) \in FrameDescriptor
      /\ Unpinning(c, d).page_id = d.page_id
      /\ Unpinning(c, d).time = d.time
      /\ Unpinning(c, d).pin_count = count
      /\ Unpinning(c, d).dirty = dirty
  BY <1>1, <1>2, <1>3 DEF FrameDescriptor
<1> QED
  BY <1>4 DEF dirty, count

LEMMA DescriptorsType ==
  ASSUME TypeOK
  PROVE  /\ Descriptors \in [FrameID -> FrameDescriptor]
         /\ \A f \in FrameID :
              /\ Descriptors[f].page_id = frame_descriptors[f].page_id
              /\ Descriptors[f].pin_count = frame_descriptors[f].pin_count
              /\ Descriptors[f].dirty = frame_descriptors[f].dirty
              /\ Descriptors[f].time = frame_descriptors[f].time
<1>1. ASSUME NEW f \in FrameID
      PROVE  [frame_descriptors[f] EXCEPT !.clock_bit = FALSE] \in FrameDescriptor
  BY DEF TypeOK, FrameDescriptor
<1> QED
  BY <1>1 DEF TypeOK, Descriptors, FrameDescriptor

-----------------------------------------------------------------------------
(***************************************************************************)
(* Type correctness.  Beside the types: a descriptor names a page that can *)
(* exist, or none, and the clock of LRU counts successful pins.            *)
(***************************************************************************)
Bounded ==
  /\ \A f \in FrameID : frame_descriptors[f].page_id \in 0 .. MaxPage
  /\ global_time <= pins

LEMMA ReplaceType ==
  ASSUME TypeOK, Bounded, Replace
  PROVE  /\ last_evict' \in 0 .. MaxPage
         /\ clock_hand' \in FrameID
         /\ buffer_count' = buffer_count
         /\ Victim \in FrameID
<1>1. Candidates # {}
  BY DEF Replace
<1>2. Victim \in FrameID
  BY <1>1, VictimIsUnpinned
<1>3. (Victim + 1) % N \in FrameID
  BY <1>2, ModuloN DEF FrameID
<1> QED
  BY <1>2, <1>3 DEF Replace, VictimPage, TypeOK, Bounded

LEMMA ClaimType ==
  ASSUME TypeOK, Bounded, NEW p \in PageID, NEW f \in FrameID, Claim(p, f)
  PROVE  /\ buffer_count' \in 0 .. N
         /\ DOMAIN page_table' \subseteq PageID
         /\ \A q \in DOMAIN page_table' : page_table'[q] \in FrameID
         /\ last_evict' \in 0 .. MaxPage
         /\ clock_hand' \in FrameID
         /\ UNCHANGED <<strategy, next_free, free_list, handed, unwritten, panicked>>
<1>1. CASE ClaimUnused(p, f)
  <2>1. /\ DOMAIN page_table' = DOMAIN page_table \cup {p}
        /\ page_table'[p] = f
        /\ \A q \in DOMAIN page_table : q # p => page_table'[q] = page_table[q]
    BY <1>1 DEF ClaimUnused, Mapping
  <2> QED
    BY <1>1, <2>1, NAssumption DEF Claim, ClaimUnused, TypeOK
<1>2. CASE ClaimVictim(p, f)
  <2> DEFINE T == [q \in DOMAIN page_table \ {VictimPage} |-> page_table[q]]
  <2>1. Replace /\ page_table' = Mapping(T, p, f)
    BY <1>2 DEF ClaimVictim
  <2>2. /\ DOMAIN T \subseteq PageID
        /\ \A q \in DOMAIN T : T[q] \in FrameID
    BY DEF TypeOK
  <2> HIDE DEF T
  <2>3. /\ DOMAIN page_table' = DOMAIN T \cup {p}
        /\ page_table'[p] = f
        /\ \A q \in DOMAIN T : q # p => page_table'[q] = T[q]
    BY <2>1 DEF Mapping
  <2>4. /\ last_evict' \in 0 .. MaxPage
        /\ clock_hand' \in FrameID
        /\ buffer_count' = buffer_count
    BY <2>1, ReplaceType
  <2> QED
    BY <2>2, <2>3, <2>4 DEF Claim, TypeOK
<1> QED
  BY <1>1, <1>2 DEF Claim

LEMMA WriteBackType ==
  ASSUME TypeOK, NEW f \in FrameID, WriteBack(f)
  PROVE  file' \in [PageID -> Content]
BY DEF TypeOK, DiskTypeOK, WriteBack

LEMMA ReadType ==
  ASSUME TypeOK, NEW f \in FrameID, NEW stored \in Content, NEW read \in ReadInto(stored, pool[f])
  PROVE  [pool EXCEPT ![f] = read] \in [FrameID -> Content]
BY BlankAssumption DEF TypeOK, ReadInto

LEMMA OrderType ==
  ASSUME TypeOK, NEW p \in PageID, DOMAIN page_table' \subseteq PageID
  PROVE  /\ Refreshed(p) \subseteq PageID \X PageID
         /\ OrderOf(DOMAIN page_table') \subseteq PageID \X PageID
BY DEF TypeOK, Refreshed, OrderOf

LEMMA PinCountType ==
  ASSUME TypeOK, Bounded, NEW c \in Client, NEW p \in PageID, CanPin(c)
  PROVE  /\ pins + 1 \in 0 .. MaxPins
         /\ global_time + 1 \in 0 .. MaxPins
         /\ global_time + 1 <= pins + 1
         /\ Hold(c, p) => held' \in [Client -> PageID \cup {NoPage}]
BY BoundsAssumption DEF TypeOK, Bounded, CanPin, Hold

LEMMA PinHitType ==
  ASSUME TypeOK, Bounded, NEW c \in Client, NEW p \in PageID, PinHit(c, p)
  PROVE  TypeOK' /\ Bounded'
<1> DEFINE f == page_table[p]
           d == frame_descriptors[f]
<1>1. f \in FrameID /\ d \in FrameDescriptor
  BY DEF PinHit, TypeOK
<1>2. Pinned(d) \in FrameDescriptor /\ Pinned(d).page_id = d.page_id
  BY <1>1, PinnedType
<1>3. frame_descriptors' = [frame_descriptors EXCEPT ![f] = Pinned(d)]
  BY DEF PinHit
<1> HIDE DEF f, d
<1>4. /\ frame_descriptors' \in [FrameID -> FrameDescriptor]
      /\ \A g \in FrameID : frame_descriptors'[g].page_id \in 0 .. MaxPage
  BY <1>1, <1>2, <1>3 DEF TypeOK, Bounded, d
<1>5. /\ global_time' \in 0 .. MaxPins /\ pins' \in 0 .. MaxPins /\ global_time' <= pins'
      /\ held' \in [Client -> PageID \cup {NoPage}]
  BY PinCountType DEF PinHit, Tick, Hold, TypeOK, Bounded
<1>6. older' \subseteq PageID \X PageID
  BY OrderType DEF PinHit, TypeOK
<1> QED
  BY <1>4, <1>5, <1>6 DEF PinHit, Hold, diskVars, TypeOK, DiskTypeOK, Bounded

LEMMA PinMissType ==
  ASSUME TypeOK, Bounded, NEW c \in Client, NEW p \in PageID, PinMiss(c, p)
  PROVE  TypeOK' /\ Bounded'
<1>1. PICK f \in FrameID :
        /\ Claim(p, f)
        /\ Valid(p)
        /\ WriteBack(f)
        /\ \E read \in ReadInto(file'[p], pool[f]) : pool' = [pool EXCEPT ![f] = read]
        /\ frame_descriptors' = [Descriptors EXCEPT ![f] = Loaded(@, p)]
  BY DEF PinMiss
<1>2. /\ buffer_count' \in 0 .. N
      /\ DOMAIN page_table' \subseteq PageID
      /\ \A q \in DOMAIN page_table' : page_table'[q] \in FrameID
      /\ last_evict' \in 0 .. MaxPage
      /\ clock_hand' \in FrameID
      /\ UNCHANGED <<strategy, next_free, free_list, handed, unwritten, panicked>>
  BY <1>1, ClaimType
<1>3. file' \in [PageID -> Content]
  BY <1>1, WriteBackType
<1>4. pool' \in [FrameID -> Content]
  BY <1>1, <1>3, ReadType
<1>5. /\ frame_descriptors' \in [FrameID -> FrameDescriptor]
      /\ \A g \in FrameID : frame_descriptors'[g].page_id \in 0 .. MaxPage
  <2> DEFINE d == Descriptors[f]
  <2>1. d \in FrameDescriptor
    BY DescriptorsType
  <2>2. Loaded(d, p) \in FrameDescriptor /\ Loaded(d, p).page_id = p
    BY <2>1, LoadedType
  <2>3. frame_descriptors' = [Descriptors EXCEPT ![f] = Loaded(d, p)]
    BY <1>1
  <2>4. p \in 0 .. MaxPage
    BY MaxPageAssumption DEF PageID
  <2> HIDE DEF d
  <2> QED
    BY <2>2, <2>3, <2>4, DescriptorsType DEF Bounded
<1>6. /\ global_time' \in 0 .. MaxPins /\ pins' \in 0 .. MaxPins /\ global_time' <= pins'
      /\ held' \in [Client -> PageID \cup {NoPage}]
  BY PinCountType DEF PinMiss, Tick, Hold, TypeOK, Bounded
<1>7. older' \subseteq PageID \X PageID
  BY <1>2, OrderType DEF PinMiss
<1> QED
  BY <1>2, <1>3, <1>4, <1>5, <1>6, <1>7 DEF PinMiss, Hold, TypeOK, DiskTypeOK, Bounded

\* A pin that fails has claimed its frame, and changed no more than bits of descriptors.
LEMMA FailedType ==
  ASSUME TypeOK, Bounded, NEW c \in Client, NEW p \in PageID, CanPin(c), Failed,
         NEW f \in FrameID, Claim(p, f),
         file' \in [PageID -> Content],
         frame_descriptors' \in [FrameID -> FrameDescriptor],
         \A g \in FrameID : frame_descriptors'[g].page_id = frame_descriptors[g].page_id
  PROVE  TypeOK' /\ Bounded'
<1>1. /\ buffer_count' \in 0 .. N
      /\ DOMAIN page_table' \subseteq PageID
      /\ \A q \in DOMAIN page_table' : page_table'[q] \in FrameID
      /\ last_evict' \in 0 .. MaxPage
      /\ clock_hand' \in FrameID
      /\ UNCHANGED <<strategy, next_free, free_list, handed, unwritten, panicked>>
  BY ClaimType
<1>2. /\ global_time' \in 0 .. MaxPins /\ pins' \in 0 .. MaxPins /\ global_time' <= pins'
  BY BoundsAssumption, PinCountType DEF Failed, TypeOK, Bounded
<1>3. failures' \in 0 .. MaxFailures
  BY BoundsAssumption DEF Failed, TypeOK
<1>4. older' \subseteq PageID \X PageID
  BY <1>1, OrderType DEF Failed
<1> QED
  BY <1>1, <1>2, <1>3, <1>4 DEF Failed, clientVars, TypeOK, DiskTypeOK, Bounded

LEMMA PinFailsType ==
  ASSUME TypeOK, Bounded, NEW c \in Client, NEW p \in PageID,
         PinWriteFails(c, p) \/ PinReadFails(c, p)
  PROVE  TypeOK' /\ Bounded'
<1>1. CASE PinWriteFails(c, p)
  <2>1. PICK f \in FrameID : Claim(p, f)
    BY <1>1 DEF PinWriteFails
  <2>2. frame_descriptors' = Descriptors /\ file' = file
    BY <1>1 DEF PinWriteFails
  <2>3. file' \in [PageID -> Content]
    BY <2>2 DEF TypeOK, DiskTypeOK
  <2> QED
    BY <1>1, <2>1, <2>2, <2>3, DescriptorsType, FailedType DEF PinWriteFails
<1>2. CASE PinReadFails(c, p)
  <2>1. PICK f \in FrameID : /\ Claim(p, f)
                             /\ WriteBack(f)
                             /\ frame_descriptors' = [Descriptors EXCEPT ![f].dirty = FALSE]
    BY <1>2 DEF PinReadFails
  <2>2. /\ frame_descriptors' \in [FrameID -> FrameDescriptor]
        /\ \A g \in FrameID : frame_descriptors'[g].page_id = frame_descriptors[g].page_id
    BY <2>1, DescriptorsType DEF FrameDescriptor
  <2>3. file' \in [PageID -> Content]
    BY <2>1, WriteBackType
  <2> QED
    BY <1>2, <2>1, <2>2, <2>3, FailedType DEF PinReadFails
<1> QED
  BY <1>1, <1>2

LEMMA PinPanicsType ==
  ASSUME TypeOK, Bounded, NEW c \in Client, NEW p \in PageID, PinPanics(c, p)
  PROVE  TypeOK' /\ Bounded'
<1>1. /\ last_evict' \in 0 .. MaxPage
      /\ clock_hand' \in FrameID
      /\ buffer_count' = buffer_count
  BY ReplaceType DEF PinPanics
<1> QED
  BY <1>1, DescriptorsType DEF PinPanics, diskVars, clientVars, TypeOK, DiskTypeOK, Bounded

LEMMA ModifyType ==
  ASSUME TypeOK, Bounded, NEW c \in Client, NEW v \in Content, Modify(c, v)
  PROVE  TypeOK' /\ Bounded'
<1>1. page_table[held[c]] \in FrameID /\ held[c] \in PageID
  BY DEF Modify, TypeOK
<1> QED
  BY <1>1 DEF Modify, diskVars, TypeOK, DiskTypeOK, Bounded

LEMMA UnpinType ==
  ASSUME TypeOK, Bounded, NEW c \in Client, Unpin(c)
  PROVE  TypeOK' /\ Bounded'
<1>1. CASE held[c] \in DOMAIN page_table
  <2> DEFINE f == page_table[held[c]]
             d == frame_descriptors[f]
  <2>1. f \in FrameID /\ d \in FrameDescriptor
    BY <1>1 DEF TypeOK
  <2>2. Unpinning(c, d) \in FrameDescriptor /\ Unpinning(c, d).page_id = d.page_id
    BY <2>1, UnpinningType
  <2>3. frame_descriptors' = [frame_descriptors EXCEPT ![f] = Unpinning(c, d)]
    BY <1>1 DEF Unpin
  <2> HIDE DEF f, d
  <2>4. /\ frame_descriptors' \in [FrameID -> FrameDescriptor]
        /\ \A g \in FrameID : frame_descriptors'[g].page_id \in 0 .. MaxPage
    BY <2>1, <2>2, <2>3 DEF TypeOK, Bounded, d
  <2>5. /\ held' \in [Client -> PageID \cup {NoPage}]
        /\ wrote' \in [Client -> BOOLEAN]
        /\ panicked' = panicked
    BY <1>1 DEF Unpin, TypeOK
  <2> QED
    BY <2>4, <2>5 DEF Unpin, diskVars, TypeOK, DiskTypeOK, Bounded
<1>2. CASE held[c] \notin DOMAIN page_table
  BY <1>2 DEF Unpin, diskVars, TypeOK, DiskTypeOK, Bounded
<1> QED
  BY <1>1, <1>2

LEMMA AllocateType ==
  ASSUME DiskTypeOK, NEW p \in PageID, Allocate(p)
  PROVE  DiskTypeOK'
<1>0. handed' \subseteq PageID
  BY DEF Allocate, DiskTypeOK
<1>1. CASE AllocateFreed(p)
  <2>1. Tail(free_list) \in Seq(PageID)
    BY <1>1, HeadTailProperties DEF AllocateFreed, DiskTypeOK
  <2> QED
    BY <1>0, <1>1, <2>1 DEF AllocateFreed, DiskTypeOK
<1>2. CASE AllocateNew(p)
  BY <1>0, <1>2, MaxPageAssumption DEF AllocateNew, DiskTypeOK, PageID
<1> QED
  BY <1>1, <1>2 DEF Allocate

LEMMA FreeType ==
  ASSUME DiskTypeOK, NEW p \in PageID, Free(p)
  PROVE  DiskTypeOK'
<1>1. Append(free_list, p) \in Seq(PageID)
  BY AppendProperties DEF DiskTypeOK
<1> QED
  BY <1>1 DEF Free, DiskTypeOK

LEMMA TypeInit == Init => TypeOK /\ Bounded
<1> SUFFICES ASSUME Init PROVE TypeOK /\ Bounded
  OBVIOUS
<1>1. DiskTypeOK
  BY MaxPageAssumption, BlankAssumption, EmptySeq DEF Init, DiskInit, DiskTypeOK, PageID
<1>2. DefaultDescriptor \in FrameDescriptor /\ DefaultDescriptor.page_id = 0
  BY DEF DefaultDescriptor, FrameDescriptor
<1>3. DOMAIN page_table = {}
  BY DEF Init
<1>4. 0 \in FrameID
  BY NAssumption DEF FrameID
<1>5. 0 \in 0 .. N /\ 0 \in 0 .. MaxPage /\ 0 \in 0 .. MaxPins /\ 0 \in 0 .. MaxFailures
  BY NAssumption, MaxPageAssumption, BoundsAssumption
<1>6. /\ frame_descriptors \in [FrameID -> FrameDescriptor]
      /\ \A f \in FrameID : frame_descriptors[f].page_id = 0
      /\ pool \in [FrameID -> Content]
      /\ held \in [Client -> PageID \cup {NoPage}]
      /\ wrote \in [Client -> BOOLEAN]
      /\ latest \in [PageID -> Content]
  BY <1>2, BlankAssumption DEF Init
<1>7. TypeOK
  BY <1>1, <1>3, <1>4, <1>5, <1>6 DEF Init, TypeOK
<1>8. Bounded
  BY <1>5, <1>6 DEF Init, Bounded
<1> QED
  BY <1>7, <1>8

LEMMA TypeStep == TypeOK /\ Bounded /\ [Next]_vars => TypeOK' /\ Bounded'
<1> SUFFICES ASSUME TypeOK, Bounded, [Next]_vars PROVE TypeOK' /\ Bounded'
  OBVIOUS
<1>1. ASSUME NEW c \in Client, NEW p \in PageID, Pin(c, p)
      PROVE  TypeOK' /\ Bounded'
  BY <1>1, PinHitType, PinMissType, PinFailsType, PinPanicsType DEF Pin
<1>2. ASSUME NEW c \in Client, NEW v \in Content, Modify(c, v)
      PROVE  TypeOK' /\ Bounded'
  BY <1>2, ModifyType
<1>3. ASSUME NEW c \in Client, Unpin(c)
      PROVE  TypeOK' /\ Bounded'
  BY <1>3, UnpinType
<1>4. ASSUME NEW p \in PageID, AllocatePage(p)
      PROVE  TypeOK' /\ Bounded'
  <2>1. DiskTypeOK'
    BY <1>4, AllocateType DEF AllocatePage, TypeOK
  <2> QED
    BY <1>4, <2>1 DEF AllocatePage, managerVars, clientVars, historyVars, TypeOK, Bounded
<1>5. ASSUME NEW p \in PageID, FreePage(p)
      PROVE  TypeOK' /\ Bounded'
  <2>1. DiskTypeOK'
    BY <1>5, FreeType DEF FreePage, TypeOK
  <2> QED
    BY <1>5, <2>1, BlankAssumption DEF FreePage, managerVars, historyVars, TypeOK, Bounded
<1>6. CASE UNCHANGED vars
  BY <1>6 DEF vars, diskVars, managerVars, clientVars, historyVars, TypeOK, DiskTypeOK, Bounded
<1> QED
  BY <1>1, <1>2, <1>3, <1>4, <1>5, <1>6 DEF Next

(***************************************************************************)
(* Every reachable state is well formed, failed pins included: the victim  *)
(* of replacement is a frame of the pool whatever the reference bits and   *)
(* times are, and the clock hand stays inside it.                          *)
(***************************************************************************)
THEOREM TypeCorrect == Spec => []TypeOK
<1>1. Spec => [](TypeOK /\ Bounded)
  BY TypeInit, TypeStep, PTL DEF Spec
<1> QED
  BY <1>1, PTL

-----------------------------------------------------------------------------
(***************************************************************************)
(* The free list of the disk manager: what the buffer manager does leaves  *)
(* it alone, and allocate and free keep it exact.                          *)
(***************************************************************************)
LEMMA OnlyOwnersTouchTheList ==
  ASSUME [Next]_vars
  PROVE  \/ UNCHANGED <<next_free, free_list, handed>>
         \/ \E p \in PageID : Allocate(p) \/ Free(p)
<1>1. ASSUME NEW c \in Client, NEW p \in PageID, Pin(c, p)
      PROVE  UNCHANGED <<next_free, free_list, handed>>
  BY <1>1 DEF Pin, PinHit, PinMiss, PinWriteFails, PinReadFails, PinPanics, Claim, diskVars
<1> QED
  BY <1>1 DEF Next, Modify, Unpin, AllocatePage, FreePage, vars, diskVars

LEMMA FreeListStep == DiskTypeOK /\ FreeListExact /\ [Next]_vars => FreeListExact'
<1> SUFFICES ASSUME DiskTypeOK, FreeListExact, [Next]_vars PROVE FreeListExact'
  OBVIOUS
<1>1. DOMAIN free_list = 1 .. Len(free_list) /\ Len(free_list) \in Nat /\ next_free \in Nat
  BY MaxPageAssumption DEF DiskTypeOK
<1>2. ASSUME NEW p \in PageID, Allocate(p), AllocateFreed(p)
      PROVE  FreeListExact'
  <2>1. /\ Tail(free_list) \in Seq(PageID)
        /\ Len(Tail(free_list)) = Len(free_list) - 1
        /\ \A i \in 1 .. Len(Tail(free_list)) : Tail(free_list)[i] = free_list[i + 1]
    BY <1>2, HeadTailProperties DEF AllocateFreed, DiskTypeOK
  <2>2. DOMAIN free_list' = 1 .. Len(free_list) - 1
    BY <1>2, <2>1 DEF AllocateFreed
  <2>3. \A i \in DOMAIN free_list' : i + 1 \in DOMAIN free_list /\ free_list'[i] = free_list[i + 1]
    BY <1>1, <1>2, <2>1, <2>2 DEF AllocateFreed
  <2>4. \A i \in DOMAIN free_list' : i \in Nat /\ i + 1 # 1
    BY <2>2
  <2>5. \A i, j \in DOMAIN free_list' : free_list'[i] = free_list'[j] => i = j
    BY <2>3, <2>4 DEF FreeListExact
  <2>6. Freed' = Freed \ {p}
    <3>1. p = free_list[1] /\ 1 \in DOMAIN free_list
      BY <1>1, <1>2 DEF AllocateFreed, DiskTypeOK
    <3>2. \A i \in DOMAIN free_list : i = 1 \/ i - 1 \in DOMAIN free_list'
      BY <1>1, <2>2
    <3>3. \A i \in DOMAIN free_list : i # 1 => free_list[i] = free_list'[i - 1]
      BY <1>1, <2>3, <3>2
    <3>4. \A i \in DOMAIN free_list' : free_list'[i] # p
      BY <2>3, <2>4, <3>1 DEF FreeListExact
    <3>5. \A q \in Freed' : q \in Freed /\ q # p
      BY <2>3, <3>4 DEF Freed
    <3>6. \A q \in Freed : q # p => q \in Freed'
      BY <3>1, <3>2, <3>3 DEF Freed
    <3>7. p \notin Freed'
      BY <3>4 DEF Freed
    <3> QED
      BY <3>5, <3>6, <3>7
  <2>7. p \in Freed
    BY <1>1, <1>2 DEF AllocateFreed, DiskTypeOK, Freed
  <2>8. next_free' = next_free /\ handed' = handed \cup {p}
    BY <1>2 DEF AllocateFreed, Allocate
  <2> QED
    BY <2>5, <2>6, <2>7, <2>8 DEF FreeListExact, Valid
<1>3. ASSUME NEW p \in PageID, Allocate(p), AllocateNew(p)
      PROVE  FreeListExact'
  <2>1. /\ next_free' = next_free + 1 /\ p = next_free
        /\ free_list' = free_list /\ Freed' = Freed
        /\ handed' = handed \cup {p}
    BY <1>3 DEF AllocateNew, Allocate, Freed
  <2>2. p # 0 /\ p \notin Freed
    <3>1. p # 0
      BY <2>1, MaxPageAssumption DEF DiskTypeOK
    <3>2. \A q \in Freed : q < next_free
      BY DEF FreeListExact
    <3> QED
      BY <1>1, <2>1, <3>1, <3>2
  <2>3. \A q \in PageID : q \in Nat
    BY MaxPageAssumption DEF PageID
  <2>4. \A q \in PageID : q < next_free + 1 <=> q < next_free \/ q = p
    BY <1>1, <2>1, <2>3
  <2>5. \A q \in Freed : q < next_free + 1
    <3>1. \A q \in Freed : q \in PageID
      BY DEF Freed, DiskTypeOK
    <3> QED
      BY <2>4, <3>1 DEF FreeListExact
  <2> QED
    BY <2>1, <2>2, <2>4, <2>5 DEF FreeListExact, Valid
<1>4. ASSUME NEW p \in PageID, Free(p)
      PROVE  FreeListExact'
  <2>1. /\ free_list' \in Seq(PageID)
        /\ Len(free_list') = Len(free_list) + 1
        /\ \A i \in 1 .. Len(free_list) : free_list'[i] = free_list[i]
        /\ free_list'[Len(free_list) + 1] = p
    BY <1>4, AppendProperties DEF Free, DiskTypeOK
  <2>2. \A i \in DOMAIN free_list' : i \in DOMAIN free_list \/ i = Len(free_list) + 1
    BY <1>1, <2>1
  <2>3. /\ next_free' = next_free /\ p < next_free
        /\ \A i \in DOMAIN free_list : free_list[i] # p
    BY <1>4 DEF Free, Valid, Freed
  <2>4. \A i, j \in DOMAIN free_list' : free_list'[i] = free_list'[j] => i = j
    BY <1>1, <2>1, <2>2, <2>3 DEF FreeListExact
  <2>5. Freed' = Freed \cup {p}
    <3>1. \A i \in DOMAIN free_list : i \in DOMAIN free_list' /\ free_list'[i] = free_list[i]
      BY <1>1, <2>1
    <3>2. Len(free_list) + 1 \in DOMAIN free_list'
      BY <1>1, <2>1
    <3> QED
      BY <2>1, <2>2, <3>1, <3>2 DEF Freed
  <2>6. handed' = handed \ {p}
    BY <1>4 DEF Free
  <2>7. \A q \in Freed' : q < next_free'
    BY <2>3, <2>5 DEF FreeListExact
  <2> QED
    BY <2>3, <2>4, <2>5, <2>6, <2>7 DEF FreeListExact, Valid
<1>5. CASE UNCHANGED <<next_free, free_list, handed>>
  BY <1>5 DEF FreeListExact, Freed, Valid
<1> QED
  BY <1>2, <1>3, <1>4, <1>5, OnlyOwnersTouchTheList DEF Allocate

(***************************************************************************)
(* No page is handed out to two owners: the pages that may be freed, read  *)
(* and written are those that allocate gave to somebody, and the free list *)
(* holds each page at most once.  PageID(0) is the exception the property  *)
(* names: it passes the check of free before allocate has given it to      *)
(* anybody.                                                                *)
(***************************************************************************)
THEOREM FreeListIsExact == Spec => []FreeListExact
<1>1. Init => FreeListExact
  <2> SUFFICES ASSUME Init PROVE FreeListExact
    OBVIOUS
  <2>1. next_free = 1 /\ free_list = <<>> /\ handed = {}
    BY DEF Init, DiskInit
  <2>2. DOMAIN free_list = {} /\ Freed = {}
    BY <2>1 DEF Freed
  <2>3. \A p \in PageID : p < 1 <=> p = 0
    BY MaxPageAssumption DEF PageID
  <2> QED
    BY <2>1, <2>2, <2>3 DEF FreeListExact, Valid
<1>2. TypeOK => DiskTypeOK
  BY DEF TypeOK
<1> QED
  BY <1>1, <1>2, TypeCorrect, FreeListStep, PTL DEF Spec

-----------------------------------------------------------------------------
(***************************************************************************)
(* Bookkeeping.  TableAgrees and PinsExact are inductive only together,    *)
(* and beside the state of the frames that were never used: replacement    *)
(* goes from a frame to its page and back to a frame through the table,    *)
(* and the pin counts are what keeps a held page in it.                    *)
(***************************************************************************)
Fresh ==
  failures = 0 =>
    \A f \in FrameID : f >= buffer_count =>
      frame_descriptors[f].pin_count = 0 /\ ~frame_descriptors[f].dirty

Books == TableAgrees /\ PinsExact /\ Fresh

Holders(p) == {c \in Client : held[c] = p}

LEMMA HoldersFinite == \A p : IsFiniteSet(Holders(p)) /\ Cardinality(Holders(p)) \in Nat
<1>1. \A p : Holders(p) \subseteq Client
  BY DEF Holders
<1> QED
  BY <1>1, ClientAssumption, FS_Subset, FS_CardinalityType

\* Frame f is free for page p: no client holds the page that loses it.
LEMMA ClaimExact ==
  ASSUME TypeOK, Books, failures = 0,
         NEW p \in PageID, NEW f \in FrameID, Claim(p, f)
  PROVE  /\ p \notin DOMAIN page_table
         /\ frame_descriptors[f].pin_count = 0
         /\ page_table'[p] = f
         /\ DOMAIN page_table' = {q \in DOMAIN page_table : page_table[q] # f} \cup {p}
         /\ \A q \in DOMAIN page_table : page_table[q] # f => page_table'[q] = page_table[q]
         /\ \A q \in DOMAIN page_table : page_table[q] = f => Holders(q) = {}
         /\ \A g \in FrameID : g < buffer_count' <=> (g < buffer_count \/ g = f)
         /\ \A g \in FrameID : g >= buffer_count' => g >= buffer_count /\ g # f
<1>1. p \notin DOMAIN page_table
  BY DEF Claim
<1>2. CASE ClaimUnused(p, f)
  <2>1. frame_descriptors[f].pin_count = 0
    BY <1>2 DEF ClaimUnused, Books, Fresh, FrameID
  <2>2. \A q \in DOMAIN page_table : page_table[q] # f
    BY <1>2 DEF ClaimUnused, Books, TableAgrees, TypeOK, FrameID
  <2>3. /\ DOMAIN page_table' = DOMAIN page_table \cup {p}
        /\ page_table'[p] = f
        /\ \A q \in DOMAIN page_table : q # p => page_table'[q] = page_table[q]
    BY <1>2 DEF ClaimUnused, Mapping
  <2>4. \A g \in FrameID :
          /\ g < buffer_count' <=> (g < buffer_count \/ g = f)
          /\ g >= buffer_count' => g >= buffer_count /\ g # f
    BY <1>2 DEF ClaimUnused, TypeOK, FrameID
  <2> QED
    BY <1>1, <2>1, <2>2, <2>3, <2>4
<1>3. CASE ClaimVictim(p, f)
  <2>1. /\ buffer_count = N /\ buffer_count' = N /\ Candidates # {}
        /\ VictimPage \in DOMAIN page_table
        /\ f = page_table[VictimPage]
    BY <1>3 DEF ClaimVictim, Replace
  <2>2. Victim \in FrameID /\ frame_descriptors[Victim].pin_count = 0
    BY <2>1, VictimIsUnpinned
  <2>3. f = Victim
    BY <2>1, <2>2, NAssumption DEF VictimPage, Books, TableAgrees, FrameID
  <2>4. \A q \in DOMAIN page_table : page_table[q] = f <=> q = VictimPage
    BY <2>1, <2>3 DEF VictimPage, Books, TableAgrees
  <2>5. /\ DOMAIN page_table' = (DOMAIN page_table \ {VictimPage}) \cup {p}
        /\ page_table'[p] = f
        /\ \A q \in DOMAIN page_table \ {VictimPage} : q # p => page_table'[q] = page_table[q]
    BY <1>3 DEF ClaimVictim, Mapping
  <2>6. Holders(VictimPage) = {}
    <3>1. Cardinality(Holders(VictimPage)) = 0
      BY <2>1, <2>2, <2>3 DEF Books, PinsExact, Holders
    <3> QED
      BY <3>1, HoldersFinite, FS_EmptySet
  <2>7. \A g \in FrameID : g < buffer_count /\ ~(g >= buffer_count)
    BY <2>1, NAssumption DEF FrameID
  <2> QED
    BY <1>1, <2>1, <2>2, <2>3, <2>4, <2>5, <2>6, <2>7
<1> QED
  BY <1>2, <1>3 DEF Claim

LEMMA PinHitBooks ==
  ASSUME TypeOK, Books, failures = 0, NEW c \in Client, NEW p \in PageID, PinHit(c, p)
  PROVE  Books'
<1> DEFINE f == page_table[p]
           d == frame_descriptors[f]
<1>1. /\ f \in FrameID /\ d \in FrameDescriptor
      /\ p \in DOMAIN page_table /\ held[c] = NoPage
  BY DEF PinHit, CanPin, TypeOK
<1>2. /\ Pinned(d).page_id = d.page_id
      /\ Pinned(d).pin_count = d.pin_count + 1
      /\ Pinned(d).dirty = d.dirty
  BY <1>1, PinnedType
<1>3. /\ frame_descriptors' = [frame_descriptors EXCEPT ![f] = Pinned(d)]
      /\ held' = [held EXCEPT ![c] = p]
      /\ UNCHANGED <<page_table, buffer_count, panicked, failures>>
  BY DEF PinHit, Hold
<1> HIDE DEF d
<1>4. /\ \A g \in FrameID : /\ frame_descriptors'[g].page_id = frame_descriptors[g].page_id
                            /\ frame_descriptors'[g].dirty = frame_descriptors[g].dirty
                            /\ g # f => frame_descriptors'[g] = frame_descriptors[g]
      /\ frame_descriptors'[f].pin_count = frame_descriptors[f].pin_count + 1
  BY <1>1, <1>2, <1>3 DEF d, TypeOK
<1>5. TableAgrees'
  BY <1>3, <1>4 DEF Books, TableAgrees, TypeOK
<1>6. PinsExact'
  <2>1. Holders(p)' = Holders(p) \cup {c} /\ c \notin Holders(p)
    BY <1>1, <1>3, NoPageAssumption, MaxPageAssumption DEF Holders, TypeOK, PageID
  <2>2. \A q \in PageID : q # p => Holders(q)' = Holders(q)
    BY <1>1, <1>3, NoPageAssumption, MaxPageAssumption DEF Holders, TypeOK, PageID
  <2>3. Cardinality(Holders(p)') = Cardinality(Holders(p)) + 1
    BY <2>1, HoldersFinite, FS_AddElement
  <2>4. \A q \in DOMAIN page_table : q # p => page_table[q] # f
    BY <1>1 DEF Books, TableAgrees
  <2>5. \A q \in DOMAIN page_table :
          frame_descriptors'[page_table[q]].pin_count = Cardinality(Holders(q)')
    BY <1>1, <1>4, <2>2, <2>3, <2>4 DEF Books, PinsExact, Holders, TypeOK
  <2>6. \A b \in Client : held'[b] # NoPage => held'[b] \in DOMAIN page_table
    BY <1>1, <1>3 DEF Books, PinsExact, TypeOK
  <2> QED
    BY <1>3, <2>5, <2>6 DEF PinsExact, Holders
<1>7. Fresh'
  BY <1>1, <1>3, <1>4 DEF Books, Fresh, TableAgrees, FrameID, TypeOK
<1> QED
  BY <1>5, <1>6, <1>7 DEF Books

LEMMA PinMissBooks ==
  ASSUME TypeOK, Books, failures = 0, NEW c \in Client, NEW p \in PageID, PinMiss(c, p)
  PROVE  Books'
<1>1. PICK f \in FrameID :
        /\ Claim(p, f)
        /\ frame_descriptors' = [Descriptors EXCEPT ![f] = Loaded(@, p)]
  BY DEF PinMiss
<1>2. /\ p \notin DOMAIN page_table
      /\ frame_descriptors[f].pin_count = 0
      /\ page_table'[p] = f
      /\ DOMAIN page_table' = {q \in DOMAIN page_table : page_table[q] # f} \cup {p}
      /\ \A q \in DOMAIN page_table : page_table[q] # f => page_table'[q] = page_table[q]
      /\ \A q \in DOMAIN page_table : page_table[q] = f => Holders(q) = {}
      /\ \A g \in FrameID : g < buffer_count' <=> (g < buffer_count \/ g = f)
      /\ \A g \in FrameID : g >= buffer_count' => g >= buffer_count /\ g # f
  BY <1>1, ClaimExact
<1>3. held[c] = NoPage /\ held' = [held EXCEPT ![c] = p] /\ UNCHANGED <<panicked, failures>>
  BY <1>1 DEF PinMiss, CanPin, Hold, Claim
<1>4. /\ frame_descriptors'[f].page_id = p
      /\ frame_descriptors'[f].pin_count = 1
      /\ \A g \in FrameID : g # f =>
           /\ frame_descriptors'[g].page_id = frame_descriptors[g].page_id
           /\ frame_descriptors'[g].pin_count = frame_descriptors[g].pin_count
           /\ frame_descriptors'[g].dirty = frame_descriptors[g].dirty
  <2> DEFINE d == Descriptors[f]
  <2>1. d \in FrameDescriptor /\ d.pin_count = 0
    BY <1>2, DescriptorsType
  <2>2. frame_descriptors' = [Descriptors EXCEPT ![f] = Loaded(d, p)]
    BY <1>1
  <2> HIDE DEF d
  <2>3. Loaded(d, p).page_id = p /\ Loaded(d, p).pin_count = d.pin_count + 1
    BY <2>1, LoadedType
  <2>4. d.pin_count + 1 = 1
    BY <2>1
  <2> QED
    BY <2>2, <2>3, <2>4, DescriptorsType
<1>5. TableAgrees'
  <2>1. ~panicked'
    BY <1>3 DEF Books, TableAgrees
  <2>2. ASSUME NEW q \in DOMAIN page_table'
        PROVE  page_table'[q] < buffer_count' /\ frame_descriptors'[page_table'[q]].page_id = q
    BY <1>2, <1>4, <2>2 DEF Books, TableAgrees, TypeOK
  <2>3. ASSUME NEW g \in FrameID, g < buffer_count'
        PROVE  /\ frame_descriptors'[g].page_id \in DOMAIN page_table'
               /\ page_table'[frame_descriptors'[g].page_id] = g
    BY <1>2, <1>4, <2>3 DEF Books, TableAgrees, TypeOK
  <2> QED
    BY <2>1, <2>2, <2>3 DEF TableAgrees
<1>6. PinsExact'
  <2>1. Holders(p)' = {c}
    <3>1. \A b \in Client : held[b] # p
      BY <1>2, NoPageAssumption, MaxPageAssumption DEF Books, PinsExact, PageID
    <3> QED
      BY <1>3, <3>1 DEF Holders, TypeOK
  <2>2. \A q \in PageID : q # p => Holders(q)' = Holders(q)
    BY <1>3, NoPageAssumption, MaxPageAssumption DEF Holders, TypeOK, PageID
  <2>3. Cardinality(Holders(p)') = 1
    BY <2>1, FS_Singleton
  <2>4. ASSUME NEW q \in DOMAIN page_table'
        PROVE  frame_descriptors'[page_table'[q]].pin_count = Cardinality(Holders(q)')
    <3>1. CASE q = p
      BY <1>2, <1>4, <2>3, <3>1
    <3>2. CASE q # p
      <4>1. /\ q \in DOMAIN page_table /\ q \in PageID
            /\ page_table'[q] = page_table[q]
            /\ page_table[q] \in FrameID /\ page_table[q] # f
        BY <1>2, <2>4, <3>2 DEF TypeOK
      <4>2. frame_descriptors[page_table[q]].pin_count = Cardinality(Holders(q))
        BY <4>1 DEF Books, PinsExact, Holders
      <4> QED
        BY <1>4, <2>2, <3>2, <4>1, <4>2
    <3> QED
      BY <3>1, <3>2
  <2>5. \A b \in Client : held'[b] # NoPage => held'[b] \in DOMAIN page_table'
    BY <1>2, <1>3 DEF Books, PinsExact, TypeOK, Holders
  <2> QED
    BY <1>3, <2>4, <2>5 DEF PinsExact, Holders
<1>7. Fresh'
  BY <1>2, <1>3, <1>4 DEF Books, Fresh
<1> QED
  BY <1>5, <1>6, <1>7 DEF Books

LEMMA UnpinBooks ==
  ASSUME TypeOK, Books, failures = 0, NEW c \in Client, Unpin(c)
  PROVE  Books'
<1>0. PICK p \in PageID : p = held[c] /\ p # NoPage /\ p \in DOMAIN page_table
  BY DEF Unpin, Books, PinsExact, TypeOK
<1> DEFINE f == page_table[p]
           d == frame_descriptors[f]
<1>1. /\ p = held[c] /\ p # NoPage /\ p \in DOMAIN page_table /\ p \in PageID
      /\ f \in FrameID /\ d \in FrameDescriptor
  BY <1>0 DEF TypeOK
<1>2. /\ Unpinning(c, d).page_id = d.page_id
      /\ Unpinning(c, d).pin_count = IF d.pin_count > 0 THEN d.pin_count - 1 ELSE 0
      /\ d.pin_count \in Nat
  BY <1>1, UnpinningType DEF FrameDescriptor
<1>3. /\ frame_descriptors' = [frame_descriptors EXCEPT ![f] = Unpinning(c, d)]
      /\ held' = [held EXCEPT ![c] = NoPage]
      /\ UNCHANGED <<page_table, buffer_count, panicked, failures>>
  BY <1>1 DEF Unpin
<1>4. c \in Holders(p) /\ d.pin_count = Cardinality(Holders(p))
  BY <1>1 DEF Holders, Books, PinsExact
<1>5. /\ Holders(p)' = Holders(p) \ {c}
      /\ \A q \in PageID : q # p => Holders(q)' = Holders(q)
  BY <1>1, <1>3, NoPageAssumption, MaxPageAssumption DEF Holders, TypeOK, PageID
<1>6. /\ Cardinality(Holders(p)') = Cardinality(Holders(p)) - 1
      /\ Cardinality(Holders(p)) > 0
  <2>1. Cardinality(Holders(p)') = Cardinality(Holders(p)) - 1
    BY <1>4, <1>5, HoldersFinite, FS_RemoveElement
  <2>2. Cardinality(Holders(p)) # 0
    BY <1>4, HoldersFinite, FS_EmptySet
  <2> QED
    BY <2>1, <2>2, HoldersFinite
<1>7. Unpinning(c, d).pin_count = Cardinality(Holders(p)')
  BY <1>2, <1>4, <1>6
<1> HIDE DEF d
<1>8. /\ \A g \in FrameID : /\ frame_descriptors'[g].page_id = frame_descriptors[g].page_id
                            /\ g # f => frame_descriptors'[g] = frame_descriptors[g]
      /\ frame_descriptors'[f].pin_count = Cardinality(Holders(p)')
  BY <1>1, <1>2, <1>3, <1>7 DEF d, TypeOK
<1>9. TableAgrees'
  BY <1>3, <1>8 DEF Books, TableAgrees, TypeOK
<1>10. PinsExact'
  <2>1. \A q \in DOMAIN page_table : q # p => page_table[q] # f
    BY <1>1 DEF Books, TableAgrees
  <2>2. \A q \in DOMAIN page_table :
          frame_descriptors'[page_table[q]].pin_count = Cardinality(Holders(q)')
    BY <1>5, <1>8, <2>1 DEF Books, PinsExact, Holders, TypeOK
  <2>3. \A b \in Client : held'[b] # NoPage => held'[b] \in DOMAIN page_table
    BY <1>3 DEF Books, PinsExact, TypeOK
  <2> QED
    BY <1>3, <2>2, <2>3 DEF PinsExact, Holders
<1>11. Fresh'
  <2>1. f < buffer_count /\ f \in Int /\ buffer_count \in Int
    BY <1>1 DEF Books, TableAgrees, FrameID, TypeOK
  <2>2. \A g \in FrameID : g >= buffer_count => g # f
    BY <2>1 DEF FrameID
  <2> QED
    BY <1>3, <1>8, <2>2 DEF Books, Fresh
<1> QED
  BY <1>9, <1>10, <1>11 DEF Books

\* The victim's page is always in the table.
LEMMA NoPinPanics ==
  ASSUME TypeOK, Books, failures = 0, NEW c \in Client, NEW p \in PageID
  PROVE  ~PinPanics(c, p)
<1> SUFFICES ASSUME PinPanics(c, p) PROVE FALSE
  OBVIOUS
<1>1. Candidates # {} /\ buffer_count = N /\ VictimPage \notin DOMAIN page_table
  BY DEF PinPanics, Replace
<1>2. Victim \in FrameID
  BY <1>1, VictimIsUnpinned
<1> QED
  BY <1>1, <1>2, NAssumption DEF VictimPage, Books, TableAgrees, FrameID

\* Failed pins are never forgotten.
LEMMA FailuresStay ==
  ASSUME TypeOK, [Next]_vars
  PROVE  /\ failures' = 0 => failures = 0
         /\ \A c \in Client, p \in PageID :
              PinWriteFails(c, p) \/ PinReadFails(c, p) => failures' # 0
<1>1. failures \in Nat
  BY BoundsAssumption DEF TypeOK
<1>2. ASSUME NEW c \in Client, NEW p \in PageID, PinWriteFails(c, p) \/ PinReadFails(c, p)
      PROVE  failures' # 0
  BY <1>1, <1>2 DEF PinWriteFails, PinReadFails, Failed
<1>3. ASSUME NEW c \in Client, NEW p \in PageID, Pin(c, p), failures' = 0
      PROVE  failures = 0
  BY <1>2, <1>3 DEF Pin, PinHit, PinMiss, PinPanics
<1> QED
  BY <1>2, <1>3
  DEF Next, Modify, Unpin, AllocatePage, FreePage, vars, historyVars

LEMMA BooksStep == TypeOK /\ Books /\ [Next]_vars => Books'
<1> SUFFICES ASSUME TypeOK, Books, [Next]_vars PROVE Books'
  OBVIOUS
<1>1. CASE failures' # 0
  BY <1>1 DEF Books, TableAgrees, PinsExact, Fresh
<1>2. CASE failures' = 0
  <2>1. failures = 0
    BY <1>2, FailuresStay
  <2>2. ASSUME NEW c \in Client, NEW p \in PageID, Pin(c, p)
        PROVE  Books'
    BY <1>2, <2>1, <2>2, FailuresStay, NoPinPanics, PinHitBooks, PinMissBooks DEF Pin
  <2>3. ASSUME NEW c \in Client, NEW v \in Content, Modify(c, v)
        PROVE  Books'
    BY <2>3 DEF Modify, Books, TableAgrees, PinsExact, Fresh
  <2>4. ASSUME NEW c \in Client, Unpin(c)
        PROVE  Books'
    BY <2>1, <2>4, UnpinBooks
  <2>5. ASSUME NEW p \in PageID, AllocatePage(p) \/ FreePage(p)
        PROVE  Books'
    BY <2>5 DEF AllocatePage, FreePage, managerVars, clientVars, historyVars,
                Books, TableAgrees, PinsExact, Fresh
  <2>6. CASE UNCHANGED vars
    BY <2>6 DEF vars, managerVars, clientVars, historyVars, Books, TableAgrees, PinsExact, Fresh
  <2> QED
    BY <2>2, <2>3, <2>4, <2>5, <2>6 DEF Next
<1> QED
  BY <1>1, <1>2

LEMMA BooksInit == Init => Books
<1> SUFFICES ASSUME Init PROVE Books
  OBVIOUS
<1>1. DOMAIN page_table = {}
  BY DEF Init
<1>2. \A f \in FrameID : ~(f < buffer_count)
  BY NAssumption DEF Init, FrameID
<1>3. \A f \in FrameID : frame_descriptors[f] = DefaultDescriptor
  BY DEF Init
<1>4. TableAgrees
  BY <1>1, <1>2 DEF Init, TableAgrees
<1>5. PinsExact
  BY <1>1 DEF Init, PinsExact
<1>6. Fresh
  BY <1>3 DEF Fresh, DefaultDescriptor
<1> QED
  BY <1>4, <1>5, <1>6 DEF Books

LEMMA BooksCorrect == Spec => []Books
BY TypeCorrect, BooksInit, BooksStep, PTL DEF Spec

(***************************************************************************)
(* As long as no pin failed, table and descriptors agree in every          *)
(* reachable state, and neither unwrap of pin and unpin ever panics.       *)
(***************************************************************************)
THEOREM TableAlwaysAgrees == Spec => []TableAgrees
<1>1. Books => TableAgrees
  BY DEF Books
<1> QED
  BY <1>1, BooksCorrect, PTL

(***************************************************************************)
(* As long as no pin failed, a page that a client holds stays in the pool  *)
(* and its pin count is the number of its holders.                         *)
(***************************************************************************)
THEOREM PinsAreExact == Spec => []PinsExact
<1>1. Books => PinsExact
  BY DEF Books
<1> QED
  BY <1>1, BooksCorrect, PTL

-----------------------------------------------------------------------------
(***************************************************************************)
(* Contents.  NoLostUpdate needs to know, of a page that is still in the   *)
(* pool, that eviction will write it if the file is behind: its descriptor *)
(* says dirty, or a client that modified it has yet to unpin it.  This is  *)
(* where clients must leave a set dirty bit alone (KeepDirty).             *)
(***************************************************************************)
Saved ==
  failures = 0 =>
    \A p \in DOMAIN page_table : latest[p] # Blank =>
      \/ frame_descriptors[page_table[p]].dirty
      \/ \E c \in Client : held[c] = p /\ wrote[c]
      \/ file[p] = latest[p]

Contents == NoLostUpdate /\ Saved

\* After the write-back the file has all that is not in another frame.
LEMMA WriteBackSaves ==
  ASSUME TypeOK, Books, Contents, failures = 0, NEW f \in FrameID, WriteBack(f),
         \A q \in DOMAIN page_table : page_table[q] = f => Holders(q) = {},
         NEW q \in PageID, latest[q] # Blank
  PROVE  /\ q \notin DOMAIN page_table => file'[q] = latest[q]
         /\ q \in DOMAIN page_table /\ page_table[q] = f => file'[q] = latest[q]
         /\ q \in DOMAIN page_table /\ page_table[q] # f => file'[q] = file[q]
<1> DEFINE v == frame_descriptors[f].page_id
<1>1. CASE frame_descriptors[f].dirty
  <2>1. v \in DOMAIN page_table /\ page_table[v] = f /\ v \in PageID
    <3>1. f \in Int /\ buffer_count \in Int /\ ~(f >= buffer_count)
      BY <1>1 DEF Books, Fresh, FrameID, TypeOK
    <3>2. f < buffer_count
      BY <3>1
    <3> QED
      BY <3>2 DEF Books, TableAgrees, TypeOK
  <2>2. file' = [file EXCEPT ![v] = pool[f]]
    BY <1>1 DEF WriteBack
  <2>3. \A r \in DOMAIN page_table : page_table[r] = f => r = v
    BY DEF Books, TableAgrees
  <2>4. \A r \in PageID : file'[r] = IF r = v THEN pool[f] ELSE file[r]
    BY <2>1, <2>2 DEF TypeOK, DiskTypeOK
  <2> QED
    BY <2>1, <2>3, <2>4 DEF Contents, NoLostUpdate
<1>2. CASE ~frame_descriptors[f].dirty
  <2>1. file' = file
    BY <1>2 DEF WriteBack
  <2>2. q \in DOMAIN page_table /\ page_table[q] = f => file[q] = latest[q]
    BY <1>2 DEF Contents, Saved, Holders
  <2>3. q \notin DOMAIN page_table => file[q] = latest[q]
    BY DEF Contents, NoLostUpdate
  <2> QED
    BY <2>1, <2>2, <2>3
<1> QED
  BY <1>1, <1>2

LEMMA PinHitContents ==
  ASSUME TypeOK, Books, Contents, failures = 0,
         NEW c \in Client, NEW p \in PageID, PinHit(c, p)
  PROVE  Contents'
<1>1. PICK f \in FrameID : f = page_table[p]
  BY DEF PinHit, TypeOK
<1> DEFINE d == frame_descriptors[f]
<1>2. d \in FrameDescriptor
  BY DEF TypeOK
<1>3. Pinned(d).dirty = d.dirty
  BY <1>2, PinnedType
<1>4. /\ frame_descriptors' = [frame_descriptors EXCEPT ![f] = Pinned(d)]
      /\ held[c] = NoPage /\ held' = [held EXCEPT ![c] = p]
      /\ UNCHANGED <<page_table, pool, file, latest, wrote, failures>>
  BY <1>1 DEF PinHit, CanPin, Hold, diskVars
<1> HIDE DEF d
<1>5. \A g \in FrameID : frame_descriptors'[g].dirty = frame_descriptors[g].dirty
  BY <1>3, <1>4 DEF d, TypeOK
<1>6. \A b \in Client, q \in PageID : held[b] = q => held'[b] = q
  BY <1>4, NoPageAssumption, MaxPageAssumption DEF TypeOK, PageID
<1>7. NoLostUpdate'
  BY <1>4 DEF Contents, NoLostUpdate
<1>8. Saved'
  BY <1>4, <1>5, <1>6 DEF Contents, Saved, TypeOK
<1> QED
  BY <1>7, <1>8 DEF Contents

LEMMA PinMissContents ==
  ASSUME TypeOK, Books, Contents, failures = 0,
         NEW c \in Client, NEW p \in PageID, PinMiss(c, p)
  PROVE  Contents'
<1>1. PICK f \in FrameID :
        /\ Claim(p, f)
        /\ WriteBack(f)
        /\ \E read \in ReadInto(file'[p], pool[f]) : pool' = [pool EXCEPT ![f] = read]
        /\ frame_descriptors' = [Descriptors EXCEPT ![f] = Loaded(@, p)]
  BY DEF PinMiss
<1>2. /\ p \notin DOMAIN page_table
      /\ page_table'[p] = f
      /\ DOMAIN page_table' = {q \in DOMAIN page_table : page_table[q] # f} \cup {p}
      /\ \A q \in DOMAIN page_table : page_table[q] # f => page_table'[q] = page_table[q]
      /\ \A q \in DOMAIN page_table : page_table[q] = f => Holders(q) = {}
  BY <1>1, ClaimExact
<1>3. \A q \in PageID : latest[q] # Blank =>
        /\ q \notin DOMAIN page_table => file'[q] = latest[q]
        /\ q \in DOMAIN page_table /\ page_table[q] = f => file'[q] = latest[q]
        /\ q \in DOMAIN page_table /\ page_table[q] # f => file'[q] = file[q]
  BY <1>1, <1>2, WriteBackSaves
<1>4. held[c] = NoPage /\ held' = [held EXCEPT ![c] = p] /\ UNCHANGED <<wrote, latest, failures>>
  BY DEF PinMiss, CanPin, Hold
<1>5. PICK read \in ReadInto(file'[p], pool[f]) : pool' = [pool EXCEPT ![f] = read]
  BY <1>1
<1>6. pool'[f] = read /\ \A g \in FrameID : g # f => pool'[g] = pool[g]
  BY <1>5 DEF TypeOK
<1>7. latest[p] # Blank => pool'[f] = latest[p]
  BY <1>2, <1>3, <1>5, <1>6 DEF ReadInto
<1>8. \A g \in FrameID : g # f => frame_descriptors'[g].dirty = frame_descriptors[g].dirty
  BY <1>1, DescriptorsType
<1>9. \A b \in Client, q \in PageID : held[b] = q => held'[b] = q
  BY <1>4, NoPageAssumption, MaxPageAssumption DEF TypeOK, PageID
<1>10. \A q \in DOMAIN page_table : page_table[q] \in FrameID /\ q \in PageID
  BY DEF TypeOK
<1>11. NoLostUpdate'
  <2> SUFFICES ASSUME NEW q \in PageID, latest[q] # Blank
               PROVE  IF q \in DOMAIN page_table' THEN pool'[page_table'[q]] = latest[q]
                                                  ELSE file'[q] = latest[q]
    BY <1>4 DEF NoLostUpdate
  <2>1. CASE q = p
    BY <1>2, <1>7, <2>1
  <2>2. CASE q # p /\ q \in DOMAIN page_table'
    <3>1. pool[page_table[q]] = latest[q]
      BY <1>2, <2>2 DEF Contents, NoLostUpdate
    <3> QED
      BY <1>2, <1>6, <1>10, <2>2, <3>1
  <2>3. CASE q \notin DOMAIN page_table'
    BY <1>2, <1>3, <2>3
  <2> QED
    BY <2>1, <2>2, <2>3
<1>12. Saved'
  <2> SUFFICES ASSUME NEW q \in DOMAIN page_table', latest[q] # Blank
               PROVE  \/ frame_descriptors'[page_table'[q]].dirty
                      \/ \E b \in Client : held'[b] = q /\ wrote[b]
                      \/ file'[q] = latest[q]
    BY <1>4 DEF Saved
  <2>1. CASE q = p
    BY <1>2, <1>3, <2>1
  <2>2. CASE q # p
    <3>1. q \in DOMAIN page_table /\ page_table[q] # f /\ page_table'[q] = page_table[q]
      BY <1>2, <2>2
    <3>2. \/ frame_descriptors[page_table[q]].dirty
          \/ \E b \in Client : held[b] = q /\ wrote[b]
          \/ file[q] = latest[q]
      BY <3>1 DEF Contents, Saved
    <3> QED
      BY <1>3, <1>8, <1>9, <1>10, <3>1, <3>2
  <2> QED
    BY <2>1, <2>2
<1> QED
  BY <1>11, <1>12 DEF Contents

LEMMA ModifyContents ==
  ASSUME TypeOK, Books, Contents, failures = 0,
         NEW c \in Client, NEW v \in Content, Modify(c, v)
  PROVE  Contents'
<1>1. PICK p \in PageID : p = held[c] /\ p \in DOMAIN page_table
  BY DEF Modify, TypeOK
<1>2. PICK f \in FrameID : f = page_table[p]
  BY <1>1 DEF TypeOK
<1>3. /\ pool' = [pool EXCEPT ![f] = v]
      /\ wrote' = [wrote EXCEPT ![c] = TRUE]
      /\ latest' = [latest EXCEPT ![p] = v]
      /\ UNCHANGED <<file, page_table, frame_descriptors, held, failures>>
  BY <1>1, <1>2 DEF Modify, diskVars
<1>4. \A q \in DOMAIN page_table : q # p => page_table[q] # f
  BY <1>1, <1>2 DEF Books, TableAgrees
<1>5. /\ pool'[f] = v /\ \A g \in FrameID : g # f => pool'[g] = pool[g]
      /\ wrote'[c] /\ \A b \in Client : wrote[b] => wrote'[b]
      /\ latest'[p] = v /\ \A q \in PageID : q # p => latest'[q] = latest[q]
  BY <1>3 DEF TypeOK
<1>6. NoLostUpdate'
  BY <1>1, <1>2, <1>3, <1>4, <1>5 DEF Contents, NoLostUpdate, TypeOK
<1>7. Saved'
  <2> SUFFICES ASSUME NEW q \in DOMAIN page_table, latest'[q] # Blank
               PROVE  \/ frame_descriptors[page_table[q]].dirty
                      \/ \E b \in Client : held[b] = q /\ wrote'[b]
                      \/ file[q] = latest'[q]
    BY <1>3 DEF Saved
  <2>1. CASE q = p
    BY <1>1, <1>5, <2>1
  <2>2. CASE q # p
    <3>1. q \in PageID /\ latest'[q] = latest[q]
      BY <1>5, <2>2 DEF TypeOK
    <3> QED
      BY <1>5, <3>1 DEF Contents, Saved
  <2> QED
    BY <2>1, <2>2
<1> QED
  BY <1>6, <1>7 DEF Contents

LEMMA UnpinContents ==
  ASSUME TypeOK, Books, Contents, failures = 0, KeepDirty, NEW c \in Client, Unpin(c)
  PROVE  Contents'
<1>1. PICK p \in PageID : p = held[c] /\ p \in DOMAIN page_table
  BY DEF Unpin, Books, PinsExact, TypeOK
<1>2. PICK f \in FrameID : f = page_table[p]
  BY <1>1 DEF TypeOK
<1> DEFINE d == frame_descriptors[f]
<1>3. /\ frame_descriptors' = [frame_descriptors EXCEPT ![f] = Unpinning(c, d)]
      /\ held' = [held EXCEPT ![c] = NoPage]
      /\ wrote' = [wrote EXCEPT ![c] = FALSE]
      /\ UNCHANGED <<file, page_table, pool, latest, failures>>
  BY <1>1, <1>2 DEF Unpin, diskVars
<1>4. d \in FrameDescriptor
  BY DEF TypeOK
<1>5. Unpinning(c, d).dirty = (wrote[c] \/ d.dirty)
  BY <1>4, UnpinningType
<1> HIDE DEF d
<1>6. /\ wrote[c] => frame_descriptors'[f].dirty
      /\ \A g \in FrameID : frame_descriptors[g].dirty => frame_descriptors'[g].dirty
  BY <1>3, <1>5 DEF d, TypeOK
<1>7. \A b \in Client : b # c => held'[b] = held[b] /\ wrote'[b] = wrote[b]
  BY <1>3 DEF TypeOK
<1>8. NoLostUpdate'
  BY <1>3 DEF Contents, NoLostUpdate
<1>9. Saved'
  <2> SUFFICES ASSUME NEW q \in DOMAIN page_table, latest[q] # Blank
               PROVE  \/ frame_descriptors'[page_table[q]].dirty
                      \/ \E b \in Client : held'[b] = q /\ wrote'[b]
                      \/ file[q] = latest[q]
    BY <1>3 DEF Saved
  <2>1. page_table[q] \in FrameID
    BY DEF TypeOK
  <2>2. \/ frame_descriptors[page_table[q]].dirty
        \/ \E b \in Client : held[b] = q /\ wrote[b]
        \/ file[q] = latest[q]
    BY DEF Contents, Saved
  <2> QED
    BY <1>1, <1>2, <1>6, <1>7, <2>1, <2>2
<1> QED
  BY <1>8, <1>9 DEF Contents

LEMMA ContentsStep ==
  TypeOK /\ Books /\ Contents /\ KeepDirty /\ [Next]_vars => Contents'
<1> SUFFICES ASSUME TypeOK, Books, Contents, KeepDirty, [Next]_vars PROVE Contents'
  OBVIOUS
<1>1. CASE failures' # 0
  BY <1>1 DEF Contents, NoLostUpdate, Saved
<1>2. CASE failures' = 0
  <2>1. failures = 0
    BY <1>2, FailuresStay
  <2>2. ASSUME NEW c \in Client, NEW p \in PageID, Pin(c, p)
        PROVE  Contents'
    BY <1>2, <2>1, <2>2, FailuresStay, NoPinPanics, PinHitContents, PinMissContents DEF Pin
  <2>3. ASSUME NEW c \in Client, NEW v \in Content, Modify(c, v)
        PROVE  Contents'
    BY <2>1, <2>3, ModifyContents
  <2>4. ASSUME NEW c \in Client, Unpin(c)
        PROVE  Contents'
    BY <2>1, <2>4, UnpinContents
  <2>5. ASSUME NEW p \in PageID, AllocatePage(p)
        PROVE  Contents'
    BY <2>5 DEF AllocatePage, Allocate, AllocateFreed, AllocateNew,
                managerVars, clientVars, historyVars, Contents, NoLostUpdate, Saved
  <2>6. ASSUME NEW p \in PageID, FreePage(p)
        PROVE  Contents'
    <3>1. /\ UNCHANGED <<file, page_table, frame_descriptors, pool, held, wrote, failures>>
          /\ latest' = [latest EXCEPT ![p] = Blank]
      BY <2>6 DEF FreePage, Free, managerVars, historyVars
    <3>2. \A q \in PageID : latest'[q] # Blank => latest'[q] = latest[q]
      BY <3>1 DEF TypeOK
    <3>3. \A q \in DOMAIN page_table : q \in PageID
      BY DEF TypeOK
    <3>4. NoLostUpdate'
      BY <3>1, <3>2 DEF Contents, NoLostUpdate
    <3>5. Saved'
      BY <3>1, <3>2, <3>3 DEF Contents, Saved
    <3> QED
      BY <3>4, <3>5 DEF Contents
  <2>7. CASE UNCHANGED vars
    BY <2>7 DEF vars, diskVars, managerVars, clientVars, historyVars,
                Contents, NoLostUpdate, Saved
  <2> QED
    BY <2>2, <2>3, <2>4, <2>5, <2>6, <2>7 DEF Next
<1> QED
  BY <1>1, <1>2

(***************************************************************************)
(* No update is lost: as long as no pin failed, a page has what was last   *)
(* written to it, in its frame or in the file, through every eviction and  *)
(* reload, provided clients leave a set dirty bit alone.                   *)
(***************************************************************************)
THEOREM NoUpdateIsLost == KeepDirty => (Spec => []NoLostUpdate)
<1> SUFFICES ASSUME KeepDirty PROVE Spec => []NoLostUpdate
  OBVIOUS
<1>1. Init => Contents
  BY DEF Init, DiskInit, Contents, NoLostUpdate, Saved
<1>2. TypeOK /\ Books /\ Contents /\ [Next]_vars => Contents'
  BY ContentsStep
<1>3. Contents => NoLostUpdate
  BY DEF Contents
<1> QED
  BY <1>1, <1>2, <1>3, TypeCorrect, BooksCorrect, PTL DEF Spec

-----------------------------------------------------------------------------
(***************************************************************************)
(* LRU.  The times in the descriptors are in the order of the pins, and    *)
(* all of them are in the past, so that replacement, which starts its      *)
(* search with the present, overlooks no frame that is not pinned.         *)
(***************************************************************************)
TimesPast ==
  failures = 0 /\ strategy = "LRU" =>
    \A f \in FrameID : f < buffer_count => frame_descriptors[f].time < global_time

TimesOrdered ==
  failures = 0 /\ strategy = "LRU" =>
    \A p, q \in DOMAIN page_table :
      <<p, q>> \in older <=>
        frame_descriptors[page_table[p]].time < frame_descriptors[page_table[q]].time

Times == TimesPast /\ TimesOrdered

\* Page p is pinned last, in frame f; nothing else changes among the resident pages.
LEMMA PinnedLast ==
  ASSUME TypeOK, Books, Times, failures = 0, strategy = "LRU",
         TypeOK', Books', failures' = 0,
         NEW p \in PageID, NEW f \in FrameID,
         p \in DOMAIN page_table', page_table'[p] = f,
         \A q \in DOMAIN page_table' : q # p =>
           q \in DOMAIN page_table /\ page_table'[q] = page_table[q],
         \A g \in FrameID : g < buffer_count' => g < buffer_count \/ g = f,
         frame_descriptors'[f].time = global_time,
         \A g \in FrameID : g # f => frame_descriptors'[g].time = frame_descriptors[g].time,
         global_time' = global_time + 1,
         older' = Refreshed(p)
  PROVE  Times'
<1>1. /\ global_time \in Nat
      /\ \A g \in FrameID : frame_descriptors[g].time \in Nat
  BY BoundsAssumption DEF TypeOK, FrameDescriptor
<1>2. TimesPast'
  BY <1>1 DEF Times, TimesPast
<1>3. ASSUME NEW q \in DOMAIN page_table', q # p
      PROVE  /\ q \in DOMAIN page_table
             /\ page_table[q] \in FrameID
             /\ page_table'[q] = page_table[q] /\ page_table[q] # f
             /\ frame_descriptors'[page_table'[q]].time = frame_descriptors[page_table[q]].time
             /\ frame_descriptors[page_table[q]].time < global_time
  <2>1. /\ q \in DOMAIN page_table /\ page_table'[q] = page_table[q]
        /\ page_table[q] \in FrameID /\ page_table[q] < buffer_count
    BY <1>3 DEF Books, TableAgrees, TypeOK
  <2>2. page_table'[q] # f
    BY <1>3 DEF Books, TableAgrees
  <2> QED
    BY <2>1, <2>2 DEF Times, TimesPast
<1>4. ASSUME NEW a \in DOMAIN page_table', NEW b \in DOMAIN page_table'
      PROVE  <<a, b>> \in older' <=>
               frame_descriptors'[page_table'[a]].time < frame_descriptors'[page_table'[b]].time
  <2>1. <<a, b>> \in older' <=> a # p /\ (b = p \/ <<a, b>> \in older)
    BY DEF Refreshed, OrderOf
  <2>2. CASE a # p /\ b # p
    BY <1>3, <2>1, <2>2 DEF Times, TimesOrdered
  <2>3. CASE a # p /\ b = p
    BY <1>3, <2>1, <2>3
  <2>4. CASE a = p
    <3>1. ~(global_time < frame_descriptors'[page_table'[b]].time)
      BY <1>1, <1>3
    <3> QED
      BY <2>1, <2>4, <3>1
  <2> QED
    BY <2>2, <2>3, <2>4
<1>5. TimesOrdered'
  BY <1>4 DEF TimesOrdered
<1> QED
  BY <1>2, <1>5 DEF Times

LEMMA PinTimes ==
  ASSUME TypeOK, Books, Times, failures = 0, TypeOK', Books', failures' = 0,
         NEW c \in Client, NEW p \in PageID, PinHit(c, p) \/ PinMiss(c, p)
  PROVE  Times'
<1>1. strategy' = strategy
  BY DEF PinHit, PinMiss, Claim
<1>2. CASE strategy # "LRU"
  BY <1>1, <1>2 DEF Times, TimesPast, TimesOrdered
<1>3. CASE strategy = "LRU" /\ PinHit(c, p)
  <2>1. PICK f \in FrameID : f = page_table[p]
    BY <1>3 DEF PinHit, TypeOK
  <2> DEFINE d == frame_descriptors[f]
  <2>2. d \in FrameDescriptor
    BY DEF TypeOK
  <2>3. Pinned(d).time = global_time
    BY <1>3, <2>2, PinnedType
  <2>4. /\ frame_descriptors' = [frame_descriptors EXCEPT ![f] = Pinned(d)]
        /\ p \in DOMAIN page_table /\ page_table' = page_table
        /\ buffer_count' = buffer_count
        /\ global_time' = global_time + 1
        /\ older' = Refreshed(p)
    BY <1>3, <2>1 DEF PinHit, Tick
  <2> HIDE DEF d
  <2>5. /\ frame_descriptors'[f].time = global_time
        /\ \A g \in FrameID : g # f => frame_descriptors'[g].time = frame_descriptors[g].time
    BY <2>3, <2>4 DEF TypeOK
  <2> QED
    BY <1>3, <2>1, <2>4, <2>5, PinnedLast
<1>4. CASE strategy = "LRU" /\ PinMiss(c, p)
  <2>1. PICK f \in FrameID :
          /\ Claim(p, f)
          /\ frame_descriptors' = [Descriptors EXCEPT ![f] = Loaded(@, p)]
    BY <1>4 DEF PinMiss
  <2>2. /\ p \in DOMAIN page_table' /\ page_table'[p] = f
        /\ \A q \in DOMAIN page_table' : q # p =>
             q \in DOMAIN page_table /\ page_table'[q] = page_table[q]
        /\ \A g \in FrameID : g < buffer_count' => g < buffer_count \/ g = f
    <3>1. /\ page_table'[p] = f
          /\ DOMAIN page_table' = {q \in DOMAIN page_table : page_table[q] # f} \cup {p}
          /\ \A q \in DOMAIN page_table : page_table[q] # f => page_table'[q] = page_table[q]
          /\ \A g \in FrameID : g < buffer_count' <=> (g < buffer_count \/ g = f)
      BY <2>1, ClaimExact
    <3> QED
      BY <3>1
  <2> DEFINE d == Descriptors[f]
  <2>3. d \in FrameDescriptor /\ frame_descriptors' = [Descriptors EXCEPT ![f] = Loaded(d, p)]
    BY <2>1, DescriptorsType
  <2> HIDE DEF d
  <2>4. Loaded(d, p).time = global_time
    BY <1>4, <2>3, LoadedType
  <2>5. /\ frame_descriptors'[f].time = global_time
        /\ \A g \in FrameID : g # f => frame_descriptors'[g].time = frame_descriptors[g].time
    BY <2>3, <2>4, DescriptorsType
  <2>6. global_time' = global_time + 1 /\ older' = Refreshed(p)
    BY <1>4 DEF PinMiss, Tick
  <2> QED
    BY <1>4, <2>2, <2>5, <2>6, PinnedLast
<1> QED
  BY <1>2, <1>3, <1>4

LEMMA TimesStep ==
  TypeOK /\ Books /\ Times /\ [Next]_vars /\ TypeOK' /\ Books' => Times'
<1> SUFFICES ASSUME TypeOK, Books, Times, [Next]_vars, TypeOK', Books' PROVE Times'
  OBVIOUS
<1>1. CASE failures' # 0
  BY <1>1 DEF Times, TimesPast, TimesOrdered
<1>2. CASE failures' = 0
  <2>1. failures = 0
    BY <1>2, FailuresStay
  <2>2. ASSUME NEW c \in Client, NEW p \in PageID, Pin(c, p)
        PROVE  Times'
    BY <1>2, <2>1, <2>2, FailuresStay, NoPinPanics, PinTimes DEF Pin
  <2>3. ASSUME NEW c \in Client, NEW v \in Content, Modify(c, v)
        PROVE  Times'
    BY <2>3 DEF Modify, Times, TimesPast, TimesOrdered
  <2>4. ASSUME NEW c \in Client, Unpin(c)
        PROVE  Times'
    <3>1. PICK f \in FrameID : f = page_table[held[c]] /\ held[c] \in DOMAIN page_table
      BY <2>1, <2>4 DEF Unpin, Books, PinsExact, TypeOK
    <3> DEFINE d == frame_descriptors[f]
    <3>2. d \in FrameDescriptor
      BY DEF TypeOK
    <3>3. Unpinning(c, d).time = d.time
      BY <3>2, UnpinningType
    <3>4. /\ frame_descriptors' = [frame_descriptors EXCEPT ![f] = Unpinning(c, d)]
          /\ UNCHANGED <<strategy, buffer_count, page_table, global_time, older, failures>>
      BY <2>4, <3>1 DEF Unpin
    <3> HIDE DEF d
    <3>5. \A g \in FrameID : frame_descriptors'[g].time = frame_descriptors[g].time
      BY <3>3, <3>4 DEF d, TypeOK
    <3> QED
      BY <3>4, <3>5 DEF Times, TimesPast, TimesOrdered, TypeOK
  <2>5. ASSUME NEW p \in PageID, AllocatePage(p) \/ FreePage(p)
        PROVE  Times'
    BY <2>5 DEF AllocatePage, FreePage, managerVars, clientVars, historyVars,
                Times, TimesPast, TimesOrdered
  <2>6. CASE UNCHANGED vars
    BY <2>6 DEF vars, managerVars, clientVars, historyVars, Times, TimesPast, TimesOrdered
  <2> QED
    BY <2>2, <2>3, <2>4, <2>5, <2>6 DEF Next
<1> QED
  BY <1>1, <1>2

LEMMA TimesCorrect == Spec => []Times
<1>1. Init => Times
  <2> SUFFICES ASSUME Init PROVE Times
    OBVIOUS
  <2>1. DOMAIN page_table = {}
    BY DEF Init
  <2>2. \A f \in FrameID : ~(f < buffer_count)
    BY NAssumption DEF Init, FrameID
  <2> QED
    BY <2>1, <2>2 DEF Times, TimesPast, TimesOrdered
<1> QED
  BY <1>1, TypeCorrect, BooksCorrect, TimesStep, PTL DEF Spec

(***************************************************************************)
(* AllPagesPinned means what it says, for both strategies: CLOCK's hand    *)
(* comes to a frame that is not pinned twice, wherever it starts, and has  *)
(* cleared its bit by the second time; LRU's search finds one because no   *)
(* time is as late as the present.                                         *)
(***************************************************************************)
THEOREM RefusedOnlyWhenAllPinned == Spec => []RefusedOnlyWhenPinned
<1>1. TypeOK /\ Times => RefusedOnlyWhenPinned
  <2> SUFFICES ASSUME TypeOK, Times, failures = 0, buffer_count = N, Candidates = {}
               PROVE  Unpinned = {}
    BY DEF RefusedOnlyWhenPinned
  <2>1. CASE strategy = "LRU"
    <3>1. \A f \in FrameID : f < buffer_count
      BY NAssumption DEF FrameID
    <3>2. \A f \in Unpinned : f \in FrameID /\ frame_descriptors[f].time < global_time
      BY <2>1, <3>1 DEF Times, TimesPast, Unpinned
    <3> QED
      BY <2>1, <3>2 DEF Candidates
  <2>2. CASE strategy # "LRU"
    <3>1. Stops = {}
      BY <2>2 DEF Candidates
    <3> QED
      BY <3>1, ClockStops
  <2> QED
    BY <2>1, <2>2
<1> QED
  BY <1>1, TypeCorrect, TimesCorrect, PTL

(***************************************************************************)
(* LRU is least recently used: the page a step takes out of the table is   *)
(* one that no page in an unpinned frame was last pinned before.           *)
(***************************************************************************)
THEOREM LRUEvictsLeastRecent == Spec => LRUOrder
<1>1. TypeOK /\ Books /\ Times /\ [Next]_vars =>
        [strategy = "LRU" /\ failures = 0 => EvictsLeastRecent]_vars
  <2> SUFFICES ASSUME TypeOK, Books, Times, [Next]_vars, strategy = "LRU", failures = 0,
                      NEW p \in DOMAIN page_table \ DOMAIN page_table',
                      NEW q \in DOMAIN page_table, page_table[q] \in Unpinned
               PROVE  <<q, p>> \notin older
    BY DEF EvictsLeastRecent
  <2>1. PICK r \in PageID, f \in FrameID : Claim(r, f)
    <3>1. PICK c \in Client, r \in PageID : Pin(c, r) /\ ~PinHit(c, r) /\ ~PinPanics(c, r)
      BY DEF Next, Pin, PinHit, PinPanics, Modify, Unpin, AllocatePage, FreePage,
             vars, managerVars
    <3> QED
      BY <3>1 DEF Pin, PinMiss, PinWriteFails, PinReadFails
  <2>2. page_table[p] = f
    <3>1. DOMAIN page_table' = {a \in DOMAIN page_table : page_table[a] # f} \cup {r}
      BY <2>1, ClaimExact
    <3> QED
      BY <3>1
  <2>3. ClaimVictim(r, f)
    <3>1. CASE ClaimUnused(r, f)
      BY <2>2, <3>1 DEF ClaimUnused, Mapping
    <3> QED
      BY <2>1, <3>1 DEF Claim
  <2>4. f = Victim /\ Candidates # {} /\ buffer_count = N
    <3>1. Candidates # {} /\ buffer_count = N /\ f = page_table[VictimPage]
      BY <2>3 DEF ClaimVictim, Replace
    <3>2. Victim \in FrameID
      BY <3>1, VictimIsUnpinned
    <3> QED
      BY <3>1, <3>2, NAssumption DEF VictimPage, Books, TableAgrees, FrameID
  <2>5. page_table[q] \in Candidates
    <3>1. page_table[q] \in FrameID /\ page_table[q] < buffer_count
      BY DEF Books, TableAgrees, TypeOK
    <3> QED
      BY <3>1 DEF Candidates, Times, TimesPast
  <2>6. Before(f, page_table[q])
    BY <2>4, <2>5, VictimIsLeast, Zenon
  <2>7. /\ frame_descriptors[f].time \in Nat
        /\ frame_descriptors[page_table[q]].time \in Nat
    BY DEF TypeOK, FrameDescriptor
  <2>8. ~(frame_descriptors[page_table[q]].time < frame_descriptors[page_table[p]].time)
    BY <2>2, <2>6, <2>7 DEF Before
  <2> QED
    BY <2>8 DEF Times, TimesOrdered
<1> QED
  BY <1>1, TypeCorrect, BooksCorrect, TimesCorrect, PTL DEF Spec, LRUOrder

=============================================================================
