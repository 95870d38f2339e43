----------------------------- MODULE BufferManager -----------------------------
(***************************************************************************)
(* The buffer manager of buffer-pool (src/buffer/buffer_manager.rs) over   *)
(* the disk manager, with the clients that pin pages, modify them and      *)
(* unpin them.  The manager is single-threaded: every call is one step,    *)
(* and the pins of different clients overlap.                              *)
(*                                                                         *)
(* A disk operation fails when the page is not handed out and may fail     *)
(* with an I/O error.  pin() has changed its tables by then, and nothing   *)
(* is undone.                                                              *)
(***************************************************************************)
EXTENDS DiskManager, FiniteSets

CONSTANTS
  N,           \* BUFFER_POOL_SIZE
  Client,
  NoPage,      \* a client holds no pin
  KeepDirty,   \* clients unpin a page dirty whose descriptor says so already
  MaxPins,     \* bound: pins
  MaxFailures  \* bound: pins that a disk operation made fail

ASSUME NAssumption == N \in Nat \ {0}
ASSUME BoundsAssumption == MaxPins \in Nat /\ MaxFailures \in Nat
ASSUME ClientAssumption == IsFiniteSet(Client)
ASSUME NoPageAssumption == NoPage \notin Nat
ASSUME KeepDirtyAssumption == KeepDirty \in BOOLEAN

VARIABLES
  strategy,           \* the ReplacementStrategy the manager was built with
  buffer_count,
  page_table,
  frame_descriptors,
  pool,
  last_evict,
  global_time,        \* of LRUReplacementStrategy
  clock_hand,         \* of ClockReplacementStrategy
  held,               \* per client, the page it has pinned
  wrote,              \* per client, whether it modified that page
  latest,             \* history: the contents a page was last given, Blank if none
  unwritten,          \* history: the contents no client has written yet
  older,              \* history: the pairs of resident pages, the one pinned longer ago first
  pins,               \* history: number of pins, failed ones included
  failures,           \* history: number of failed pins
  panicked

managerVars == <<strategy, buffer_count, page_table, frame_descriptors, pool, last_evict,
                 global_time, clock_hand>>
clientVars == <<held, wrote, latest>>
historyVars == <<unwritten, older, pins, failures, panicked>>
vars == <<diskVars, managerVars, clientVars, historyVars>>

FrameID == 0 .. N - 1

FrameDescriptor ==
  [page_id : Nat, pin_count : Nat, dirty : BOOLEAN, clock_bit : BOOLEAN, time : Nat]

DefaultDescriptor ==
  [page_id |-> 0, pin_count |-> 0, dirty |-> FALSE, clock_bit |-> FALSE, time |-> 0]

Unpinned == {f \in FrameID : frame_descriptors[f].pin_count = 0}

-----------------------------------------------------------------------------
(***************************************************************************)
(* Replacement.  Candidates is the set of frames replace() can settle on,  *)
(* Victim the one it does, and Swept the frames whose reference bit it     *)
(* clears on the way.                                                      *)
(***************************************************************************)

\* Fault: the hand goes round once.
Rounds_One == 1

\* The hand goes round twice at most.
Rounds == 2

\* The frame that step i of the loop looks at.
FrameAt(i) == (clock_hand + i) % N

\* The frame is unpinned, and its bit is clear or was cleared by an earlier step.
StopsAt(i) ==
  /\ FrameAt(i) \in Unpinned
  /\ \/ ~frame_descriptors[FrameAt(i)].clock_bit
     \/ \E j \in 0 .. i - 1 : FrameAt(j) = FrameAt(i)

Stops == {i \in 0 .. Rounds * N - 1 : StopsAt(i)}
FirstStop == CHOOSE i \in Stops : \A j \in Stops : i <= j

\* Fault: pinned frames are candidates too.
Candidates_Pinned ==
  IF strategy = "LRU" THEN {f \in FrameID : frame_descriptors[f].time < global_time}
                      ELSE {FrameAt(i) : i \in Stops}

\* LRU starts its search with global_time as the minimum.
Candidates ==
  IF strategy = "LRU" THEN {f \in Unpinned : frame_descriptors[f].time < global_time}
                      ELSE {FrameAt(i) : i \in Stops}

\* Fault: the most recently pinned page is evicted.
Before_Newest(f, g) == frame_descriptors[f].time >= frame_descriptors[g].time

\* LRU scans in the order of the frames and keeps the first of equal times.
Before(f, g) ==
  \/ frame_descriptors[f].time < frame_descriptors[g].time
  \/ frame_descriptors[f].time = frame_descriptors[g].time /\ f <= g

Victim ==
  IF strategy = "LRU" THEN CHOOSE f \in Candidates : \A g \in Candidates : Before(f, g)
                      ELSE FrameAt(FirstStop)

Swept ==
  IF strategy = "LRU" THEN {}
  ELSE Unpinned \cap {FrameAt(i) : i \in 0 .. FirstStop - 1}

\* on_pin and the pin count, on descriptor d.
Pinned(d) ==
  [d EXCEPT !.pin_count = @ + 1,
            !.time = IF strategy = "LRU" THEN global_time ELSE @,
            !.clock_bit = @ \/ strategy = "CLOCK"]

\* The descriptor d of a frame into which page p was loaded.
Loaded(d, p) == Pinned([d EXCEPT !.dirty = FALSE, !.page_id = p])

Tick == global_time' = IF strategy = "LRU" THEN global_time + 1 ELSE global_time

-----------------------------------------------------------------------------

Init ==
  /\ DiskInit
  /\ strategy \in {"LRU", "CLOCK"}
  /\ buffer_count = 0
  /\ page_table = <<>>
  /\ frame_descriptors = [f \in FrameID |-> DefaultDescriptor]
  /\ pool = [f \in FrameID |-> Blank]
  /\ last_evict = 0
  /\ global_time = 0
  /\ clock_hand = 0
  /\ held = [c \in Client |-> NoPage]
  /\ wrote = [c \in Client |-> FALSE]
  /\ latest = [p \in PageID |-> Blank]
  /\ unwritten = Content \ {Blank}
  /\ older = {}
  /\ pins = 0
  /\ failures = 0
  /\ panicked = FALSE

CanPin(c) ==
  /\ ~panicked
  /\ held[c] = NoPage
  /\ pins < MaxPins

Hold(c, p) ==
  /\ pins' = pins + 1
  /\ held' = [held EXCEPT ![c] = p]
  /\ UNCHANGED <<wrote, latest>>

\* The order of the pages in P that were pinned before, and with p pinned now.
OrderOf(P) == older \cap (P \X P)

Refreshed(p) ==
  LET others == DOMAIN page_table' \ {p} IN OrderOf(others) \cup (others \X {p})

PinHit(c, p) ==
  /\ CanPin(c)
  /\ p \in DOMAIN page_table
  /\ frame_descriptors' = [frame_descriptors EXCEPT ![page_table[p]] = Pinned(@)]
  /\ Tick
  /\ UNCHANGED <<strategy, buffer_count, page_table, pool, last_evict, clock_hand>>
  /\ UNCHANGED <<diskVars, unwritten, failures, panicked>>
  /\ Hold(c, p)
  /\ older' = Refreshed(p)

(***************************************************************************)
(* A miss claims a frame for page p, the next unused one or that of the    *)
(* victim, and maps p to it at once.  The victim's frame is the one the    *)
(* table has for the page its descriptor names.                            *)
(***************************************************************************)
Mapping(table, p, f) == [q \in DOMAIN table \cup {p} |-> IF q = p THEN f ELSE table[q]]

ClaimUnused(p, f) ==
  /\ buffer_count < N
  /\ f = buffer_count
  /\ buffer_count' = buffer_count + 1
  /\ page_table' = Mapping(page_table, p, f)
  /\ UNCHANGED <<last_evict, clock_hand>>

VictimPage == frame_descriptors[Victim].page_id

\* Fault: the clock hand leaves the pool.
Replace_NoWrap ==
  /\ buffer_count = N
  /\ Candidates # {}
  /\ last_evict' = VictimPage
  /\ clock_hand' = IF strategy = "CLOCK" THEN Victim + 1 ELSE clock_hand
  /\ UNCHANGED buffer_count

Replace ==
  /\ buffer_count = N
  /\ Candidates # {}
  /\ last_evict' = VictimPage
  /\ clock_hand' = IF strategy = "CLOCK" THEN (Victim + 1) % N ELSE clock_hand
  /\ UNCHANGED buffer_count

\* Fault: the victim stays in the table.
ClaimVictim_Keeps(p, f) ==
  /\ Replace
  /\ VictimPage \in DOMAIN page_table
  /\ f = page_table[VictimPage]
  /\ page_table' = Mapping(page_table, p, f)

ClaimVictim(p, f) ==
  /\ Replace
  /\ VictimPage \in DOMAIN page_table
  /\ f = page_table[VictimPage]
  /\ page_table' =
       Mapping([q \in DOMAIN page_table \ {VictimPage} |-> page_table[q]], p, f)

Claim(p, f) ==
  /\ p \notin DOMAIN page_table
  /\ ClaimUnused(p, f) \/ ClaimVictim(p, f)
  /\ UNCHANGED <<strategy, next_free, free_list, handed, unwritten, panicked>>

\* The descriptors after the sweep of the clock, when there was one.
Descriptors ==
  [f \in FrameID |->
     IF buffer_count = N /\ f \in Swept
     THEN [frame_descriptors[f] EXCEPT !.clock_bit = FALSE]
     ELSE frame_descriptors[f]]

WriteBack(f) ==
  IF frame_descriptors[f].dirty
  THEN /\ Valid(frame_descriptors[f].page_id)
       /\ file' = [file EXCEPT ![frame_descriptors[f].page_id] = pool[f]]
  ELSE UNCHANGED file

\* Fault: a dirty page is replaced without being written.
PinMiss_NoWriteBack(c, p) ==
  /\ CanPin(c)
  /\ \E f \in FrameID :
       /\ Claim(p, f)
       /\ Valid(p)
       /\ UNCHANGED file
       /\ \E read \in ReadInto(file'[p], pool[f]) : pool' = [pool EXCEPT ![f] = read]
       /\ frame_descriptors' = [Descriptors EXCEPT ![f] = Loaded(@, p)]
  /\ Tick
  /\ UNCHANGED failures
  /\ Hold(c, p)
  /\ older' = Refreshed(p)

PinMiss(c, p) ==
  /\ CanPin(c)
  /\ \E f \in FrameID :
       /\ Claim(p, f)
       /\ Valid(p)
       /\ WriteBack(f)
       /\ \E read \in ReadInto(file'[p], pool[f]) : pool' = [pool EXCEPT ![f] = read]
       /\ frame_descriptors' = [Descriptors EXCEPT ![f] = Loaded(@, p)]
  /\ Tick
  /\ UNCHANGED failures
  /\ Hold(c, p)
  /\ older' = Refreshed(p)

Failed ==
  /\ failures < MaxFailures
  /\ failures' = failures + 1
  /\ older' = OrderOf(DOMAIN page_table')
  /\ pins' = pins + 1
  /\ UNCHANGED <<pool, global_time, clientVars>>

\* The victim is dirty and cannot be written.
PinWriteFails(c, p) ==
  /\ CanPin(c)
  /\ \E f \in FrameID : Claim(p, f) /\ frame_descriptors[f].dirty
  /\ frame_descriptors' = Descriptors
  /\ UNCHANGED file
  /\ Failed

PinReadFails(c, p) ==
  /\ CanPin(c)
  /\ \E f \in FrameID :
       /\ Claim(p, f)
       /\ WriteBack(f)
       /\ frame_descriptors' = [Descriptors EXCEPT ![f].dirty = FALSE]
  /\ Failed

\* The victim's page is not in the table: unwrap() of None.
PinPanics(c, p) ==
  /\ CanPin(c)
  /\ p \notin DOMAIN page_table
  /\ Replace
  /\ VictimPage \notin DOMAIN page_table
  /\ frame_descriptors' = Descriptors
  /\ panicked' = TRUE
  /\ UNCHANGED <<diskVars, strategy, page_table, pool, global_time>>
  /\ UNCHANGED <<clientVars, unwritten, older, pins, failures>>

(***************************************************************************)
(* A client changes the page it has pinned, in the frame the table has for *)
(* it.  It writes what nobody has written before, so that stale contents   *)
(* are told from current ones; Content bounds the number of writes.        *)
(***************************************************************************)
Modify(c, v) ==
  /\ ~panicked
  /\ held[c] \in DOMAIN page_table
  /\ v \in unwritten
  /\ unwritten' = unwritten \ {v}
  /\ pool' = [pool EXCEPT ![page_table[held[c]]] = v]
  /\ wrote' = [wrote EXCEPT ![c] = TRUE]
  /\ latest' = [latest EXCEPT ![held[c]] = v]
  /\ UNCHANGED <<diskVars, strategy, buffer_count, page_table, frame_descriptors>>
  /\ UNCHANGED <<last_evict, global_time, clock_hand, held, older, pins, failures, panicked>>

Unpinning(c, d) ==
  [d EXCEPT !.dirty = wrote[c] \/ (KeepDirty /\ @),
            !.pin_count = IF @ > 0 THEN @ - 1 ELSE 0]

Unpin(c) ==
  /\ ~panicked
  /\ held[c] # NoPage
  /\ IF held[c] \in DOMAIN page_table
     THEN /\ frame_descriptors' =
               [frame_descriptors EXCEPT ![page_table[held[c]]] = Unpinning(c, @)]
          /\ held' = [held EXCEPT ![c] = NoPage]
          /\ wrote' = [wrote EXCEPT ![c] = FALSE]
          /\ UNCHANGED panicked
     ELSE /\ panicked' = TRUE
          /\ UNCHANGED <<frame_descriptors, held, wrote>>
  /\ UNCHANGED <<diskVars, strategy, buffer_count, page_table, pool, last_evict>>
  /\ UNCHANGED <<global_time, clock_hand, latest, unwritten, older, pins, failures>>

\* Bound: pages are handed out and freed only while there are pins to come.
AllocatePage(p) ==
  /\ ~panicked /\ pins < MaxPins
  /\ Allocate(p)
  /\ UNCHANGED <<managerVars, clientVars, historyVars>>

\* Clients free pages that nobody has pinned, and may free one they were never given.
FreePage(p) ==
  /\ ~panicked /\ pins < MaxPins
  /\ Free(p)
  /\ \A c \in Client : held[c] # p
  /\ latest' = [latest EXCEPT ![p] = Blank]
  /\ UNCHANGED <<managerVars, held, wrote, historyVars>>

Pin(c, p) ==
  PinHit(c, p) \/ PinMiss(c, p) \/ PinWriteFails(c, p) \/ PinReadFails(c, p) \/ PinPanics(c, p)

Next ==
  \/ \E c \in Client, p \in PageID : Pin(c, p)
  \/ \E c \in Client, v \in Content : Modify(c, v)
  \/ \E c \in Client : Unpin(c)
  \/ \E p \in PageID : AllocatePage(p) \/ FreePage(p)

Spec == Init /\ [][Next]_vars

-----------------------------------------------------------------------------

TypeOK ==
  /\ DiskTypeOK
  /\ strategy \in {"LRU", "CLOCK"}
  /\ buffer_count \in 0 .. N
  /\ DOMAIN page_table \subseteq PageID
  /\ \A p \in DOMAIN page_table : page_table[p] \in FrameID
  /\ frame_descriptors \in [FrameID -> FrameDescriptor]
  /\ pool \in [FrameID -> Content]
  /\ last_evict \in 0 .. MaxPage
  /\ global_time \in 0 .. MaxPins
  /\ clock_hand \in FrameID
  /\ held \in [Client -> PageID \cup {NoPage}]
  /\ wrote \in [Client -> BOOLEAN]
  /\ latest \in [PageID -> Content]
  /\ unwritten \subseteq Content \ {Blank}
  /\ older \subseteq PageID \X PageID
  /\ pins \in 0 .. MaxPins
  /\ failures \in 0 .. MaxFailures
  /\ panicked \in BOOLEAN

(***************************************************************************)
(* As long as no pin has failed, the table and the descriptors agree:      *)
(* every occupied frame is the frame of exactly one page in the table, the *)
(* page its descriptor names.  pin() updates the two at different times.   *)
(***************************************************************************)
TableAgrees ==
  failures = 0 =>
    /\ ~panicked
    /\ \A p \in DOMAIN page_table :
         /\ page_table[p] < buffer_count
         /\ frame_descriptors[page_table[p]].page_id = p
    /\ \A f \in FrameID : f < buffer_count =>
         /\ frame_descriptors[f].page_id \in DOMAIN page_table
         /\ page_table[frame_descriptors[f].page_id] = f

(***************************************************************************)
(* As long as no pin has failed, the pin count of a resident page is the   *)
(* number of clients that hold it and a page that is held is resident:     *)
(* replacement never takes a page away from under a client.                *)
(***************************************************************************)
PinsExact ==
  failures = 0 =>
    /\ \A c \in Client : held[c] # NoPage => held[c] \in DOMAIN page_table
    /\ \A p \in DOMAIN page_table :
         frame_descriptors[page_table[p]].pin_count = Cardinality({c \in Client : held[c] = p})

(***************************************************************************)
(* As long as no pin has failed, a page holds what was last written to it: *)
(* in its frame while it is resident, in the file once it is evicted,      *)
(* through every order of overlapping pins, evictions and reloads, when    *)
(* clients leave a dirty bit that is set alone.                            *)
(***************************************************************************)
NoLostUpdate ==
  failures = 0 =>
    \A p \in PageID : latest[p] # Blank =>
      IF p \in DOMAIN page_table THEN pool[page_table[p]] = latest[p]
                                 ELSE file[p] = latest[p]

(***************************************************************************)
(* AllPagesPinned means what it says: replacement finds no frame only when *)
(* every frame is pinned, whatever the times and reference bits are and    *)
(* wherever the clock hand starts its two rounds.                          *)
(***************************************************************************)
RefusedOnlyWhenPinned ==
  failures = 0 /\ buffer_count = N /\ Candidates = {} => Unpinned = {}

(***************************************************************************)
(* LRU evicts, of the pages it may evict, the one whose last pin is the    *)
(* longest ago.                                                            *)
(***************************************************************************)
EvictsLeastRecent ==
  \A p \in DOMAIN page_table \ DOMAIN page_table', q \in DOMAIN page_table :
    page_table[q] \in Unpinned => <<q, p>> \notin older

LRUOrder == [][strategy = "LRU" /\ failures = 0 => EvictsLeastRecent]_vars

(***************************************************************************)
(* What buffer_manager.rs:18 says of a descriptor's dirty bit: "true if    *)
(* and only if the page in BufferManager differs from the page on disk.    *)
(* Written by unpin."  Stated for pages that were written and are not      *)
(* pinned.                                                                 *)
(***************************************************************************)
CleanMatchesDisk ==
  failures = 0 =>
    \A p \in DOMAIN page_table :
      LET f == page_table[p] IN
        /\ latest[p] # Blank
        /\ f \in Unpinned
        /\ ~frame_descriptors[f].dirty
        => pool[f] = file[p]

=============================================================================
